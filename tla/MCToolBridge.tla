---------------------------- MODULE MCToolBridge ----------------------------
EXTENDS ToolBridge, TLC

CONSTANTS c1, c2, t1, t2

\* The second tab's page does not run the second call's tool.
Pages == {<<t1, c1>>, <<t1, c2>>, <<t2, c1>>}
=============================================================================
