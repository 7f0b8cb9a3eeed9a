------------------------- MODULE MCSessionNotifier -------------------------
EXTENDS SessionNotifier

\* An interactive session, a job whose queue closes it on the first result, and
\* a session the server fails for the credentials its init message names.
ThreeSessions ==
  {[questionBehavior |-> "ask",  prompt |-> TRUE,  closesOn |-> "nothing"],
   [questionBehavior |-> "auto", prompt |-> TRUE,  closesOn |-> "turn_result"],
   [questionBehavior |-> "deny", prompt |-> FALSE, closesOn |-> "system_init"]}
=============================================================================
