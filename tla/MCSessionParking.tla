-------------------------- MODULE MCSessionParking --------------------------
(* Small instances of SessionParking.                                      *)
EXTENDS SessionParking, TLC

CONSTANTS e1, e2, e3

=============================================================================
