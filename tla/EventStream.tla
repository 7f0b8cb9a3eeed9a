---------------------------- MODULE EventStream ----------------------------
(***************************************************************************)
(* What an attachment to a session promises (SessionHandleEvents.event in  *)
(* packages/client/src/index.ts): every event of the session's log, in the *)
(* order of the log, each once, through any number of connections.  A new  *)
(* handle starts from the first event again.                               *)
(***************************************************************************)
EXTENDS Naturals, Sequences

VARIABLES
  log,   \* the events of the session
  seen   \* the numbers of the events handed to this handle's listeners

Init == log = <<>> /\ seen = <<>>

\* The log only grows.
Grow ==
  /\ Len(log') > Len(log)
  /\ SubSeq(log', 1, Len(log)) = log
  /\ UNCHANGED seen

\* The next event is handed over.
Hand ==
  /\ Len(seen) < Len(log)
  /\ seen' = Append(seen, Len(seen) + 1)
  /\ UNCHANGED log

\* The page attaches anew.
Reattach == seen' = <<>> /\ UNCHANGED log

Spec == Init /\ [][Grow \/ Hand \/ Reattach]_<<log, seen>>
=============================================================================
