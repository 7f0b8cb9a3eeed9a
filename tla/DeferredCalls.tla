--------------------------- MODULE DeferredCalls ----------------------------
(***************************************************************************)
(* What a backend that answers deferred executions may rely on, whatever   *)
(* becomes of the session in between: an answer is accepted only while it  *)
(* is waited for, and an accepted one is not waited for again.  Only a     *)
(* crash may take an answer back, with the state it was folded into.       *)
(* SessionParking is shown to implement it.                                *)
(***************************************************************************)
EXTENDS Naturals

CONSTANT Exec    \* executions a session's model may call for

VARIABLES
  asked,         \* executions called for
  open,          \* executions waited for
  applied,       \* executions whose answer was accepted
  crashes        \* crashes of the server

calls == <<asked, open, applied, crashes>>

Init == asked = {} /\ open = {} /\ applied = {} /\ crashes = 0

(* A turn calls for executions once it has all earlier answers.            *)
Ask(batch) ==
  /\ open = {}
  /\ batch \cap asked = {}
  /\ asked' = asked \cup batch
  /\ open' = batch
  /\ UNCHANGED <<applied, crashes>>

Accept(e) ==
  /\ e \in open
  /\ open' = open \ {e}
  /\ applied' = applied \cup {e}
  /\ UNCHANGED <<asked, crashes>>

(* Failed in this process, answered by a tab, or ended with the session.   *)
GiveUp(some) ==
  /\ some \subseteq open
  /\ open' = open \ some
  /\ UNCHANGED <<asked, applied, crashes>>

Crash(stored) ==
  /\ stored \subseteq asked
  /\ open' = stored
  /\ applied' = applied \ stored
  /\ crashes' = crashes + 1
  /\ UNCHANGED asked

Next ==
  \/ \E some \in SUBSET Exec : Ask(some) \/ GiveUp(some) \/ Crash(some)
  \/ \E e \in Exec : Accept(e)

Spec == Init /\ [][Next]_calls

=============================================================================
