-------------------------- MODULE SessionNotifier --------------------------
(***************************************************************************)
(* A session runner and the notifier that follows it for people who are    *)
(* away (packages/server/src/notifications.ts, subscribed through the      *)
(* registry's onRegister hook before the runner starts): four kinds of     *)
(* events become notifications, POSTed to a webhook one at a time and each *)
(* retried with a backoff.                                                 *)
(*                                                                         *)
(* A notification is built a microtask after its event, so when the step   *)
(* of the runner that emitted it is over; the snapshot of the session it   *)
(* carries is left out. The receiver may have taken a POST whose answer    *)
(* was lost.                                                               *)
(***************************************************************************)
EXTENDS SessionRunner

CONSTANTS
  Wanted,    \* webhook.events
  Attempts   \* deliveries tried per notification

ASSUME NotifierAssumption == Attempts \in Nat \ {0}

VARIABLES
  chain,     \* #chains of the session: notifications not yet delivered
  tries,     \* attempts made for the first of them
  received   \* the last notification the webhook's receiver has taken

vars == <<runnerVars, chain, tries, received>>

Noticed == {"permission_requested", "turn_result", "session_error", "session_closed"}

\* What of this step is noticed, and the notifications of it.
Noted == {i \in (Len(log) + 1)..Len(log') : log'[i].type \in Noticed \cap Wanted}
Notes ==
  LET Nth(n) == CHOOSE i \in Noted : Cardinality({k \in Noted : k <= i}) = n
      Note(i) == [seq |-> i, type |-> log'[i].type]
  IN  [n \in 1..Cardinality(Noted) |-> Note(Nth(n))]

Nothing == [seq |-> 0, type |-> "none"]

NotifierInit == chain = <<>> /\ tries = 0 /\ received = Nothing

\* #emit and #send, a microtask after the runner's step.
Notify ==
  /\ chain' = chain \o Notes
  /\ UNCHANGED <<tries, received>>

PostUnchained ==
  /\ \E i \in DOMAIN chain :
       /\ received' = chain[i]
       /\ chain' = RemoveAt(chain, i)
  /\ tries' = 0
  /\ UNCHANGED runnerVars
\* One attempt of #deliver: the receiver takes it or not, and the answer comes
\* back well or not.
Post ==
  /\ chain # <<>>
  /\ \E taken \in BOOLEAN : \E ok \in {b \in BOOLEAN : b => taken} :
       /\ received' = IF taken THEN Head(chain) ELSE received
       /\ IF ok \/ tries + 1 = Attempts
          THEN chain' = Tail(chain) /\ tries' = 0
          ELSE chain' = chain /\ tries' = tries + 1
  /\ UNCHANGED runnerVars

Init == RunnerInit /\ NotifierInit

Next == (RunnerNext /\ Notify) \/ Post

\* Timers fire, the history is read, and deliveries are attempted.
Fairness ==
  /\ \A q \in Question : WF_vars(TimesOut(q) /\ Notify)
  /\ WF_vars(Post)

Spec == Init /\ [][Next]_vars /\ Fairness

-----------------------------------------------------------------------------
\* A retried notification holds up the later ones of its session: the receiver
\* may see one twice, never one after a later one.
ReceivedInOrder == [][received'.seq >= received.seq]_vars

\* A model blocked on a question is answered, by somebody or by the timer.
QuestionAnswered ==
  \A q \in Question : told[q] = "asked" ~> told[q] \in Answer
=============================================================================
