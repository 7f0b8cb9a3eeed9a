---------------------------- MODULE RestartGuard ----------------------------
(***************************************************************************)
(* `claude-worker guard`, packages/cli/src/guard.ts: before a deploy it    *)
(* asks the running server what a restart would lose, and says safe, busy  *)
(* or unknown. It is composed with the server of ProfileServer, which goes *)
(* on while it looks.                                                      *)
(*                                                                         *)
(* One look is two requests, and each answer is put together in two steps: *)
(* GET /sessions reads the registry and then, after an await, the parked   *)
(* records; GET /queue reads the job records and then, after an await, the *)
(* runs the queue holds. A job that was claimed has left the queued ones   *)
(* and is not among the runs until its runner exists. A busy server is     *)
(* looked at again until the next look would be past the deadline.         *)
(*                                                                         *)
(* costly and steady are history: what a restart would have cost at every  *)
(* moment of the look, and what has not changed its state during it.       *)
(***************************************************************************)
EXTENDS ProfileServer

CONSTANTS
  FlagCases,  \* the --allow-parked and --allow-queued flags to consider
  MaxLooks    \* looks that fit before the deadline, at most

ASSUME GuardAssumption ==
  /\ FlagCases \subseteq [parked : BOOLEAN, queued : BOOLEAN]
  /\ MaxLooks \in Nat \ {0}

VARIABLES
  flags,    \* what the operator says is durable; never changed
  guard,    \* where the guard is
  reasons,  \* this look has found a reason not to restart
  looks,    \* looks begun
  costly,   \* history: sessions and jobs a restart would have cost all through the look
  steady    \* history: those that have not changed their state since it began

guardVars == <<flags, guard, reasons, looks, costly, steady>>

Verdicts == {"safe", "busy", "unknown"}

\* The server is answering a request of the guard.
Answering == guard \in {"listing", "counting"}
Looking == Answering \/ guard = "listed"

\* What GET /sessions calls parked, and GET /queue queued and running.
Parked == {s \in Session : session[s].at \in {"parked", "waking"}}
Resting == {s \in Session : session[s].at = "resting"}
Queued == {s \in Session : session[s].at = "queued"}
Runs == {s \in Session : session[s].job /\ session[s].at \in Live}

\* What a restart would lose. A session being woken is still a parked one; one
\* at rest that is kept live has no record to survive in.
Costs(s) ==
  \/ session[s].at \in {"busy", "claimed", "resting"}
  \/ s \in Parked /\ ~flags.parked
  \/ s \in Queued /\ ~flags.queued

\* What no reading of a look asks for: a claimed job whose runner is being made,
\* and, when the operator says that parks are durable, a session at rest that
\* is kept live. It is listed as parked like the durable ones.
PassedOver(s) ==
  \/ session[s].at = "claimed"
  \/ s \in Resting /\ flags.parked /\ ~session[s].job

GuardInit ==
  /\ Init
  /\ flags \in FlagCases
  /\ guard = "off" /\ reasons = FALSE /\ looks = 0
  /\ costly = {} /\ steady = {}

---------------------------------------------------------------------------
\* The first request: with nothing listening there is nothing to lose.
Look ==
  /\ guard \in {"off", "waiting"} /\ looks < MaxLooks
  /\ looks' = looks + 1
  /\ IF up
     THEN /\ guard' = "listing"
          /\ reasons' = \/ \E s \in Session : session[s].at = "busy"
                        \/ Resting # {} /\ ~flags.parked
          /\ costly' = {s \in Session : Costs(s)}
          /\ steady' = {s \in costly' : ~PassedOver(s)}
     ELSE guard' = "safe" /\ reasons' = FALSE /\ costly' = {} /\ steady' = {}
  /\ UNCHANGED <<flags, vars>>

\* The parked records complete the first answer.
Listed ==
  /\ guard = "listing"
  /\ guard' = "listed"
  /\ reasons' = (reasons \/ (Parked # {} /\ ~flags.parked))
  /\ UNCHANGED <<flags, looks, costly, steady, vars>>

\* The verdict on a look; a busy server is looked at again before the deadline.
\* What the look saw is forgotten, unless it is what makes it safe.
Forgets == reasons' = FALSE /\ costly' = {} /\ steady' = {}

ConcludesNever(found) ==
  IF found THEN guard' = "waiting" /\ Forgets
  ELSE guard' = "safe" /\ UNCHANGED <<reasons, costly, steady>>

Concludes(found) ==
  \/ ~found /\ guard' = "safe" /\ UNCHANGED <<reasons, costly, steady>>
  \/ found /\ looks < MaxLooks /\ guard' = "waiting" /\ Forgets
  \/ found /\ guard' = "busy" /\ Forgets

\* The second request. A refused connection counts as a server with no queue.
CountByParkFlag ==
  /\ guard = "listed"
  /\ IF up
     THEN /\ guard' = "counting"
          /\ reasons' = (reasons \/ (~flags.parked /\ Queued # {}))
          /\ UNCHANGED <<costly, steady>>
     ELSE Concludes(reasons)
  /\ UNCHANGED <<flags, looks, vars>>

Count ==
  /\ guard = "listed"
  /\ IF up
     THEN /\ guard' = "counting"
          /\ reasons' = (reasons \/ (~flags.queued /\ Queued # {}))
          /\ UNCHANGED <<costly, steady>>
     ELSE Concludes(reasons)
  /\ UNCHANGED <<flags, looks, vars>>

\* The runs complete the second answer.
Counted ==
  /\ guard = "counting"
  /\ Concludes(reasons \/ Runs # {})
  /\ UNCHANGED <<flags, looks, vars>>

\* A request fails, or is answered with an error or with something else.
RequestFails ==
  /\ Answering
  /\ guard' = "unknown" /\ Forgets
  /\ UNCHANGED <<flags, looks, vars>>

GuardStep == Look \/ Listed \/ Count \/ Counted \/ RequestFails

\* The server goes on. A request it was answering when it stops has failed.
ServerStep ==
  /\ Next
  /\ UNCHANGED <<flags, looks>>
  /\ IF Answering /\ ~up' THEN guard' = "unknown" /\ Forgets
     ELSE /\ UNCHANGED <<guard, reasons>>
          /\ IF Looking
             THEN /\ costly' = {s \in costly : Costs(s)'}
                  /\ steady' = {s \in steady \cap costly' : session'[s].at = session[s].at}
             ELSE UNCHANGED <<costly, steady>>

GuardNext == GuardStep \/ ServerStep

GuardSpec ==
  /\ GuardInit /\ [][GuardNext]_<<vars, guardVars>>
  /\ WF_<<vars, guardVars>>(GuardStep)

---------------------------------------------------------------------------
(***************************************************************************)
(* Properties.                                                             *)
(***************************************************************************)

\* Safe is never said while something stayed in one and the same state that a
\* restart would lose from before the look to its end: a busy session, a job
\* whose run is at rest, and, unless the operator said they are durable, a
\* parked session or a queued job, however the four readings of a look fall
\* among what the server does (inspect, guard.ts:141). With --allow-parked a
\* session at rest is left out that is no job's and is kept live because a
\* client is attached (parking.ts:241): the guard takes it for a durable one
\* (guard.ts:15), and a restart loses it.
SafeSeesTheSteady == guard = "safe" => steady = {}

\* Safe is only said when nothing a restart would lose was there all through
\* the look ("exit non-zero while the answer is yes", guard.ts:4). It is not
\* so: a claimed job whose runner is still being made is in neither answer, nor
\* is a parked session that wakes between the two readings of GET /sessions or
\* a run that is put back in the queue between those of GET /queue, and a
\* session at rest that is kept live passes for a durable one.
SafeLosesNothing == guard = "safe" => costly = {}

\* Once started the guard comes to a verdict, also when the server never rests,
\* stops, or starts again (the deadline, guard.ts:203).
GuardAnswers == guard # "off" ~> guard \in Verdicts
============================================================================
