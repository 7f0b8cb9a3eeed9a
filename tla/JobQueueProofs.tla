--------------------------- MODULE JobQueueProofs ---------------------------
(* Theorems about JobQueue, for every set of jobs and every configuration: *)
(* first with the in-memory adapter as with a remote one, then with the    *)
(* in-memory adapter only.                                                 *)
EXTENDS JobQueue, CollectionLemmas, TLAPS

(* A continuation as the code builds it is well typed.                     *)
LEMMA AwaitType ==
  ASSUME TypeOK, NEW j \in Job, NEW at \in Label
  PROVE  Await(at, j) \in Continuation
BY DEF TypeOK, Await, Continuation, Outcome

LEMMA ChargeType ==
  ASSUME TypeOK, NEW j \in Job, NEW o \in Outcome, NEW n \in Nat
  PROVE  Charge(j, o, n) \in Continuation
BY DEF TypeOK, Charge, Continuation, Outcome, Label

(* Pumping moves only the pump, from and to a phase that holds no job.     *)
LEMMA PumpType ==
  ASSUME TypeOK, Pump
  PROVE  /\ pump' \in Phase
         /\ pump' \in {"claimed", "creating", "failing", "starting"} <=>
            pump \in {"claimed", "creating", "failing", "starting"}
BY DEF TypeOK, Pump, LoopHead, LoopPhase, Phase

LEMMA SettleType ==
  ASSUME TypeOK, NEW j \in Job, NEW o \in Outcome, NEW n \in Nat,
         NEW rest \in SUBSET awaiting, Settle(j, o, n, rest)
  PROVE  /\ status'  \in [Job -> Status]
         /\ attempt' \in [Job -> Nat]
         /\ usage'   \in [Job -> Nat]
         /\ backoff' \subseteq Job
         /\ parkedAt' \subseteq Job
         /\ arrival' \in [Job -> Nat]
         /\ awaiting' \subseteq Continuation
<1>1. Await("requeued", j) \in Continuation /\ Await("ended", j) \in Continuation
  BY AwaitType DEF Label
<1>2. rest \subseteq Continuation
  BY DEF TypeOK
<1>3. QED
  BY <1>1, <1>2 DEF TypeOK, Settle, Status, Outcome

LEMMA FinishType ==
  ASSUME TypeOK, NEW j \in Job, NEW o \in Outcome, NEW n \in Nat,
         NEW rest \in SUBSET awaiting, NEW left \in SUBSET Timer,
         Finish(j, o, n, rest, left)
  PROVE  /\ status'  \in [Job -> Status]
         /\ attempt' \in [Job -> Nat]
         /\ usage'   \in [Job -> Nat]
         /\ backoff' \subseteq Job
         /\ parkedAt' \subseteq Job
         /\ arrival' \in [Job -> Nat]
         /\ spent'   \in [Day -> Nat]
         /\ today'   \in Day
         /\ running' \subseteq Job
         /\ parked'  \subseteq Job
         /\ timers'  \in [Job -> SUBSET Timer]
         /\ killed'  \subseteq Job
         /\ tokens'  \in [Job -> Nat]
         /\ retryTimers' \subseteq Job
         /\ closed'  \in BOOLEAN
         /\ awaiting' \subseteq Continuation
<1>1. /\ running' \subseteq Job /\ parked' \subseteq Job
      /\ timers' \in [Job -> SUBSET Timer] /\ killed' \subseteq Job
      /\ tokens' \in [Job -> Nat] /\ today' \in Day
      /\ retryTimers' \subseteq Job /\ closed' \in BOOLEAN
  BY DEF TypeOK, Finish, Disarm
<1>2. CASE n > 0
  <2>1. Charge(j, o, n) \in Continuation
    BY ChargeType
  <2>2. /\ spent' = [spent EXCEPT ![today] = @ + n] /\ UNCHANGED records
        /\ awaiting' = rest \cup {Charge(j, o, n)}
    BY <1>2 DEF Finish
  <2>3. spent' \in [Day -> Nat]
    BY <2>2 DEF TypeOK
  <2>4. QED
    BY <1>1, <2>1, <2>2, <2>3 DEF TypeOK, records
<1>3. CASE ~(n > 0)
  <2>1. Settle(j, o, 0, rest) /\ UNCHANGED spent
    BY <1>3 DEF Finish
  <2>2. QED
    BY <1>1, <2>1, SettleType DEF TypeOK
<1>4. QED
  BY <1>2, <1>3

LEMMA FinalizeType ==
  ASSUME TypeOK, NEW j \in Job, NEW o \in Outcome, NEW n \in Nat,
         NEW rest \in SUBSET awaiting, Finalize(j, o, n, rest)
  PROVE  TypeOK'
<1>1. Finish(j, o, n, rest, {}) /\ {} \in SUBSET Timer
  BY DEF Finalize
<1>2. subscribed' \subseteq Job /\ UNCHANGED <<pump, claimed, told>>
  BY DEF Finalize, TypeOK
<1>3. QED
  BY <1>1, <1>2, FinishType DEF TypeOK

LEMMA KilledAtOnceType ==
  ASSUME TypeOK, NEW j \in Job, KilledAtOnce(j) PROVE TypeOK'
<1>1. PICK n \in ResultTokens :
        Finish(j, "failed", IF n = 0 THEN tokens[j] ELSE n, awaiting, {"force"})
  BY DEF KilledAtOnce
<1>2. (IF n = 0 THEN tokens[j] ELSE n) \in Nat /\ {"force"} \in SUBSET Timer
  BY QueueAssumption DEF TypeOK, Timer
<1>3. subscribed' \subseteq Job /\ UNCHANGED <<pump, claimed, told>>
  BY DEF KilledAtOnce, TypeOK
<1>4. QED
  BY <1>1, <1>2, <1>3, FinishType DEF TypeOK, Outcome

(* Kill is a finalization, or changes timers, kill marks and tokens only.  *)
LEMMA KillType ==
  ASSUME TypeOK, NEW j \in Job, NEW left \in SUBSET timers[j], NEW n \in Nat,
         Kill(j, left, n)
  PROVE  TypeOK'
<1>1. CASE Finalize(j, "failed", n, awaiting)
  BY <1>1, FinalizeType DEF Outcome
<1>2. CASE ~Finalize(j, "failed", n, awaiting)
  <2>1. /\ tokens' = [tokens EXCEPT ![j] = n]
        /\ \/ timers' = [timers EXCEPT ![j] = left] /\ killed' = killed
           \/ timers' = [timers EXCEPT ![j] = left \cup {"force"}] /\ killed' = killed \cup {j}
    BY <1>2 DEF Kill
  <2>2. left \in SUBSET Timer /\ left \cup {"force"} \in SUBSET Timer
    BY DEF TypeOK, Timer
  <2>3. timers' \in [Job -> SUBSET Timer] /\ killed' \subseteq Job /\ tokens' \in [Job -> Nat]
    BY <2>1, <2>2 DEF TypeOK
  <2>4. UNCHANGED <<records, budget, running, parked, subscribed, sched, awaiting, told>>
    BY <1>2 DEF Kill
  <2>5. QED
    BY <2>3, <2>4 DEF TypeOK, records, budget, sched
<1>3. QED
  BY <1>1, <1>2

LEMMA PumpStepType == TypeOK /\ PumpStep => TypeOK'
<1> SUFFICES ASSUME TypeOK, PumpStep PROVE TypeOK'
  OBVIOUS
<1>1. CASE PumpReturns
  BY <1>1 DEF TypeOK, PumpReturns, Phase, records, budget, runs
<1>2. CASE ClaimNext
  BY <1>2, QueueAssumption DEF TypeOK, ClaimNext, Claimable, Phase, Status, budget, runs
<1>3. CASE StartJob
  BY <1>3 DEF TypeOK, StartJob, Phase, records, budget, runs
<1>4. CASE StartFailed
  BY <1>4 DEF TypeOK, StartFailed, LoopHead, LoopPhase, Phase, Event, records, budget, runs
<1>5. CASE StartedRunning
  <2>1. timers' \in [Job -> SUBSET Timer]
    BY <1>5 DEF TypeOK, StartedRunning, Timer
  <2>2. QED
    BY <1>5, <2>1 DEF TypeOK, StartedRunning, LoopHead, LoopPhase, Phase, Event, records,
       budget
<1>6. CASE StartedOver
  <2>1. claimed \in Job
    BY <1>6 DEF TypeOK, StartedOver
  <2>2. PICK o \in {"succeeded", "failed"}, left \in SUBSET {"force"},
             n \in {0} \cup MessageTokens \cup ResultTokens :
          Finish(claimed, o, n, awaiting, left)
    BY <1>6 DEF StartedOver
  <2>3. o \in Outcome /\ left \in SUBSET Timer /\ n \in Nat
    BY QueueAssumption DEF Outcome, Timer
  <2>4. /\ told' \in [Job -> Event] /\ subscribed' \subseteq Job /\ claimed' = NoJob
        /\ pump' \in {"idle", "exhausted", "affordable"}
    BY <1>6, <2>1 DEF TypeOK, StartedOver, LoopPhase, Event
  <2>5. QED
    BY <2>1, <2>2, <2>3, <2>4, FinishType DEF TypeOK, Phase
<1>7. QED
  BY <1>1, <1>2, <1>3, <1>4, <1>5, <1>6 DEF PumpStep, Started

LEMMA CreateType == TypeOK /\ CreateRunnerSettles => TypeOK'
<1> SUFFICES ASSUME TypeOK, CreateRunnerSettles PROVE TypeOK'
  OBVIOUS
<1>1. CASE CreateFails
  BY <1>1 DEF TypeOK, CreateFails, Phase, Status, Outcome, budget, runs
<1>2. CASE CreateResolves
  BY <1>2 DEF TypeOK, CreateResolves, Phase, records, budget
<1>3. QED
  BY <1>1, <1>2 DEF CreateRunnerSettles

LEMMA SweepType ==
  ASSUME status \in [Job -> Status], Sweep PROVE status' \in [Job -> Status]
BY DEF Sweep, Status

LEMMA ContinueType == ASSUME TypeOK, NEW c \in awaiting, Continue(c) PROVE TypeOK'
<1> DEFINE j == c.job
<1>0. j \in Job /\ c.outcome \in Outcome /\ c.tokens \in Nat /\ c \in Continuation
  BY DEF TypeOK, Continuation
<1> HIDE DEF j
<1>1. CASE Charged(c)
  <2>1. Settle(j, c.outcome, c.tokens, awaiting \ {c})
    BY <1>1 DEF Charged, j
  <2>2. QED
    BY <1>0, <1>1, <2>1, SettleType DEF TypeOK, Charged, budget, runs, sched
<1>2. CASE Requeued(c)
  <2>1. Pump BY <1>2 DEF Requeued
  <2>2. QED
    BY <1>0, <1>2, <2>1, PumpType DEF TypeOK, Requeued, Event, records, budget, runs, j
<1>3. CASE Ended(c)
  <2>1. Pump BY <1>3 DEF Ended
  <2>2. status' \in [Job -> Status]
    BY <1>3, SweepType DEF TypeOK, Ended
  <2>3. QED
    BY <1>0, <1>3, <2>1, <2>2, PumpType DEF TypeOK, Ended, Event, budget, runs, j
<1>4. CASE Added(c)
  <2>1. Pump BY <1>4 DEF Added
  <2>2. QED
    BY <1>0, <1>4, <2>1, PumpType DEF TypeOK, Added, Event, records, budget, runs, j
<1>5. CASE CancelRead(c)
  <2>1. CASE Active(j)
    BY <1>0, <1>5, <2>1, FinalizeType DEF CancelRead, TypeOK, Outcome, j
  <2>2. CASE ~Active(j)
    <3>1. Await("dequeued", j) \in Continuation
      BY <1>0, AwaitType DEF Label
    <3>2. QED
      BY <1>0, <1>5, <2>2, <3>1 DEF CancelRead, TypeOK, Status, Outcome, records, budget,
         runs, sched, j
  <2>3. QED
    BY <2>1, <2>2
<1>6. CASE Dequeued(c)
  BY <1>0, <1>6 DEF TypeOK, Dequeued, Event, records, budget, runs, sched, j
<1>7. CASE ParkRecorded(c)
  <2>1. Pump BY <1>7 DEF ParkRecorded
  <2>2. QED
    BY <1>0, <1>7, <2>1, PumpType DEF TypeOK, ParkRecorded, Event, records, budget, runs, j
<1>8. CASE ResumeRecorded(c)
  BY <1>0, <1>8 DEF TypeOK, ResumeRecorded, Event, records, budget, runs, sched, j
<1>9. QED
  BY <1>1, <1>2, <1>3, <1>4, <1>5, <1>6, <1>7, <1>8 DEF Continue

LEMMA RequestType == ASSUME TypeOK, NEW j \in Job, Request(j) PROVE TypeOK'
<1>1. CASE Submit(j)
  <2>1. Await("added", j) \in Continuation
    BY AwaitType DEF Label
  <2>2. Cardinality({i \in Job : status[i] # "none"}) \in Nat
    BY QueueAssumption, FS_Subset, FS_CardinalityType
  <2>3. QED
    BY <1>1, <2>1, <2>2 DEF TypeOK, Submit, Status, budget, runs, sched
<1>2. CASE Cancel(j)
  <2>1. Await("cancelQueued", j) \in Continuation /\ Await("cancelOther", j) \in Continuation
    BY AwaitType DEF Label
  <2>2. QED
    BY <1>2, <2>1 DEF TypeOK, Cancel, records, budget, runs, sched
<1>3. QED
  BY <1>1, <1>2 DEF Request

LEMMA SessionType == ASSUME TypeOK, NEW j \in Job, Session(j) PROVE TypeOK'
<1>1. CASE AssistantMessage(j)
  <2>1. PICK n \in MessageTokens :
          IF tokens[j] + n > TokenLimit
          THEN Kill(j, timers[j], tokens[j] + n)
          ELSE /\ tokens' = [tokens EXCEPT ![j] = @ + n]
               /\ UNCHANGED <<records, budget, running, parked, subscribed, timers,
                              killed, sched, awaiting, told>>
    BY <1>1 DEF AssistantMessage
  <2>2. n \in Nat /\ tokens[j] + n \in Nat
    BY QueueAssumption DEF TypeOK
  <2>3. CASE tokens[j] + n > TokenLimit
    BY <2>1, <2>2, <2>3, KillType
  <2>4. CASE ~(tokens[j] + n > TokenLimit)
    BY <2>1, <2>2, <2>4 DEF TypeOK, records, budget, sched
  <2>5. QED
    BY <2>3, <2>4
<1>2. CASE TurnResult(j)
  <2>1. PICK n \in ResultTokens, isError \in BOOLEAN :
          Finalize(j, IF j \in killed \/ isError THEN "failed" ELSE "succeeded",
                   IF n = 0 THEN tokens[j] ELSE n, awaiting)
    BY <1>2 DEF TurnResult
  <2>2. (IF n = 0 THEN tokens[j] ELSE n) \in Nat
    BY QueueAssumption DEF TypeOK
  <2>3. QED
    BY <2>1, <2>2, FinalizeType DEF Outcome
<1>3. CASE SessionEnds(j)
  BY <1>3, FinalizeType DEF SessionEnds, Outcome, TypeOK
<1>4. CASE SessionParking(j)
  <2>1. Await("parkRecorded", j) \in Continuation
    BY AwaitType DEF Label
  <2>2. timers' \in [Job -> SUBSET Timer]
    BY <1>4 DEF TypeOK, SessionParking, SwitchClock, Timer
  <2>3. QED
    BY <1>4, <2>1, <2>2 DEF TypeOK, SessionParking, Status, budget, sched
<1>5. CASE SessionResumed(j)
  <2>1. Await("resumeRecorded", j) \in Continuation
    BY AwaitType DEF Label
  <2>2. timers' \in [Job -> SUBSET Timer]
    BY <1>5 DEF TypeOK, SessionResumed, SwitchClock, Timer
  <2>3. QED
    BY <1>5, <2>1, <2>2 DEF TypeOK, SessionResumed, Status, budget, sched
<1>6. QED
  BY <1>1, <1>2, <1>3, <1>4, <1>5 DEF Session

LEMMA TimerType == ASSUME TypeOK, NEW j \in Job, TimerStep(j) PROVE TypeOK'
<1>1. CASE WatchdogFires(j)
  <2>1. PICK t \in {"duration", "park"} :
          Kill(j, timers[j] \ {t}, tokens[j]) \/ KilledAtOnce(j)
    BY <1>1 DEF WatchdogFires
  <2>2. QED
    BY <2>1, KillType, KilledAtOnceType DEF TypeOK
<1>2. CASE ForceTimerFires(j)
  <2>1. CASE Active(j)
    BY <1>2, <2>1, FinalizeType DEF ForceTimerFires, Outcome, TypeOK
  <2>2. CASE ~Active(j)
    BY <1>2, <2>2 DEF ForceTimerFires, TypeOK, records, budget, sched
  <2>3. QED
    BY <2>1, <2>2
<1>3. CASE RetryTimerFires(j)
  <2>1. Pump BY <1>3 DEF RetryTimerFires
  <2>2. QED
    BY <1>3, <2>1, PumpType DEF TypeOK, RetryTimerFires, records, budget, runs
<1>4. QED
  BY <1>1, <1>2, <1>3 DEF TimerStep

LEMMA InitType == ASSUME Init PROVE TypeOK
<1>1. today \in Day /\ spent \in [Day -> Nat]
  BY QueueAssumption DEF Init, Day
<1>2. /\ status \in [Job -> Status] /\ told \in [Job -> Event] /\ pump \in Phase
      /\ timers \in [Job -> SUBSET Timer]
  BY DEF Init, Status, Event, Phase
<1>3. pump \in {"claimed", "creating", "failing", "starting"} <=> claimed # NoJob
  BY DEF Init
<1>4. QED
  BY <1>1, <1>2, <1>3 DEF Init, TypeOK

LEMMA NextType == ASSUME TypeOK, [Next]_vars PROVE TypeOK'
<1>1. CASE PumpStep
  BY <1>1, PumpStepType
<1>2. CASE CreateRunnerSettles
  BY <1>2, CreateType
<1>3. CASE \E c \in awaiting : Continue(c)
  BY <1>3, ContinueType
<1>4. ASSUME NEW j \in Job, Request(j) \/ Session(j) \/ TimerStep(j) \/ BackoffElapses(j)
      PROVE  TypeOK'
  <2>1. CASE BackoffElapses(j)
    BY <2>1 DEF TypeOK, BackoffElapses, budget, runs, sched
  <2>2. QED
    BY <1>4, <2>1, RequestType, SessionType, TimerType
<1>5. CASE Close
  BY <1>5 DEF TypeOK, Close, records, budget, runs
<1>6. CASE SweepTimerFires
  BY <1>6, SweepType DEF TypeOK, SweepTimerFires, budget, runs, sched
<1>7. CASE DayRollsOver
  BY <1>7, QueueAssumption DEF TypeOK, DayRollsOver, Day, records, runs, sched
<1>8. CASE UNCHANGED vars
  BY <1>8 DEF TypeOK, vars, records, budget, runs, sched
<1>9. QED
  BY <1>1, <1>2, <1>3, <1>4, <1>5, <1>6, <1>7, <1>8 DEF Next

(* Every variable keeps its type: the queue never holds a job it was not   *)
(* given, and holds one exactly in the phases of a start.                  *)
THEOREM TypeCorrect == Spec => []TypeOK
<1>1. QED
  BY InitType, NextType, PTL DEF Spec

-----------------------------------------------------------------------------
(* The inductive invariant behind the watchdogs and the retry wake-ups.    *)
IInv == TypeOK /\ OneHolder /\ Watched /\ RetryWillWake

(* A step that touches no run, no claim and no charge, and makes no known  *)
(* record queued, keeps who holds what.                                    *)
LEMMA RecordStep ==
  ASSUME IInv, TypeOK',
         UNCHANGED <<running, parked, subscribed, timers, killed>>,
         \A j \in Job : claimed = j /\ pump = "starting" => tokens'[j] = tokens[j],
         \A j \in Job : claimed' = j => claimed = j /\ (pump' = "starting" <=> pump = "starting"),
         \A c \in awaiting' : c.at = "charged" => c \in awaiting,
         pump' # "starting" => pump # "starting",
         \A j \in Job : status'[j] = status[j]
                        \/ status'[j] \notin {"none", "queued"}
                        \/ (status[j] = "none" /\ status'[j] = "queued"),
         backoff' \subseteq backoff
  PROVE  OneHolder' /\ Watched'
<1> USE DEF IInv, OneHolder
<1>1. MapsDisjoint' /\ KilledHaveForce'
  BY DEF MapsDisjoint, KilledHaveForce
<1>2. PumpHoldsItsJob'
  BY DEF PumpHoldsItsJob
<1>3. ChargesAreOver'
  BY DEF ChargesAreOver, ChargeOf, Active
<1>4. NotClaimable'
  BY DEF NotClaimable, InFlight, ChargeOf, Active, TypeOK
<1>5. BackoffKnown'
  BY DEF BackoffKnown, TypeOK
<1>6. Watched'
  BY DEF Watched, TypeOK
<1>7. QED
  BY <1>1, <1>2, <1>3, <1>4, <1>5, <1>6

(* A step that queues no job in backoff keeps the wake-ups it has.         *)
LEMMA WakeStep ==
  ASSUME IInv, closed => closed', backoff' \subseteq backoff,
         \A j \in backoff' : status'[j] = "queued" => status[j] = "queued",
         \A j \in backoff' : j \in retryTimers => j \in retryTimers' \/ closed',
         \A c \in awaiting : c.at = "requeued" =>
            c \in awaiting' \/ c.job \in retryTimers' \/ closed'
  PROVE  RetryWillWake'
BY DEF IInv, RetryWillWake

(* The settled accounts: the record is queued again only with a wake-up    *)
(* coming, and nobody holds the job.                                       *)
LEMMA SettleStep ==
  ASSUME IInv, TypeOK', NEW j \in Job, NEW o \in Outcome, NEW n \in Nat,
         NEW rest \in SUBSET awaiting, Settle(j, o, n, rest),
         \/ claimed' = claimed /\ pump' = pump
         \/ claimed' = NoJob /\ pump' # "starting" /\ claimed = j,
         closed' = closed, retryTimers' = retryTimers,
         running' = running \ {j}, parked' = parked \ {j},
         subscribed' \subseteq subscribed \cup {j}, killed' \subseteq killed \ {j},
         \A i \in Job \ {j} : timers'[i] = timers[i] /\ tokens'[i] = tokens[i],
         claimed' = j => /\ o # "failed" /\ timers'[j] = {} /\ tokens'[j] = 0
                         /\ j \notin subscribed',
         \A c \in rest : ~ChargeOf(c, j),
         \A c \in awaiting \ rest : c.at # "requeued" /\ (c.at = "charged" => c.job = j)
  PROVE  IInv'
<1> USE DEF IInv, OneHolder
<1>0. \A i \in Job : claimed' = i => claimed = i /\ pump' = pump
  BY QueueAssumption
<1>1. /\ \A i \in Job \ {j} : status'[i] = status[i]
      /\ status'[j] \notin {"none", "queued"} \/ (status'[j] = "queued" /\ o = "failed")
      /\ \A c \in awaiting' : c.at = "charged" => c \in rest
  BY DEF Settle, Retries, Await, Outcome, TypeOK
<1>2. \A i \in Job, c \in awaiting' : ChargeOf(c, i) => c \in awaiting /\ i # j
  BY <1>1 DEF ChargeOf
<1>3. MapsDisjoint' /\ KilledHaveForce'
  BY DEF MapsDisjoint, KilledHaveForce, TypeOK
<1>4. PumpHoldsItsJob'
  BY <1>0 DEF PumpHoldsItsJob
<1>5. ChargesAreOver'
  BY <1>0, <1>2 DEF ChargesAreOver, ChargeOf, Active
<1>6. NotClaimable'
  <2> SUFFICES ASSUME NEW i \in Job, InFlight(i)' PROVE status'[i] \notin {"none", "queued"}
    BY DEF NotClaimable
  <2>1. CASE i = j
    <3>1. ~Active(j)' /\ \A c \in awaiting' : ~ChargeOf(c, j)
      BY <1>2 DEF Active
    <3>2. claimed' = j
      BY <2>1, <3>1 DEF InFlight, ChargeOf
    <3>3. QED
      BY <1>1, <2>1, <3>2
  <2>2. CASE i # j
    <3>1. InFlight(i)
      BY <1>0, <1>2, <2>2 DEF InFlight, Active, ChargeOf
    <3>2. QED
      BY <1>1, <2>2, <3>1 DEF NotClaimable
  <2>3. QED
    BY <2>1, <2>2
<1>7. BackoffKnown'
  <2>1. backoff' \subseteq backoff \cup {j}
    BY DEF Settle
  <2>2. QED
    BY <1>1, <2>1 DEF BackoffKnown, TypeOK
<1>8. Watched'
  <2>1. \A i \in Job : pump = "starting" /\ claimed = i /\ i # j =>
          pump' = "starting" /\ claimed' = i
    BY QueueAssumption
  <2>2. QED
    BY <2>1 DEF Watched, TypeOK
<1>9. RetryWillWake'
  <2>1. \A i \in backoff' \ {j} : i \in backoff
    BY DEF Settle
  <2>2. \A c \in awaiting : c.at = "requeued" => c \in awaiting'
    BY DEF Settle
  <2>3. j \in backoff' /\ status'[j] = "queued" =>
          \E c \in awaiting' : c.at = "requeued" /\ c.job = j
    <3>1. CASE Retries(j, o)
      <4>1. Await("requeued", j) \in awaiting'
        BY <3>1 DEF Settle
      <4>2. Await("requeued", j).at = "requeued" /\ Await("requeued", j).job = j
        BY DEF Await
      <4>3. QED
        BY <4>1, <4>2
    <3>2. CASE ~Retries(j, o)
      <4>1. backoff' = backoff \ {j}
        BY <3>2 DEF Settle
      <4>2. QED
        BY <4>1
    <3>3. QED
      BY <3>1, <3>2
  <2>4. QED
    BY <1>1, <2>1, <2>2, <2>3 DEF RetryWillWake, TypeOK
<1>10. QED
  BY <1>3, <1>4, <1>5, <1>6, <1>7, <1>8, <1>9

(* A finalized run is held by its charge alone, or by nobody, whatever it  *)
(* leaves behind.                                                          *)
LEMMA FinishStep ==
  ASSUME IInv, TypeOK', NEW j \in Job, Active(j), NEW o \in Outcome, NEW n \in Nat,
         NEW rest \in SUBSET awaiting, NEW left, Finish(j, o, n, rest, left),
         \/ claimed' = claimed /\ pump' = pump
         \/ claimed' = NoJob /\ pump' # "starting" /\ claimed = j,
         claimed' = j => o # "failed" /\ n = 0 /\ left = {} /\ j \notin subscribed',
         subscribed' \subseteq subscribed \cup {j},
         \A c \in awaiting \ rest : c.at # "requeued" /\ c.at # "charged"
  PROVE  IInv'
<1> USE DEF IInv, OneHolder
<1>0. \A i \in Job : claimed' = i => claimed = i /\ pump' = pump
  BY QueueAssumption
<1>1. /\ running' = running \ {j} /\ parked' = parked \ {j} /\ killed' = killed \ {j}
      /\ timers' = [timers EXCEPT ![j] = left] /\ tokens' = [tokens EXCEPT ![j] = 0]
      /\ closed' = closed /\ retryTimers' = retryTimers
  BY DEF Finish, Disarm
<1>2. /\ \A i \in Job \ {j} : timers'[i] = timers[i] /\ tokens'[i] = tokens[i]
      /\ timers'[j] = left /\ tokens'[j] = 0
  BY <1>1 DEF TypeOK
<1>3. \A c \in awaiting : ~ChargeOf(c, j)
  BY DEF ChargesAreOver
<1>4. CASE n > 0
  <2>1. /\ UNCHANGED records
        /\ awaiting' = rest \cup {Charge(j, o, n)}
    BY <1>4 DEF Finish
  <2>2. claimed' # j
    BY <1>4
  <2>3. \A i \in Job, c \in awaiting' :
          ChargeOf(c, i) => (c \in awaiting /\ i # j) \/ (c = Charge(j, o, n) /\ i = j)
    BY <1>3, <2>1 DEF ChargeOf, Charge
  <2>4. MapsDisjoint' /\ KilledHaveForce'
    BY <1>1, <1>2 DEF MapsDisjoint, KilledHaveForce, TypeOK
  <2>5. PumpHoldsItsJob'
    BY <1>0, <1>1, <1>2, <2>2 DEF PumpHoldsItsJob
  <2>6. ChargesAreOver'
    BY <1>0, <1>1, <2>2, <2>3 DEF ChargesAreOver, ChargeOf, Active
  <2>7. NotClaimable'
    <3>1. \A i \in Job : InFlight(i)' => InFlight(i)
      BY <1>0, <1>1, <2>3 DEF InFlight, Active, ChargeOf
    <3>2. QED
      BY <2>1, <3>1 DEF NotClaimable, records
  <2>8. BackoffKnown'
    BY <2>1 DEF BackoffKnown, records
  <2>9. Watched'
    <3>1. \A i \in Job : pump = "starting" /\ claimed = i /\ i # j =>
            pump' = "starting" /\ claimed' = i
      BY QueueAssumption
    <3>2. QED
      BY <1>1, <1>2, <3>1 DEF Watched, TypeOK
  <2>10. RetryWillWake'
    BY <1>1, <2>1, WakeStep DEF records
  <2>11. QED
    BY <2>4, <2>5, <2>6, <2>7, <2>8, <2>9, <2>10
<1>5. CASE ~(n > 0)
  <2>1. Settle(j, o, 0, rest)
    BY <1>5 DEF Finish
  <2>2. \A c \in rest : ~ChargeOf(c, j)
    BY <1>3
  <2>3. QED
    BY <1>1, <1>2, <2>1, <2>2, SettleStep
<1>6. QED
  BY <1>4, <1>5

LEMMA FinalizeStep ==
  ASSUME IInv, NEW j \in Job, Active(j), NEW o \in Outcome, NEW n \in Nat,
         claimed = j => o # "failed" /\ n = 0,
         NEW rest \in SUBSET awaiting, Finalize(j, o, n, rest),
         \A c \in awaiting \ rest : c.at # "requeued" /\ c.at # "charged"
  PROVE  IInv'
<1>1. TypeOK'
  BY FinalizeType DEF IInv
<1>2. /\ Finish(j, o, n, rest, {}) /\ subscribed' = subscribed \ {j}
      /\ claimed' = claimed /\ pump' = pump
  BY DEF Finalize
<1>3. QED
  BY <1>1, <1>2, FinishStep

(* A watchdog, or a message over the token limit, never leaves a run       *)
(* without a timer: it ends it, or starts the grace period.                *)
LEMMA KillStep ==
  ASSUME IInv, NEW j \in Job, claimed = j => pump # "starting",
         NEW t \in {"duration", "park", "none"}, NEW n \in Nat,
         t \in timers[j] \/ t = "none", Kill(j, timers[j] \ {t}, n)
  PROVE  IInv'
<1> USE DEF IInv, OneHolder
<1>0. TypeOK'
  BY KillType
<1>1. CASE Finalize(j, "failed", n, awaiting) /\ Active(j)
  BY <1>1, FinalizeStep DEF PumpHoldsItsJob, Active, Outcome
<1>2. CASE ~(Finalize(j, "failed", n, awaiting) /\ Active(j))
  <2>1. /\ UNCHANGED <<records, budget, running, parked, subscribed, sched, awaiting, told>>
        /\ tokens' = [tokens EXCEPT ![j] = n]
        /\ \/ /\ ~Active(j) \/ j \in killed
              /\ timers' = [timers EXCEPT ![j] = timers[j] \ {t}]
              /\ killed' = killed
           \/ /\ j \in running
              /\ timers' = [timers EXCEPT ![j] = (timers[j] \ {t}) \cup {"force"}]
              /\ killed' = killed \cup {j}
    BY <1>2 DEF Kill, Active
  <2>2. /\ \A i \in Job \ {j} : timers'[i] = timers[i] /\ tokens'[i] = tokens[i]
        /\ timers'[j] \subseteq timers[j] \cup {"force"}
        /\ j \in killed /\ j \in running => "force" \in timers'[j]
        /\ j \in killed' => j \in killed \/ ("force" \in timers'[j] /\ j \in running)
    BY <2>1 DEF KilledHaveForce, TypeOK
  <2>3. MapsDisjoint' /\ KilledHaveForce'
    BY <2>1, <2>2 DEF MapsDisjoint, KilledHaveForce, TypeOK
  <2>4. PumpHoldsItsJob'
    <3> SUFFICES ASSUME NEW i \in Job, claimed' = i
                 PROVE  /\ i \notin parked'
                        /\ i \in running' => pump' = "starting"
                        /\ pump' = "starting" =>
                             i \notin subscribed' /\ timers'[i] = {} /\ tokens'[i] = 0
      BY DEF PumpHoldsItsJob
    <3>1. CASE i # j
      BY <2>1, <2>2, <3>1 DEF PumpHoldsItsJob, sched
    <3>2. CASE i = j
      BY <2>1, <2>2, <3>2 DEF PumpHoldsItsJob, sched, Active
    <3>3. QED
      BY <3>1, <3>2
  <2>5. ChargesAreOver' /\ NotClaimable' /\ BackoffKnown'
    BY <2>1 DEF ChargesAreOver, NotClaimable, BackoffKnown, InFlight, ChargeOf, Active,
       records, sched
  <2>6. Watched'
    BY <2>1, <2>2 DEF Watched, KilledHaveForce, MapsDisjoint, Active, sched, TypeOK
  <2>7. RetryWillWake'
    BY <2>1, WakeStep DEF records, sched
  <2>8. QED
    BY <1>0, <2>3, <2>4, <2>5, <2>6, <2>7
<1>3. QED
  BY <1>1, <1>2

(* A run ended inside the interrupt is over like any other.                *)
LEMMA KilledAtOnceStep ==
  ASSUME IInv, NEW j \in Job, KilledAtOnce(j)
  PROVE  IInv'
<1>1. TypeOK' /\ Active(j) /\ claimed # j
  BY KilledAtOnceType
  DEF KilledAtOnce, Active, IInv, OneHolder, PumpHoldsItsJob
<1>2. PICK n \in ResultTokens :
        Finish(j, "failed", IF n = 0 THEN tokens[j] ELSE n, awaiting, {"force"})
  BY DEF KilledAtOnce
<1>3. (IF n = 0 THEN tokens[j] ELSE n) \in Nat /\ "failed" \in Outcome
  BY QueueAssumption DEF IInv, TypeOK, Outcome
<1>4. claimed' = claimed /\ pump' = pump /\ subscribed' = subscribed \ {j}
  BY DEF KilledAtOnce
<1>5. QED
  BY <1>1, <1>2, <1>3, <1>4, FinishStep

(* The pump claims only records nobody holds.                              *)
LEMMA ClaimNextStep == ASSUME IInv, ClaimNext PROVE IInv'
<1>0. TypeOK'
  BY PumpStepType DEF PumpStep, IInv
<1>1. pump = "affordable" /\ claimed = NoJob
  BY DEF ClaimNext, TypeOK, IInv
<1>2. \A j \in Job : claimed # j
  BY <1>1, QueueAssumption
<1>3. CASE status' = status /\ claimed' = claimed
  <2>0. pump' # "starting" /\ UNCHANGED <<runs, backoff, awaiting>>
    BY DEF ClaimNext
  <2>1. OneHolder' /\ Watched'
    BY <1>0, <1>1, <1>2, <1>3, <2>0, RecordStep DEF runs
  <2>2. RetryWillWake'
    BY <1>3, WakeStep DEF ClaimNext
  <2>3. QED
    BY <1>0, <2>1, <2>2 DEF IInv, OneHolder, IInv
<1>4. ASSUME NEW j \in Claimable, status' = [status EXCEPT ![j] = "running"],
             claimed' = j, pump' = "claimed"
      PROVE  IInv'
  <2>1. /\ j \in Job /\ status[j] = "queued" /\ status'[j] = "running"
        /\ \A i \in Job \ {j} : status'[i] = status[i]
    BY <1>4 DEF Claimable, TypeOK, IInv
  <2>2. ~InFlight(j)
    BY <2>1 DEF NotClaimable, IInv, OneHolder
  <2>3. MapsDisjoint' /\ KilledHaveForce'
    BY DEF IInv, OneHolder, ClaimNext, runs, MapsDisjoint, KilledHaveForce
  <2>4. PumpHoldsItsJob'
    BY <1>4, <2>2 DEF IInv, OneHolder, ClaimNext, runs, PumpHoldsItsJob, InFlight, Active
  <2>5. ChargesAreOver'
    BY <1>2, <1>4, <2>2 DEF IInv, OneHolder, ClaimNext, runs, ChargesAreOver, InFlight, Active, ChargeOf
  <2>6. NotClaimable'
    BY <1>2, <1>4, <2>1 DEF IInv, OneHolder, ClaimNext, runs, NotClaimable, InFlight, Active, ChargeOf
  <2>7. BackoffKnown'
    BY <2>1 DEF IInv, OneHolder, ClaimNext, BackoffKnown, TypeOK
  <2>8. Watched'
    BY <1>1, <1>4 DEF IInv, OneHolder, ClaimNext, runs, Watched
  <2>9. RetryWillWake'
    BY <2>1, WakeStep DEF ClaimNext, IInv, TypeOK
  <2>10. QED
    BY <1>0, <2>3, <2>4, <2>5, <2>6, <2>7, <2>8, <2>9 DEF IInv, OneHolder
<1>5. QED
  BY <1>3, <1>4 DEF ClaimNext

(* The start of a claimed job: its run replaces the claim.                 *)
LEMMA StartStep == ASSUME IInv, CreateResolves \/ StartedRunning PROVE IInv'
<1> USE DEF IInv, OneHolder
<1>0. TypeOK'
  BY PumpStepType, CreateType DEF PumpStep, Started, CreateRunnerSettles
<1>1. claimed \in Job /\ UNCHANGED <<status, backoff, awaiting, closed, retryTimers, parked>>
  BY DEF CreateResolves, StartedRunning, TypeOK, records
<1>2. claimed \notin parked /\ \A c \in awaiting : ~ChargeOf(c, claimed)
  BY <1>1 DEF PumpHoldsItsJob, ChargesAreOver
<1>3. status[claimed] \notin {"none", "queued"}
  BY <1>1 DEF NotClaimable, InFlight
<1>4. \A j \in Job \ {claimed} : timers'[j] = timers[j]
  BY DEF CreateResolves, StartedRunning, TypeOK
<1>5. BackoffKnown' /\ RetryWillWake'
  BY <1>1, WakeStep DEF BackoffKnown
<1>6. CASE CreateResolves
  <2>1. /\ running' = running \cup {claimed} /\ claimed' = claimed /\ pump' = "starting"
        /\ killed' = killed \ {claimed} /\ subscribed' = subscribed \ {claimed}
        /\ timers'[claimed] = {} /\ tokens'[claimed] = 0
    BY <1>1, <1>6 DEF CreateResolves, TypeOK
  <2>2. MapsDisjoint' /\ KilledHaveForce'
    BY <1>1, <1>2, <1>4, <2>1 DEF MapsDisjoint, KilledHaveForce, TypeOK
  <2>3. PumpHoldsItsJob'
    BY <1>1, <1>2, <2>1 DEF PumpHoldsItsJob
  <2>4. ChargesAreOver'
    BY <1>1, <1>2, <2>1 DEF ChargesAreOver, Active, ChargeOf
  <2>5. NotClaimable'
    BY <1>1, <1>3, <2>1 DEF NotClaimable, InFlight, Active, ChargeOf
  <2>6. Watched'
    <3>1. \A j \in running' \ {claimed} : j \in running
      BY <2>1
    <3>2. pump # "starting"
      BY <1>6 DEF CreateResolves
    <3>3. QED
      BY <1>1, <1>2, <1>4, <2>1, <3>1, <3>2 DEF Watched, TypeOK
  <2>7. QED
    BY <1>0, <1>5, <2>2, <2>3, <2>4, <2>5, <2>6
<1>7. CASE StartedRunning
  <2>1. /\ running' = running /\ claimed' = NoJob /\ pump = "starting"
        /\ killed' = killed
        /\ timers'[claimed] = timers[claimed] \cup ({"duration"} \cap Watchdogs)
        /\ \A j \in Job : claimed' # j
    BY <1>1, <1>7, QueueAssumption DEF StartedRunning, LoopHead, LoopPhase, TypeOK
  <2>2. MapsDisjoint' /\ KilledHaveForce'
    BY <1>1, <1>4, <2>1 DEF MapsDisjoint, KilledHaveForce, TypeOK
  <2>3. PumpHoldsItsJob'
    BY <2>1 DEF PumpHoldsItsJob
  <2>4. ChargesAreOver'
    BY <1>1, <2>1 DEF ChargesAreOver, Active, ChargeOf
  <2>5. NotClaimable'
    BY <1>1, <2>1 DEF NotClaimable, InFlight, Active, ChargeOf
  <2>6. Watched'
    BY <1>1, <1>2, <1>4, <2>1 DEF Watched, TypeOK
  <2>7. QED
    BY <1>0, <1>5, <2>2, <2>3, <2>4, <2>5, <2>6
<1>8. QED
  BY <1>6, <1>7

(* The start of a run that is over by the time the queue subscribes to it. *)
LEMMA StartedOverStep == ASSUME IInv, StartedOver PROVE IInv'
<1>1. TypeOK' /\ claimed \in Job
  BY PumpStepType DEF PumpStep, Started, StartedOver, IInv, TypeOK
<1>2. PICK o \in {"succeeded", "failed"}, left \in SUBSET {"force"},
           n \in {0} \cup MessageTokens \cup ResultTokens :
        Finish(claimed, o, n, awaiting, left)
  BY DEF StartedOver
<1>3. o \in Outcome /\ n \in Nat /\ claimed # NoJob
  BY <1>1, QueueAssumption DEF Outcome
<1>4. claimed' = NoJob /\ pump' # "starting" /\ subscribed' = subscribed \cup {claimed}
  BY DEF StartedOver, LoopPhase
<1>5. Active(claimed)
  BY DEF StartedOver
<1>6. QED
  BY <1>1, <1>2, <1>3, <1>4, <1>5, FinishStep

LEMMA PumpStepStep == ASSUME IInv, PumpStep \/ CreateRunnerSettles PROVE IInv'
<1>0. TypeOK'
  BY PumpStepType, CreateType DEF IInv
<1>1. CASE PumpReturns \/ StartJob
  <2>1. OneHolder' /\ Watched'
    BY <1>0, <1>1, RecordStep DEF PumpReturns, StartJob, records, runs
  <2>2. RetryWillWake'
    BY <1>1, WakeStep DEF PumpReturns, StartJob, records
  <2>3. QED
    BY <1>0, <2>1, <2>2 DEF IInv
<1>2. CASE CreateFails
  <2>1. /\ \A j \in Job : status'[j] \in {status[j], "failed"}
        /\ pump' = "failing"
    BY <1>2 DEF CreateFails, IInv, TypeOK
  <2>2. OneHolder' /\ Watched'
    BY <1>0, <1>2, <2>1, RecordStep DEF CreateFails, runs
  <2>3. RetryWillWake'
    BY <1>2, <2>1, WakeStep DEF CreateFails, IInv, TypeOK
  <2>4. QED
    BY <1>0, <2>2, <2>3 DEF IInv
<1>3. CASE StartFailed
  <2>1. \A j \in Job : claimed' # j
    BY <1>3, QueueAssumption DEF StartFailed
  <2>2. pump' # "starting"
    BY <1>3 DEF StartFailed, LoopHead, LoopPhase
  <2>3. OneHolder' /\ Watched'
    BY <1>0, <1>3, <2>1, <2>2, RecordStep DEF StartFailed, records, runs
  <2>4. RetryWillWake'
    BY <1>3, WakeStep DEF StartFailed, records
  <2>5. QED
    BY <1>0, <2>3, <2>4 DEF IInv
<1>4. QED
  BY <1>1, <1>2, <1>3, ClaimNextStep, StartStep, StartedOverStep
  DEF PumpStep, Started, CreateRunnerSettles

LEMMA PumpKeepsStart ==
  ASSUME Pump PROVE pump' = "starting" <=> pump = "starting"
BY DEF Pump, LoopHead, LoopPhase

(* Ending a run while the pump starts it charges nothing.                  *)
LEMMA StartingIsFree ==
  ASSUME IInv, NEW j \in Job, claimed = j, Active(j)
  PROVE  tokens[j] = 0 /\ timers[j] = {} /\ j \notin subscribed
BY DEF IInv, OneHolder, PumpHoldsItsJob, Active

LEMMA CancelStep ==
  ASSUME IInv, NEW c \in awaiting, CancelRead(c)
  PROVE  IInv'
<1> DEFINE j == c.job
<1>0. j \in Job /\ tokens[j] \in Nat /\ TypeOK'
  BY ContinueType DEF IInv, TypeOK, Continuation, Continue
<1>1. CASE Active(j)
  <2>1. Finalize(j, "canceled", tokens[j], awaiting \ {c})
    BY <1>1 DEF CancelRead
  <2>2. \A d \in awaiting \ (awaiting \ {c}) : d.at # "requeued" /\ d.at # "charged"
    BY DEF CancelRead
  <2>3. claimed = j => tokens[j] = 0
    BY <1>0, <1>1, StartingIsFree
  <2>4. QED
    BY <1>0, <1>1, <2>1, <2>2, <2>3, FinalizeStep DEF Outcome
<1>2. CASE ~Active(j)
  <2>1. /\ UNCHANGED <<backoff, budget, runs, sched>>
        /\ \A i \in Job : status'[i] \in {status[i], "canceled"}
        /\ awaiting' \subseteq awaiting \cup {Await("dequeued", j)}
        /\ awaiting \ {c} \subseteq awaiting'
    BY <1>0, <1>2 DEF CancelRead, records, IInv, TypeOK
  <2>2. \A d \in awaiting' : d.at = "charged" => d \in awaiting
    BY <2>1 DEF Await
  <2>3. OneHolder' /\ Watched'
    BY <1>0, <2>1, <2>2, RecordStep DEF runs, sched
  <2>4. \A d \in awaiting : d.at = "requeued" => d \in awaiting'
    BY <2>1 DEF CancelRead
  <2>5. RetryWillWake'
    BY <2>1, <2>4, WakeStep DEF sched, IInv, TypeOK
  <2>6. QED
    BY <1>0, <2>3, <2>5 DEF IInv
<1>3. QED
  BY <1>1, <1>2

LEMMA ContinueStep ==
  ASSUME IInv, NEW c \in awaiting, Continue(c)
  PROVE  IInv'
<1>0. TypeOK' /\ c \in Continuation
  BY ContinueType DEF IInv, TypeOK
<1>1. CASE Charged(c)
  <2> DEFINE j == c.job
  <2>1. /\ j \in Job /\ c.outcome \in Outcome /\ c.tokens \in Nat /\ ChargeOf(c, j)
    BY <1>0, <1>1 DEF Continuation, Charged, ChargeOf
  <2>2. /\ ~Active(j) /\ claimed # j /\ j \notin killed
        /\ \A d \in awaiting \ {c} : ~ChargeOf(d, j)
    BY <2>1 DEF IInv, OneHolder, ChargesAreOver, KilledHaveForce, Active
  <2>3. Settle(j, c.outcome, c.tokens, awaiting \ {c}) /\ UNCHANGED <<runs, sched>>
    BY <1>1 DEF Charged
  <2>4. /\ running' = running \ {j} /\ parked' = parked \ {j}
        /\ subscribed' \subseteq subscribed /\ killed' \subseteq killed \ {j}
    BY <2>2, <2>3 DEF runs, Active
  <2>5. \A d \in awaiting \ (awaiting \ {c}) : d.at # "requeued" /\ (d.at = "charged" => d.job = j)
    BY <1>1 DEF Charged
  <2>6. QED
    BY <1>0, <2>1, <2>2, <2>3, <2>4, <2>5, SettleStep DEF runs, sched
<1>2. CASE Requeued(c)
  <2>1. OneHolder' /\ Watched'
    BY <1>0, <1>2, PumpKeepsStart, RecordStep DEF Requeued, records, runs
  <2>2. RetryWillWake'
    BY <1>2, WakeStep DEF Requeued, records
  <2>3. QED
    BY <1>0, <2>1, <2>2 DEF IInv
<1>3. CASE Ended(c)
  <2>1. \A j \in Job : status'[j] \in {status[j], "gone"}
    BY <1>3 DEF Ended, Sweep
  <2>2. OneHolder' /\ Watched'
    BY <1>0, <1>3, <2>1, PumpKeepsStart, RecordStep DEF Ended, runs
  <2>3. RetryWillWake'
    BY <1>3, <2>1, WakeStep DEF Ended, IInv, TypeOK
  <2>4. QED
    BY <1>0, <2>2, <2>3 DEF IInv
<1>4. CASE Added(c) \/ ParkRecorded(c)
  <2>1. OneHolder' /\ Watched'
    BY <1>0, <1>4, PumpKeepsStart, RecordStep DEF Added, ParkRecorded, records, runs
  <2>2. RetryWillWake'
    BY <1>4, WakeStep DEF Added, ParkRecorded, records
  <2>3. QED
    BY <1>0, <2>1, <2>2 DEF IInv
<1>5. CASE Dequeued(c) \/ ResumeRecorded(c)
  <2>1. OneHolder' /\ Watched'
    BY <1>0, <1>5, RecordStep DEF Dequeued, ResumeRecorded, records, runs, sched
  <2>2. RetryWillWake'
    BY <1>5, WakeStep DEF Dequeued, ResumeRecorded, records, sched
  <2>3. QED
    BY <1>0, <2>1, <2>2 DEF IInv
<1>6. QED
  BY <1>1, <1>2, <1>3, <1>4, <1>5, CancelStep DEF Continue

LEMMA RequestStep ==
  ASSUME IInv, NEW j \in Job, Request(j)
  PROVE  IInv'
<1>0. TypeOK'
  BY RequestType DEF IInv
<1>1. \A d \in awaiting' : d.at = "charged" => d \in awaiting
  BY DEF Request, Submit, Cancel, Await
<1>2. awaiting \subseteq awaiting'
  BY DEF Request, Submit, Cancel
<1>3. CASE Submit(j)
  <2>1. /\ status[j] = "none" /\ j \notin backoff
        /\ status'[j] = "queued"
        /\ \A i \in Job \ {j} : status'[i] = status[i]
    BY <1>3 DEF Submit, IInv, TypeOK, OneHolder, BackoffKnown
  <2>2. OneHolder' /\ Watched'
    BY <1>0, <1>1, <1>3, <2>1, RecordStep DEF Submit, runs, sched
  <2>3. RetryWillWake'
    BY <1>2, <1>3, <2>1, WakeStep DEF Submit, sched, IInv, TypeOK
  <2>4. QED
    BY <1>0, <2>2, <2>3 DEF IInv
<1>4. CASE Cancel(j)
  <2>1. OneHolder' /\ Watched'
    BY <1>0, <1>1, <1>4, RecordStep DEF Cancel, records, runs, sched
  <2>2. RetryWillWake'
    BY <1>2, <1>4, WakeStep DEF Cancel, records, sched
  <2>3. QED
    BY <1>0, <2>1, <2>2 DEF IInv
<1>5. QED
  BY <1>3, <1>4 DEF Request

(* A park or a resume moves a live run from one map and clock to the other. *)
LEMMA ParkStep ==
  ASSUME IInv, NEW j \in Job, SessionParking(j) \/ SessionResumed(j)
  PROVE  IInv'
<1> USE DEF IInv, OneHolder
<1>0. TypeOK'
  BY SessionType DEF Session
<1>1. Active(j) /\ claimed # j
  BY StartingIsFree DEF SessionParking, SessionResumed, AcceptsPark, Active, PumpHoldsItsJob
<1>2. /\ \A i \in Job : Active(i)' <=> Active(i)
      /\ \A i \in Job \ {j} : /\ i \in running' <=> i \in running
                              /\ i \in parked' <=> i \in parked
                              /\ i \in subscribed' => i \in subscribed
                              /\ timers'[i] = timers[i] /\ status'[i] = status[i]
  BY <1>0 DEF SessionParking, SessionResumed, AcceptsPark, SwitchClock, Active, TypeOK
<1>3. /\ status'[j] \notin {"none", "queued"}
      /\ UNCHANGED <<backoff, killed, tokens, sched>>
      /\ \A d \in awaiting' : d.at = "charged" => d \in awaiting
      /\ awaiting \subseteq awaiting'
  BY DEF SessionParking, SessionResumed, Await, TypeOK
<1>4. j \notin killed
  BY DEF SessionParking, SessionResumed, AcceptsPark, KilledHaveForce, MapsDisjoint
<1>5. MapsDisjoint'
  BY DEF MapsDisjoint, SessionParking, SessionResumed, AcceptsPark
<1>6. KilledHaveForce'
  BY <1>2, <1>3, <1>4 DEF KilledHaveForce, TypeOK
<1>7. PumpHoldsItsJob'
  BY <1>1, <1>2, <1>3 DEF PumpHoldsItsJob, sched
<1>8. ChargesAreOver'
  BY <1>2, <1>3 DEF ChargesAreOver, ChargeOf, sched
<1>9. NotClaimable'
  <2>1. \A i \in Job : InFlight(i)' => InFlight(i)
    BY <1>2, <1>3 DEF InFlight, ChargeOf, sched
  <2>2. QED
    BY <1>2, <1>3, <2>1 DEF NotClaimable
<1>10. BackoffKnown'
  BY <1>2, <1>3 DEF BackoffKnown, TypeOK
<1>11. Watched'
  <2> SUFFICES ASSUME Watchdogs = {"duration", "park"} PROVE Watched'
    BY DEF Watched
  <2>1. \A i \in Job \ {j} :
          /\ i \in running' => \/ timers'[i] \cap {"duration", "force"} # {}
                               \/ pump' = "starting" /\ claimed' = i
          /\ i \in parked' => "park" \in timers'[i]
    BY <1>2, <1>3 DEF Watched, sched
  <2>2. CASE SessionParking(j)
    BY <1>0, <2>1, <2>2 DEF Watched, SessionParking, SwitchClock, AcceptsPark, MapsDisjoint, TypeOK
  <2>3. CASE SessionResumed(j)
    BY <1>0, <2>1, <2>3 DEF Watched, SessionResumed, SwitchClock, MapsDisjoint, TypeOK
  <2>4. QED
    BY <2>2, <2>3
<1>12. RetryWillWake'
  BY <1>2, <1>3, WakeStep DEF sched, TypeOK
<1>13. QED
  BY <1>0, <1>5, <1>6, <1>7, <1>8, <1>9, <1>10, <1>11, <1>12

LEMMA SessionStep ==
  ASSUME IInv, NEW j \in Job, Session(j)
  PROVE  IInv'
<1>0. TypeOK' /\ tokens[j] \in Nat
  BY SessionType DEF IInv, TypeOK
<1>1. CASE AssistantMessage(j)
  <2>1. Active(j) /\ ~(claimed = j)
    BY <1>1, StartingIsFree DEF AssistantMessage
  <2>2. PICK n \in MessageTokens :
          IF tokens[j] + n > TokenLimit
          THEN Kill(j, timers[j], tokens[j] + n)
          ELSE /\ tokens' = [tokens EXCEPT ![j] = @ + n]
               /\ UNCHANGED <<records, budget, running, parked, subscribed, timers,
                              killed, sched, awaiting, told>>
    BY <1>1 DEF AssistantMessage
  <2>3. tokens[j] + n \in Nat
    BY <1>0, QueueAssumption
  <2>4. CASE Kill(j, timers[j], tokens[j] + n)
    <3>1. timers[j] = timers[j] \ {"none"}
      BY DEF IInv, TypeOK, Timer
    <3>2. QED
      BY <2>1, <2>3, <2>4, <3>1, KillStep
  <2>5. CASE /\ tokens' = [tokens EXCEPT ![j] = @ + n]
             /\ UNCHANGED <<records, budget, running, parked, subscribed, timers,
                            killed, sched, awaiting, told>>
    <3>1. \A i \in Job : claimed = i => tokens'[i] = tokens[i]
      BY <2>1, <2>5 DEF IInv, TypeOK
    <3>2. OneHolder' /\ Watched'
      BY <1>0, <2>5, <3>1, RecordStep DEF records, sched
    <3>3. RetryWillWake'
      BY <2>5, WakeStep DEF records, sched
    <3>4. QED
      BY <1>0, <3>2, <3>3 DEF IInv
  <2>6. QED
    BY <2>2, <2>4, <2>5
<1>2. CASE TurnResult(j)
  <2>1. Active(j) /\ ~(claimed = j)
    BY <1>2, StartingIsFree DEF TurnResult
  <2>2. PICK n \in ResultTokens, o \in Outcome :
          Finalize(j, o, IF n = 0 THEN tokens[j] ELSE n, awaiting)
    BY <1>2 DEF TurnResult, Outcome
  <2>3. (IF n = 0 THEN tokens[j] ELSE n) \in Nat
    BY <1>0, QueueAssumption
  <2>4. QED
    BY <2>1, <2>2, <2>3, FinalizeStep
<1>3. CASE SessionEnds(j)
  <2>1. Active(j) /\ ~(claimed = j)
    BY <1>3, StartingIsFree DEF SessionEnds
  <2>2. Finalize(j, "failed", tokens[j], awaiting)
    BY <1>3 DEF SessionEnds
  <2>3. QED
    BY <1>0, <2>1, <2>2, FinalizeStep DEF Outcome
<1>4. QED
  BY <1>1, <1>2, <1>3, ParkStep DEF Session

LEMMA TimerStepStep ==
  ASSUME IInv, NEW j \in Job, TimerStep(j)
  PROVE  IInv'
<1>0. TypeOK' /\ tokens[j] \in Nat
  BY TimerType DEF IInv, TypeOK
<1>1. CASE WatchdogFires(j)
  <2>1. PICK t \in {"duration", "park"} :
          /\ t \in timers[j]
          /\ Kill(j, timers[j] \ {t}, tokens[j]) \/ KilledAtOnce(j)
    BY <1>1 DEF WatchdogFires
  <2>2. claimed = j => pump # "starting"
    BY <2>1 DEF IInv, OneHolder, PumpHoldsItsJob
  <2>3. CASE Kill(j, timers[j] \ {t}, tokens[j])
    BY <1>0, <2>1, <2>2, <2>3, KillStep
  <2>4. QED
    BY <2>1, <2>3, KilledAtOnceStep
<1>2. CASE ForceTimerFires(j)
  <2>1. CASE Active(j)
    <3>1. ~(claimed = j)
      BY <1>2, <2>1, StartingIsFree DEF ForceTimerFires
    <3>2. Finalize(j, "failed", tokens[j], awaiting)
      BY <1>2, <2>1 DEF ForceTimerFires
    <3>3. QED
      BY <1>0, <2>1, <3>1, <3>2, FinalizeStep DEF Outcome
  <2>2. CASE ~Active(j)
    <3>1. /\ timers' = [timers EXCEPT ![j] = @ \ {"force"}]
          /\ UNCHANGED <<records, budget, running, parked, subscribed, killed, tokens,
                         sched, awaiting, told>>
      BY <1>2, <2>2 DEF ForceTimerFires
    <3>2. /\ \A i \in Job \ {j} : timers'[i] = timers[i]
          /\ timers'[j] \subseteq timers[j]
      BY <3>1 DEF IInv, TypeOK
    <3>3. OneHolder'
      BY <2>2, <3>1, <3>2 DEF IInv, OneHolder, MapsDisjoint, KilledHaveForce,
         PumpHoldsItsJob, ChargesAreOver, NotClaimable, InFlight, ChargeOf, Active,
         BackoffKnown, records, sched
    <3>4. Watched'
      BY <2>2, <3>1, <3>2 DEF IInv, Watched, Active, sched
    <3>5. RetryWillWake'
      BY <3>1, WakeStep DEF records, sched
    <3>6. QED
      BY <1>0, <3>3, <3>4, <3>5 DEF IInv
  <2>3. QED
    BY <2>1, <2>2
<1>3. CASE RetryTimerFires(j)
  <2>1. OneHolder' /\ Watched'
    BY <1>0, <1>3, PumpKeepsStart, RecordStep DEF RetryTimerFires, records, runs
  <2>2. RetryWillWake'
    BY <1>3, WakeStep DEF RetryTimerFires, records
  <2>3. QED
    BY <1>0, <2>1, <2>2 DEF IInv
<1>4. QED
  BY <1>1, <1>2, <1>3 DEF TimerStep

(* What the queue's promises rest on holds in every reachable state, for   *)
(* any number of jobs, attempts and slots, and any delay of the adapter.   *)
THEOREM Invariance == Spec => []IInv
<1>1. Init => IInv
  <2>1. Init => OneHolder /\ Watched /\ RetryWillWake
    BY QueueAssumption DEF Init, OneHolder, MapsDisjoint, KilledHaveForce, PumpHoldsItsJob,
       ChargesAreOver, NotClaimable, InFlight, Active, BackoffKnown, Watched, RetryWillWake
  <2>2. Init => TypeOK
    BY InitType
  <2>3. QED
    BY <2>1, <2>2 DEF IInv
<1>2. IInv /\ [Next]_vars => IInv'
  <2> SUFFICES ASSUME IInv, [Next]_vars PROVE IInv'
    OBVIOUS
  <2>0. TypeOK'
    BY NextType DEF IInv
  <2>1. ASSUME NEW j \in Job, BackoffElapses(j) PROVE IInv'
    <3>1. OneHolder' /\ Watched'
      BY <2>0, <2>1, RecordStep DEF BackoffElapses, runs, sched
    <3>2. RetryWillWake'
      BY <2>1, WakeStep DEF BackoffElapses, sched
    <3>3. QED
      BY <2>0, <3>1, <3>2 DEF IInv
  <2>2. CASE Close \/ DayRollsOver \/ UNCHANGED vars
    <3>1. OneHolder' /\ Watched'
      BY <2>0, <2>2, RecordStep DEF Close, DayRollsOver, vars, records, runs, sched
    <3>2. RetryWillWake'
      BY <2>2, WakeStep DEF Close, DayRollsOver, vars, records, sched
    <3>3. QED
      BY <2>0, <3>1, <3>2 DEF IInv
  <2>3. CASE SweepTimerFires
    <3>1. \A j \in Job : status'[j] \in {status[j], "gone"}
      BY <2>3 DEF SweepTimerFires, Sweep
    <3>2. OneHolder' /\ Watched'
      BY <2>0, <2>3, <3>1, RecordStep DEF SweepTimerFires, runs, sched
    <3>3. RetryWillWake'
      BY <2>3, <3>1, WakeStep DEF SweepTimerFires, sched, IInv, TypeOK
    <3>4. QED
      BY <2>0, <3>2, <3>3 DEF IInv
  <2>4. QED
    BY <2>1, <2>2, <2>3, PumpStepStep, ContinueStep, RequestStep, SessionStep, TimerStepStep DEF Next
<1>3. QED
  BY <1>1, <1>2, PTL DEF Spec

(* A run in the maps has a watchdog armed whatever parks, resumes and      *)
(* kills it went through, when both limits are configured.                 *)
THEOREM WatchedAlways == Spec => []Watched
<1>1. IInv => Watched
  BY DEF IInv
<1>2. QED
  BY <1>1, Invariance, PTL

(* One job is never held twice: by the pump, a map or a charge in flight.  *)
THEOREM OneHolderAlways == Spec => []OneHolder
<1>1. IInv => OneHolder
  BY DEF IInv
<1>2. QED
  BY <1>1, Invariance, PTL

(* A killed run is never parked: AcceptsPark refuses it, and a parked run  *)
(* is ended rather than killed.                                            *)
THEOREM KilledNeverParked == Spec => []KilledIsNotParked
<1>1. IInv => KilledIsNotParked
  BY DEF IInv, OneHolder, KilledHaveForce, MapsDisjoint, KilledIsNotParked
<1>2. QED
  BY <1>1, Invariance, PTL

(* Every backoff on an open queue has its wake-up armed or about to be.    *)
THEOREM RetriesWake == Spec => []RetryWillWake
<1>1. IInv => RetryWillWake
  BY DEF IInv
<1>2. QED
  BY <1>1, Invariance, PTL

(* No job is ever left to itself, whatever the number of jobs and slots.   *)
THEOREM SupervisedAlways == Spec => []Supervised
<1>1. Watched /\ KilledIsNotParked /\ RetryWillWake => Supervised
  BY DEF Supervised
<1>2. QED
  BY <1>1, WatchedAlways, KilledNeverParked, RetriesWake, PTL

-----------------------------------------------------------------------------
(* The ledger.  What a charge adds to the day stays in flight until it is  *)
(* in the usage of its job, with any delay of the adapter.                 *)

Charges(C) == {c \in C : c.at = "charged"}
Carried(C) == [c \in Charges(C) |-> c.tokens]
Owed(C) == MapThenSumSet(LAMBDA c : c.tokens, Charges(C))

LEMMA OwedIsTotal ==
  ASSUME NEW C, IsFiniteSet(C)
  PROVE  IsFiniteSet(Charges(C)) /\ Owed(C) = Total(Carried(C), Charges(C))
<1> DEFINE S == Charges(C)
           f == Carried(C)
<1>1. IsFiniteSet(S)
  BY FS_Subset DEF Charges
<1>2. PICK g : Summed(g, f, S)
  BY <1>1, SumExists
<1>3. \A s \in SUBSET S : s # {} => f[Chosen(s)] = Chosen(s).tokens
  <2>1. \A s \in SUBSET S : s # {} => Chosen(s) \in S
    BY DEF Chosen
  <2>2. QED
    BY <2>1 DEF Carried
<1> HIDE DEF S, f
<1>4. \A h : Summed(h, f, S) <=>
             h = [s \in SUBSET S |-> IF s = {} THEN 0 ELSE Chosen(s).tokens + h[Rest(s)]]
  BY <1>3 DEF Summed
<1> DEFINE owed == MapThenSumSet(LAMBDA c : c.tokens, S)
<1>5. \E h : Summed(h, f, S) /\ h[S] = owed
  <2> DEFINE sums == CHOOSE h :
        h = [s \in SUBSET S |-> IF s = {} THEN 0 ELSE Chosen(s).tokens + h[Rest(s)]]
  <2>1. Summed(sums, f, S)
    BY <1>2, <1>4
  <2>2. MapThenSumSet(LAMBDA c : c.tokens, S) = sums[S]
    BY DEF MapThenSumSet, MapThenFoldSet, Chosen, Rest
  <2>3. QED
    BY <2>1, <2>2
<1> HIDE DEF owed
<1>6. Total(f, S) = owed
  <2>1. S \in SUBSET S
    OBVIOUS
  <2>2. PICK h : Summed(h, f, S) /\ h[S] = owed
    BY <1>5
  <2>3. PICK e : Summed(e, f, S) /\ e[S] = Total(f, S)
    BY <1>1, TotalIsSummed
  <2>4. e[S] = h[S]
    <3>1. /\ IsFiniteSet(S) /\ Summed(e, f, S) /\ Summed(h, f, S)
          /\ \A c \in S : f[c] = f[c]
      BY <1>1, <2>2, <2>3
    <3>2. QED
      BY <2>1, <3>1, SumsAgree, SMTT(30)
  <2>5. QED
    BY <2>2, <2>3, <2>4
<1>7. QED
  BY <1>1, <1>6 DEF S, f, owed, Owed

LEMMA OwedType ==
  ASSUME NEW C \in SUBSET Continuation, IsFiniteSet(C)
  PROVE  Owed(C) \in Nat
<1>1. \A c \in Charges(C) : Carried(C)[c] \in Nat
  BY DEF Charges, Carried, Continuation
<1>2. QED
  BY <1>1, OwedIsTotal, TotalProperties

\* What one charge adds to what is owed.
LEMMA OwedMore ==
  ASSUME NEW C \in SUBSET Continuation, IsFiniteSet(C),
         NEW c \in Continuation, c.at = "charged", c \notin C,
         NEW D, Charges(D) = Charges(C) \cup {c}, IsFiniteSet(D)
  PROVE  Owed(D) = Owed(C) + c.tokens
<1> DEFINE S == Charges(D)
<1>1. \A d \in S : Carried(D)[d] = d.tokens /\ d.tokens \in Nat
  BY DEF Carried, Charges, Continuation
<1>2. c \in S /\ S \ {c} = Charges(C)
  BY DEF Charges
<1>3. /\ IsFiniteSet(S) /\ Owed(D) = Total(Carried(D), S)
      /\ IsFiniteSet(Charges(C)) /\ Owed(C) = Total(Carried(C), Charges(C))
  BY OwedIsTotal
<1>4. Total(Carried(D), S) = c.tokens + Total(Carried(D), S \ {c})
  BY <1>1, <1>2, <1>3, TotalProperties
<1>5. Total(Carried(D), Charges(C)) = Total(Carried(C), Charges(C))
  <2>1. \A d \in Charges(C) : Carried(D)[d] = Carried(C)[d]
    BY <1>1, <1>2 DEF Carried
  <2>2. QED
    BY <1>3, <2>1, TotalsAgree
<1>6. c.tokens \in Nat /\ Owed(C) \in Nat
  BY OwedType DEF Continuation
<1>7. Owed(D) = c.tokens + Owed(C)
  BY <1>2, <1>3, <1>4, <1>5
<1>8. QED
  BY <1>6, <1>7

LInv == /\ IsFiniteSet(awaiting)
        /\ Total(spent, Day) = Total(usage, Job) + Owed(awaiting)

LEMMA Sizes == IsFiniteSet(Day) /\ IsFiniteSet(Job)
<1>1. LastDay \in Int /\ 1 \in Int
  BY QueueAssumption
<1>2. QED
  BY <1>1, FS_Interval, QueueAssumption DEF Day

\* A step that charges nothing and records no usage.
LEMMA QuietLedger ==
  ASSUME LInv, UNCHANGED <<spent, usage>>, IsFiniteSet(awaiting'),
         Charges(awaiting') = Charges(awaiting)
  PROVE  LInv'
<1>1. Owed(awaiting') = Owed(awaiting)
  BY DEF Owed
<1>2. QED
  BY <1>1 DEF LInv

LEMMA SettleLedger ==
  ASSUME TypeOK, LInv, NEW j \in Job, NEW o \in Outcome, NEW n \in Nat,
         NEW rest \in SUBSET awaiting, Settle(j, o, n, rest)
  PROVE  /\ IsFiniteSet(awaiting') /\ Charges(awaiting') = Charges(rest)
         /\ Total(usage', Job) = Total(usage, Job) + n
<1>1. PICK a \in {Await("requeued", j), Await("ended", j)} : awaiting' = rest \cup {a}
  BY DEF Settle
<1>2. a.at # "charged"
  BY DEF Await
<1>3. IsFiniteSet(rest)
  BY FS_Subset DEF LInv
<1>4. IsFiniteSet(awaiting')
  BY <1>1, <1>3, FS_AddElement
<1>5. Charges(awaiting') = Charges(rest)
  BY <1>1, <1>2 DEF Charges
<1>6. /\ \A i \in Job : usage[i] \in Nat
      /\ usage'[j] = usage[j] + n /\ \A i \in Job \ {j} : usage'[i] = usage[i]
  BY DEF TypeOK, Settle
<1>7. Total(usage', Job) = Total(usage, Job) + n
  BY <1>6, OneGrows, Sizes
<1>8. QED
  BY <1>4, <1>5, <1>7

LEMMA FinishLedger ==
  ASSUME IInv, LInv, NEW j \in Job, Active(j), NEW o \in Outcome, NEW n \in Nat,
         NEW rest \in SUBSET awaiting, Charges(rest) = Charges(awaiting),
         NEW left, Finish(j, o, n, rest, left)
  PROVE  LInv'
<1>0. IsFiniteSet(rest) /\ rest \in SUBSET Continuation
  BY FS_Subset DEF LInv, IInv, TypeOK
<1>1. CASE n > 0
  <2> DEFINE c == Charge(j, o, n)
  <2>1. /\ spent' = [spent EXCEPT ![today] = @ + n] /\ usage' = usage
        /\ awaiting' = rest \cup {c}
    BY <1>1 DEF Finish, records
  <2>2. c \in Continuation /\ c.at = "charged" /\ c.tokens = n /\ c.job = j
    BY ChargeType DEF IInv, Charge
  <2>3. c \notin awaiting
    BY <2>2 DEF IInv, OneHolder, ChargesAreOver, ChargeOf
  <2>4. IsFiniteSet(awaiting') /\ Charges(awaiting') = Charges(awaiting) \cup {c}
    <3>1. Charges(awaiting') = Charges(rest) \cup {c}
      BY <2>1, <2>2 DEF Charges
    <3>2. QED
      BY <1>0, <2>1, <3>1, FS_AddElement
  <2>5. Owed(awaiting') = Owed(awaiting) + n
    BY <2>2, <2>3, <2>4, OwedMore DEF LInv, IInv, TypeOK
  <2>6. /\ \A d \in Day : spent[d] \in Nat
        /\ today \in Day /\ spent'[today] = spent[today] + n
        /\ \A d \in Day \ {today} : spent'[d] = spent[d]
    BY <2>1 DEF IInv, TypeOK
  <2>7. Total(spent', Day) = Total(spent, Day) + n
    BY <2>6, OneGrows, Sizes
  <2>8. Total(usage, Job) \in Nat /\ Owed(awaiting) \in Nat
    <3>1. \A i \in Job : usage[i] \in Nat
      BY DEF IInv, TypeOK
    <3>2. QED
      BY <3>1, Sizes, TotalProperties, OwedType DEF LInv, IInv, TypeOK
  <2>9. Total(spent', Day) = Total(usage', Job) + Owed(awaiting')
    BY <2>1, <2>5, <2>7, <2>8 DEF LInv
  <2>10. QED
    BY <2>4, <2>9 DEF LInv
<1>2. CASE ~(n > 0)
  <2>1. Settle(j, o, 0, rest) /\ spent' = spent
    BY <1>2 DEF Finish
  <2>2. /\ IsFiniteSet(awaiting') /\ Charges(awaiting') = Charges(awaiting)
        /\ Total(usage', Job) = Total(usage, Job) + 0
    BY <2>1, SettleLedger DEF IInv
  <2>3. Total(usage, Job) \in Nat
    <3>1. \A i \in Job : usage[i] \in Nat
      BY DEF IInv, TypeOK
    <3>2. QED
      BY <3>1, Sizes, TotalProperties
  <2>4. Total(spent', Day) = Total(usage', Job) + Owed(awaiting')
    BY <2>1, <2>2, <2>3 DEF LInv, Owed
  <2>5. QED
    BY <2>2, <2>4 DEF LInv
<1>3. QED
  BY <1>1, <1>2

LEMMA FinalizeLedger ==
  ASSUME IInv, LInv, NEW j \in Job, Active(j), NEW o \in Outcome, NEW n \in Nat,
         NEW rest \in SUBSET awaiting, Charges(rest) = Charges(awaiting),
         Finalize(j, o, n, rest)
  PROVE  LInv'
BY FinishLedger DEF Finalize

LEMMA KillLedger ==
  ASSUME IInv, LInv, NEW j \in Job, NEW left, NEW n \in Nat, Kill(j, left, n)
  PROVE  LInv'
<1>1. CASE UNCHANGED <<spent, usage, awaiting>>
  BY <1>1, QuietLedger DEF LInv
<1>2. CASE j \in parked \ killed /\ Finalize(j, "failed", n, awaiting)
  BY <1>2, FinalizeLedger DEF Active, Outcome
<1>3. QED
  BY <1>1, <1>2 DEF Kill, records, budget

LEMMA KilledAtOnceLedger ==
  ASSUME IInv, LInv, NEW j \in Job, KilledAtOnce(j)
  PROVE  LInv'
<1>1. PICK n \in ResultTokens :
        Finish(j, "failed", IF n = 0 THEN tokens[j] ELSE n, awaiting, {"force"})
  BY DEF KilledAtOnce
<1>2. (IF n = 0 THEN tokens[j] ELSE n) \in Nat /\ "failed" \in Outcome /\ Active(j)
  BY QueueAssumption DEF IInv, TypeOK, Outcome, Active, KilledAtOnce
<1>3. QED
  BY <1>1, <1>2, FinishLedger

LEMMA StartedOverLedger ==
  ASSUME IInv, LInv, StartedOver
  PROVE  LInv'
<1>1. PICK o \in {"succeeded", "failed"}, left \in SUBSET {"force"},
           n \in {0} \cup MessageTokens \cup ResultTokens :
        Finish(claimed, o, n, awaiting, left)
  BY DEF StartedOver
<1>2. claimed \in Job /\ Active(claimed) /\ o \in Outcome /\ n \in Nat
  BY QueueAssumption DEF StartedOver, IInv, TypeOK, Outcome
<1>3. QED
  BY <1>1, <1>2, FinishLedger

LEMMA ContinueLedger ==
  ASSUME IInv, LInv, NEW c \in awaiting, Continue(c)
  PROVE  LInv'
<1>0. /\ c \in Continuation /\ c.job \in Job /\ c.outcome \in Outcome /\ c.tokens \in Nat
      /\ awaiting \ {c} \in SUBSET awaiting /\ IsFiniteSet(awaiting \ {c})
  BY FS_Subset DEF IInv, TypeOK, LInv, Continuation
<1>1. CASE Charged(c)
  <2> DEFINE rest == awaiting \ {c}
  <2>1. c.at = "charged" /\ Settle(c.job, c.outcome, c.tokens, rest) /\ spent' = spent
    BY <1>1 DEF Charged, budget
  <2>2. /\ IsFiniteSet(awaiting') /\ Charges(awaiting') = Charges(rest)
        /\ Total(usage', Job) = Total(usage, Job) + c.tokens
    BY <1>0, <2>1, SettleLedger DEF IInv
  <2>3. Owed(awaiting) = Owed(rest) + c.tokens
    <3>1. Charges(awaiting) = Charges(rest) \cup {c} /\ c \notin rest
      BY <2>1 DEF Charges
    <3>2. rest \in SUBSET Continuation
      BY DEF IInv, TypeOK
    <3>3. QED
      BY <1>0, <2>1, <3>1, <3>2, OwedMore DEF LInv
  <2>4. Total(usage, Job) \in Nat /\ Owed(rest) \in Nat
    <3>1. \A i \in Job : usage[i] \in Nat
      BY DEF IInv, TypeOK
    <3>2. QED
      BY <1>0, <3>1, Sizes, TotalProperties, OwedType DEF IInv, TypeOK
  <2>5. Owed(awaiting') = Owed(rest)
    BY <2>2 DEF Owed
  <2>6. Total(spent', Day) = Total(usage', Job) + Owed(awaiting')
    BY <1>0, <2>1, <2>2, <2>3, <2>4, <2>5 DEF LInv
  <2>7. QED
    BY <2>2, <2>6 DEF LInv
<1>2. CASE Requeued(c) \/ Ended(c) \/ Added(c) \/ Dequeued(c) \/ ParkRecorded(c) \/ ResumeRecorded(c)
  <2>1. awaiting' = awaiting \ {c} /\ c.at # "charged" /\ UNCHANGED <<spent, usage>>
    BY <1>2 DEF Requeued, Ended, Added, Dequeued, ParkRecorded, ResumeRecorded, records, budget
  <2>2. Charges(awaiting') = Charges(awaiting)
    BY <2>1 DEF Charges
  <2>3. QED
    BY <1>0, <2>1, <2>2, QuietLedger
<1>3. CASE CancelRead(c)
  <2>1. c.at # "charged" /\ Charges(awaiting \ {c}) = Charges(awaiting)
    BY <1>3 DEF CancelRead, Charges
  <2>2. CASE Active(c.job)
    <3>1. Finalize(c.job, "canceled", tokens[c.job], awaiting \ {c})
      BY <1>3, <2>2 DEF CancelRead
    <3>2. tokens[c.job] \in Nat
      BY <1>0 DEF IInv, TypeOK
    <3>3. QED
      BY <1>0, <2>1, <2>2, <3>1, <3>2, FinalizeLedger DEF Outcome
  <2>3. CASE ~Active(c.job)
    <3>1. /\ UNCHANGED <<spent, usage>>
          /\ \/ awaiting' = awaiting \ {c}
             \/ awaiting' = (awaiting \ {c}) \cup {Await("dequeued", c.job)}
      BY <1>3, <2>3 DEF CancelRead, records, budget
    <3>2. IsFiniteSet(awaiting') /\ Charges(awaiting') = Charges(awaiting)
      <4>1. Await("dequeued", c.job).at # "charged"
        BY DEF Await
      <4>2. Charges(awaiting') = Charges(awaiting \ {c})
        BY <3>1, <4>1 DEF Charges
      <4>3. IsFiniteSet(awaiting')
        <5>1. \A x : IsFiniteSet((awaiting \ {c}) \cup {x})
          BY <1>0, FS_AddElement
        <5>2. QED
          BY <1>0, <3>1, <5>1
      <4>4. QED
        BY <2>1, <4>2, <4>3
    <3>3. QED
      BY <3>1, <3>2, QuietLedger
  <2>4. QED
    BY <2>2, <2>3
<1>4. QED
  BY <1>1, <1>2, <1>3 DEF Continue

LEMMA JobLedger ==
  ASSUME IInv, LInv, NEW j \in Job,
         Request(j) \/ Session(j) \/ TimerStep(j) \/ BackoffElapses(j)
  PROVE  LInv'
<1>0. /\ tokens[j] \in Nat /\ Charges(awaiting) = Charges(awaiting)
      /\ awaiting \in SUBSET awaiting
  BY DEF IInv, TypeOK
<1>1. ASSUME NEW at \in Label, at # "charged", UNCHANGED <<spent, usage>>,
             awaiting' = awaiting \cup {Await(at, j)}
      PROVE  LInv'
  <2>1. Await(at, j).at # "charged"
    BY <1>1 DEF Await
  <2>2. IsFiniteSet(awaiting') /\ Charges(awaiting') = Charges(awaiting)
    BY <1>1, <2>1, FS_AddElement DEF LInv, Charges
  <2>3. QED
    BY <1>1, <2>2, QuietLedger
<1>2. CASE Submit(j) \/ Cancel(j)
  <2>1. UNCHANGED <<spent, usage>>
    BY <1>2 DEF Submit, Cancel, records, budget
  <2>2. \E at \in {"added", "cancelQueued", "cancelOther"} : awaiting' = awaiting \cup {Await(at, j)}
    BY <1>2 DEF Submit, Cancel
  <2>3. QED
    BY <1>1, <2>1, <2>2 DEF Label
<1>3. CASE SessionParking(j) \/ SessionResumed(j)
  <2>1. UNCHANGED <<spent, usage>>
    BY <1>3 DEF SessionParking, SessionResumed, budget
  <2>2. \E at \in {"parkRecorded", "resumeRecorded"} : awaiting' = awaiting \cup {Await(at, j)}
    BY <1>3 DEF SessionParking, SessionResumed
  <2>3. QED
    BY <1>1, <2>1, <2>2 DEF Label
<1>4. CASE AssistantMessage(j)
  <2>1. PICK n \in MessageTokens :
          \/ Kill(j, timers[j], tokens[j] + n)
          \/ UNCHANGED <<records, budget, awaiting>>
    BY <1>4 DEF AssistantMessage
  <2>2. tokens[j] + n \in Nat
    BY <1>0, QueueAssumption
  <2>3. CASE Kill(j, timers[j], tokens[j] + n)
    BY <2>2, <2>3, KillLedger
  <2>4. CASE UNCHANGED <<records, budget, awaiting>>
    BY <2>4, QuietLedger DEF LInv, records, budget
  <2>5. QED
    BY <2>1, <2>3, <2>4
<1>5. CASE TurnResult(j)
  <2>1. Active(j)
    BY <1>5 DEF TurnResult
  <2>2. PICK n \in ResultTokens, o \in Outcome :
          Finalize(j, o, IF n = 0 THEN tokens[j] ELSE n, awaiting)
    BY <1>5 DEF TurnResult, Outcome
  <2>3. (IF n = 0 THEN tokens[j] ELSE n) \in Nat
    BY <1>0, QueueAssumption
  <2>4. QED
    BY <1>0, <2>1, <2>2, <2>3, FinalizeLedger
<1>6. CASE SessionEnds(j) \/ ForceTimerFires(j)
  <2>1. CASE Active(j) /\ Finalize(j, "failed", tokens[j], awaiting)
    BY <1>0, <2>1, FinalizeLedger DEF Outcome
  <2>2. CASE UNCHANGED <<records, budget, awaiting>>
    BY <2>2, QuietLedger DEF LInv, records, budget
  <2>3. QED
    BY <1>6, <2>1, <2>2 DEF SessionEnds, ForceTimerFires
<1>7. CASE WatchdogFires(j)
  <2>1. PICK t \in {"duration", "park"} :
          Kill(j, timers[j] \ {t}, tokens[j]) \/ KilledAtOnce(j)
    BY <1>7 DEF WatchdogFires
  <2>2. QED
    BY <1>0, <2>1, KillLedger, KilledAtOnceLedger
<1>8. CASE RetryTimerFires(j) \/ BackoffElapses(j)
  <2>1. UNCHANGED <<spent, usage, awaiting>>
    BY <1>8 DEF RetryTimerFires, BackoffElapses, records, budget
  <2>2. QED
    BY <2>1, QuietLedger DEF LInv
<1>9. QED
  BY <1>2, <1>3, <1>4, <1>5, <1>6, <1>7, <1>8 DEF Request, Session, TimerStep

(* Every token charged to a day is in the usage of one job or in a charge  *)
(* in flight, through any number of jobs, attempts, kills and cancels      *)
(* (#finalize: recordSpend, then the record).  It rests on OneHolder: a    *)
(* second charge of a run could come while its first is in flight.         *)
THEOREM LedgerBalancesHolds == Spec => []LedgerBalances
<1>1. Init => LInv
  <2> SUFFICES ASSUME Init PROVE LInv
    OBVIOUS
  <2>1. IsFiniteSet(awaiting) /\ Charges(awaiting) = {}
    BY FS_EmptySet DEF Init, Charges
  <2>2. Total(spent, Day) = 0 /\ Total(usage, Job) = 0
    BY Sizes, TotalOfNothing DEF Init
  <2>3. Owed(awaiting) = 0
    <3>1. IsFiniteSet({}) /\ \A c \in {} : Carried(awaiting)[c] \in Nat
      BY FS_EmptySet
    <3>2. Total(Carried(awaiting), {}) = 0
      BY <3>1, TotalProperties
    <3>3. QED
      BY <2>1, <3>2, OwedIsTotal
  <2>4. QED
    BY <2>1, <2>2, <2>3 DEF LInv
<1>2. IInv /\ LInv /\ [Next]_vars => LInv'
  <2> SUFFICES ASSUME IInv, LInv, [Next]_vars PROVE LInv'
    OBVIOUS
  <2>1. CASE \/ PumpReturns \/ ClaimNext \/ StartJob \/ StartFailed \/ StartedRunning
             \/ CreateRunnerSettles \/ Close \/ SweepTimerFires \/ DayRollsOver
             \/ UNCHANGED vars
    <3>1. UNCHANGED <<spent, usage, awaiting>>
      BY <2>1 DEF PumpReturns, ClaimNext, StartJob, StartFailed, StartedRunning,
                  CreateRunnerSettles, CreateFails, CreateResolves, Close, SweepTimerFires,
                  DayRollsOver, vars, records, budget
    <3>2. QED
      BY <3>1, QuietLedger DEF LInv
  <2>2. QED
    BY <2>1, StartedOverLedger, ContinueLedger, JobLedger DEF Next, PumpStep, Started
<1>3. LInv => LedgerBalances
  BY DEF LInv, LedgerBalances, Total, Owed, Charges
<1>4. QED
  BY <1>1, <1>2, <1>3, Invariance, PTL DEF Spec

-----------------------------------------------------------------------------
(* What JobQueue promises with the in-memory adapter it is bundled with:   *)
(* the records, the maps and what observers heard agree, and a job lives   *)
(* the life of JobLifecycle.  Its answers are microtasks, so a step of the *)
(* queue and the continuations it causes are over before anything else     *)
(* comes in.                                                               *)

Over == Outcome \cup {"gone"}

(* One thing at a time: a single continuation waits, and none while the    *)
(* pump is in the middle of a start; a slot the pump saw is still free.    *)
Between == {"idle", "creating", "exhausted", "affordable"}

InTurn ==
  /\ \A c, d \in awaiting : c = d
  /\ awaiting # {} => pump \in Between
  /\ pump = "affordable" => Cardinality(running) < MaxConcurrency

(* What the code after an await finds in the record it is about.           *)
Expects(c) ==
  /\ c.at = "charged" => /\ status[c.job] \in {"running", "parked"}
                         /\ c.outcome = "succeeded" => status[c.job] = "running"
  /\ c.at \in {"added", "requeued", "cancelQueued"} => status[c.job] = "queued"
  /\ c.at = "parkRecorded" => status[c.job] = "parked"
  /\ c.at = "resumeRecorded" => status[c.job] = "running"
  /\ c.at \in {"ended", "dequeued"} => status[c.job] \in Outcome

EndingOf(c, j) == c.job = j /\ c.at \in {"ended", "dequeued"}

(* A job's record, its run and what was told of it.                        *)
Recorded(j) ==
  /\ j \in running => status[j] = "running"
  /\ j \in parked => status[j] = "parked" /\ j \in parkedAt /\ j \notin subscribed
  /\ claimed = j => /\ status[j] = IF pump = "failing" THEN "failed" ELSE "running"
                    /\ pump = "starting" => j \in running
  /\ status[j] \in {"running", "parked"} => InFlight(j)
  /\ ~Active(j) => timers[j] \subseteq {"force"}
  /\ told[j] = "completed" => status[j] \in Over
  /\ status[j] \in Over => \/ told[j] = "completed" \/ claimed = j
                           \/ \E c \in awaiting : EndingOf(c, j)

SerialInv == InTurn /\ (\A c \in awaiting : Expects(c)) /\ \A j \in Job : Recorded(j)

-----------------------------------------------------------------------------
(* A step that concerns one job only is judged by that job.                *)
LEMMA OneJobStep ==
  ASSUME SerialInv, NEW j \in Job,
         \A i \in Job \ {j} :
           /\ status'[i] = status[i] /\ told'[i] = told[i] /\ timers'[i] = timers[i]
           /\ i \in running' <=> i \in running
           /\ i \in parked' <=> i \in parked
           /\ i \in subscribed' <=> i \in subscribed
           /\ i \in parkedAt => i \in parkedAt'
           /\ claimed' = i <=> claimed = i
           /\ claimed = i => pump' = pump,
         \A c \in awaiting : c.job = j,
         \A c \in awaiting' : c.job = j /\ Expects(c)',
         InTurn', Recorded(j)'
  PROVE  SerialInv'
<1> SUFFICES ASSUME NEW i \in Job, i # j PROVE Recorded(i)'
  BY DEF SerialInv
<1>1. /\ \A c \in awaiting : ~ChargeOf(c, i) /\ ~EndingOf(c, i)
      /\ \A c \in awaiting' : ~ChargeOf(c, i) /\ ~EndingOf(c, i)
  BY DEF ChargeOf, EndingOf
<1>2. /\ status'[i] = status[i] /\ told'[i] = told[i] /\ timers'[i] = timers[i]
      /\ i \in running' <=> i \in running
      /\ i \in parked' <=> i \in parked
      /\ i \in subscribed' <=> i \in subscribed
      /\ i \in parkedAt => i \in parkedAt'
      /\ claimed' = i <=> claimed = i
      /\ claimed = i => pump' = pump
  OBVIOUS
<1>3. Recorded(i)
  BY DEF SerialInv
<1>4. QED
  BY <1>1, <1>2, <1>3 DEF Recorded, InFlight, Active

(* An event from outside finds nothing under way.                          *)
LEMMA NothingUnderWay ==
  ASSUME ~RemoteAdapter, Macrotask
  PROVE  awaiting = {} /\ pump \in {"idle", "creating"}
BY DEF Macrotask, AdapterPending

(* Pumping sees the slots that are there.                                  *)
LEMMA PumpInTurn ==
  ASSUME TypeOK, UNCHANGED running, awaiting' = {}, LoopHead(running) \/ (Pump /\ InTurn)
  PROVE  InTurn'
<1>1. Cardinality(running) \in Nat /\ MaxConcurrency \in Nat
  BY QueueAssumption, FS_Subset, FS_CardinalityType DEF TypeOK
<1>2. QED
  BY <1>1 DEF InTurn, Pump, LoopHead, LoopPhase

LEMMA PumpMoves ==
  ASSUME TypeOK, Pump
  PROVE  pump' = pump \/ (pump = "idle" /\ claimed = NoJob
                            /\ pump' \in {"idle", "exhausted", "affordable"})
BY DEF TypeOK, Pump, LoopHead, LoopPhase

(* A run that leaves the maps frees a slot.                                *)
LEMMA FewerRunning ==
  ASSUME TypeOK, running' \subseteq running
  PROVE  Cardinality(running) < MaxConcurrency => Cardinality(running') < MaxConcurrency
<1>1. /\ IsFiniteSet(running) /\ Cardinality(running) \in Nat
      /\ Cardinality(running') \in Nat /\ Cardinality(running') <= Cardinality(running)
  BY QueueAssumption, FS_Subset, FS_CardinalityType DEF TypeOK
<1>2. QED
  BY <1>1, QueueAssumption

(* The settled accounts: queued again, or over.                            *)
LEMMA SettleSerial ==
  ASSUME IInv, SerialInv, NEW j \in Job, NEW o \in Outcome, NEW n \in Nat,
         Settle(j, o, n, {}), status[j] \in {"running", "parked"}, claimed' # j,
         j \notin running', j \notin parked', timers'[j] \subseteq {"force"},
         told'[j] # "completed",
         \A i \in Job \ {j} : /\ timers'[i] = timers[i] /\ told'[i] = told[i]
                              /\ i \in running' <=> i \in running
                              /\ i \in parked' <=> i \in parked
                              /\ i \in subscribed' <=> i \in subscribed
                              /\ claimed' = i <=> claimed = i
                              /\ claimed = i => pump' = pump,
         pump' \in Between,
         pump' = "affordable" => Cardinality(running') < MaxConcurrency,
         \A c \in awaiting : c.job = j
  PROVE  SerialInv'
<1>1. /\ \A i \in Job \ {j} : status'[i] = status[i]
      /\ UNCHANGED parkedAt
      /\ \/ status'[j] = "queued" /\ awaiting' = {Await("requeued", j)}
         \/ status'[j] = o /\ awaiting' = {Await("ended", j)}
  BY DEF Settle, IInv, TypeOK
<1>2. Await("requeued", j).job = j /\ Await("requeued", j).at = "requeued"
  BY DEF Await
<1>3. Await("ended", j).job = j /\ Await("ended", j).at = "ended"
  BY DEF Await
<1>4. InTurn'
  BY <1>1 DEF InTurn
<1>6. CASE status'[j] = "queued" /\ awaiting' = {Await("requeued", j)}
  <2>1. \A c \in awaiting' : c.job = j /\ Expects(c)'
    BY <1>2, <1>6 DEF Expects
  <2>2. Recorded(j)'
    BY <1>6 DEF Recorded, Active, Over, Outcome
  <2>3. QED
    BY <1>1, <1>4, <2>1, <2>2, OneJobStep
<1>7. CASE status'[j] = o /\ awaiting' = {Await("ended", j)}
  <2>1. \A c \in awaiting' : c.job = j /\ Expects(c)'
    BY <1>3, <1>7 DEF Expects
  <2>2. \E c \in awaiting' : EndingOf(c, j)
    BY <1>3, <1>7 DEF EndingOf
  <2>3. Recorded(j)'
    BY <1>7, <2>2 DEF Recorded, Active, Over, Outcome
  <2>4. QED
    BY <1>1, <1>4, <2>1, <2>3, OneJobStep
<1>8. QED
  BY <1>1, <1>6, <1>7

(* A live run ends: its tokens are being charged, or its accounts settled. *)
LEMMA FinishSerial ==
  ASSUME IInv, SerialInv, NEW j \in Job, Active(j), NEW o \in Outcome, NEW n \in Nat,
         o = "succeeded" => j \notin parked,
         NEW left \in SUBSET {"force"}, Finish(j, o, n, {}, left),
         claimed' # j, told'[j] # "completed",
         \A i \in Job \ {j} : /\ told'[i] = told[i]
                              /\ i \in subscribed' <=> i \in subscribed
                              /\ claimed' = i <=> claimed = i
                              /\ claimed = i => pump' = pump,
         pump' \in Between,
         pump' = "affordable" => Cardinality(running') < MaxConcurrency,
         \A c \in awaiting : c.job = j
  PROVE  SerialInv'
<1>1. /\ running' = running \ {j} /\ parked' = parked \ {j}
      /\ timers' = [timers EXCEPT ![j] = left]
  BY DEF Finish, Disarm
<1>2. /\ timers'[j] = left
      /\ \A i \in Job \ {j} : timers'[i] = timers[i]
  BY <1>1 DEF IInv, TypeOK
<1>3. /\ status[j] \in {"running", "parked"}
      /\ o = "succeeded" => status[j] = "running"
  BY DEF SerialInv, Recorded, Active
<1>4. CASE n > 0
  <2>1. awaiting' = {Charge(j, o, n)} /\ UNCHANGED <<status, parkedAt>>
    BY <1>4 DEF Finish, records
  <2>2. /\ Charge(j, o, n).at = "charged" /\ Charge(j, o, n).job = j
        /\ Charge(j, o, n).outcome = o
    BY DEF Charge
  <2>3. InTurn'
    BY <2>1 DEF InTurn
  <2>4. \A c \in awaiting' : c.job = j /\ Expects(c)'
    BY <1>3, <2>1, <2>2 DEF Expects
  <2>5. InFlight(j)'
    BY <2>1, <2>2 DEF InFlight, ChargeOf
  <2>6. Recorded(j)'
    BY <1>1, <1>2, <1>3, <2>1, <2>5 DEF Recorded, Active, Over, Outcome
  <2>7. QED
    BY <1>1, <1>2, <2>1, <2>3, <2>4, <2>6, OneJobStep
<1>5. CASE ~(n > 0)
  <2>1. Settle(j, o, 0, {})
    BY <1>5 DEF Finish
  <2>2. QED
    BY <1>1, <1>2, <1>3, <2>1, SettleSerial
<1>6. QED
  BY <1>4, <1>5

LEMMA FinalizeSerial ==
  ASSUME IInv, SerialInv, NEW j \in Job, Active(j), NEW o \in Outcome, NEW n \in Nat,
         o = "succeeded" => j \notin parked,
         NEW left \in SUBSET {"force"}, Finish(j, o, n, {}, left),
         subscribed' = subscribed \ {j}, UNCHANGED <<pump, claimed, told>>,
         pump \in Between, claimed = j => pump = "creating",
         \A c \in awaiting : c.job = j
  PROVE  SerialInv'
<1>1. claimed # j
  BY DEF IInv, OneHolder, PumpHoldsItsJob, Active
<1>2. told[j] # "completed"
  BY DEF SerialInv, Recorded, Active, Over, Outcome
<1>3. pump' = "affordable" => Cardinality(running') < MaxConcurrency
  <2>1. running' \subseteq running
    BY DEF Finish
  <2>2. QED
    BY <2>1, FewerRunning DEF SerialInv, InTurn, IInv
<1>4. QED
  BY <1>1, <1>2, <1>3, FinishSerial

(* A kill ends a parked run and arms the grace timer of a live one.        *)
LEMMA KillSerial ==
  ASSUME IInv, SerialInv, NEW j \in Job, NEW left \in SUBSET timers[j], NEW n \in Nat,
         Kill(j, left, n), pump \in {"idle", "creating"}, awaiting = {}
  PROVE  SerialInv'
<1>1. CASE Finalize(j, "failed", n, awaiting) /\ Active(j)
  <2>1. claimed = j => pump = "creating"
    BY QueueAssumption DEF IInv, TypeOK
  <2>2. QED
    BY <1>1, <2>1, FinalizeSerial DEF Finalize, Outcome, Between
<1>2. CASE ~(Finalize(j, "failed", n, awaiting) /\ Active(j))
  <2>1. /\ UNCHANGED <<status, parkedAt, running, parked, subscribed, pump, claimed,
                       awaiting, told>>
        /\ \A i \in Job \ {j} : timers'[i] = timers[i]
        /\ ~Active(j) => timers'[j] = left
    BY <1>2 DEF Kill, Active, records, sched, IInv, TypeOK
  <2>2. InTurn'
    BY <2>1 DEF SerialInv, InTurn
  <2>3. timers[j] \subseteq {"force"} => left \subseteq {"force"}
    OBVIOUS
  <2>4. Recorded(j)'
    BY <2>1, <2>3 DEF SerialInv, Recorded, InFlight, Active
  <2>5. QED
    BY <2>1, <2>2, <2>4, OneJobStep
<1>3. QED
  BY <1>1, <1>2

LEMMA KilledAtOnceSerial ==
  ASSUME IInv, SerialInv, NEW j \in Job, KilledAtOnce(j),
         pump \in {"idle", "creating"}, awaiting = {}
  PROVE  SerialInv'
<1>1. PICK n \in ResultTokens :
        Finish(j, "failed", IF n = 0 THEN tokens[j] ELSE n, {}, {"force"})
  BY DEF KilledAtOnce
<1>2. /\ (IF n = 0 THEN tokens[j] ELSE n) \in Nat /\ "failed" \in Outcome /\ Active(j)
      /\ claimed = j => pump = "creating"
  BY QueueAssumption DEF IInv, TypeOK, Outcome, Active, KilledAtOnce
<1>3. subscribed' = subscribed \ {j} /\ UNCHANGED <<pump, claimed, told>>
  BY DEF KilledAtOnce
<1>4. QED
  BY <1>1, <1>2, <1>3, FinalizeSerial DEF Between

-----------------------------------------------------------------------------
(* What the code after an await does, alone in its turn.                   *)
LEMMA ContinueSerial ==
  ASSUME ~RemoteAdapter, IInv, SerialInv, NEW c \in awaiting, Continue(c)
  PROVE  SerialInv'
<1> DEFINE j == c.job
<1>1. /\ j \in Job /\ c.outcome \in Outcome /\ c.tokens \in Nat /\ tokens[j] \in Nat
      /\ awaiting = {c} /\ awaiting \ {c} = {} /\ \A d \in awaiting : d.job = j
      /\ pump \in Between /\ Expects(c) /\ InTurn /\ Recorded(j)
  BY DEF SerialInv, InTurn, IInv, TypeOK, Continuation
<1>2. \A d \in awaiting \ {c} : FALSE
  BY <1>1
<1>3. claimed = j => pump = "creating"
  BY <1>1, QueueAssumption DEF IInv, TypeOK, Between
<1>4. TypeOK /\ TypeOK'
  BY ContinueType DEF IInv
<1> HIDE DEF j
<1>5. CASE Charged(c)
  <2>1. /\ ~Active(j) /\ claimed # j
        /\ status[j] \in {"running", "parked"}
    BY <1>1, <1>5 DEF IInv, OneHolder, ChargesAreOver, ChargeOf, Charged, Expects, j
  <2>2. /\ timers[j] \subseteq {"force"} /\ told[j] # "completed"
        /\ pump = "affordable" => Cardinality(running) < MaxConcurrency
    BY <1>1, <2>1 DEF Recorded, InTurn, Over, Outcome
  <2>3. Settle(j, c.outcome, c.tokens, {}) /\ UNCHANGED <<runs, sched, told>>
    BY <1>1, <1>5 DEF Charged, j
  <2>4. QED
    BY <1>1, <2>1, <2>2, <2>3, SettleSerial DEF runs, sched, Active
<1>6. CASE Requeued(c) \/ Added(c) \/ ParkRecorded(c)
  <2>1. /\ Pump /\ UNCHANGED <<records, runs, claimed>> /\ awaiting' = {}
        /\ \E e \in {"submitted", "retrying", "parked"} : told' = [told EXCEPT ![j] = e]
    BY <1>1, <1>6 DEF Requeued, Added, ParkRecorded, j
  <2>2. InTurn' /\ (pump' = pump \/ claimed = NoJob)
    BY <1>1, <1>4, <2>1, PumpInTurn, PumpMoves DEF runs
  <2>3. status[j] \in {"queued", "parked"}
    BY <1>1, <1>6 DEF Expects, Requeued, Added, ParkRecorded, j
  <2>4. told'[j] # "completed" /\ \A i \in Job \ {j} : told'[i] = told[i]
    BY <1>1, <1>4, <2>1 DEF TypeOK
  <2>5. \A i \in Job : claimed = i => pump' = pump
    BY <2>2, QueueAssumption
  <2>6. InFlight(j) => InFlight(j)'
    BY <1>1, <1>6, <2>1 DEF InFlight, Active, ChargeOf, Requeued, Added, ParkRecorded, runs
  <2>7. Recorded(j)'
    BY <1>1, <2>1, <2>3, <2>4, <2>5, <2>6 DEF Recorded, Active, records, runs, Over, Outcome
  <2>8. QED
    BY <1>1, <2>1, <2>2, <2>4, <2>5, <2>7, OneJobStep DEF records, runs
<1>7. CASE ResumeRecorded(c) \/ Dequeued(c)
  <2>1. /\ UNCHANGED <<records, runs, sched>> /\ awaiting' = {}
        /\ told' = [told EXCEPT ![j] = IF Dequeued(c) THEN "completed" ELSE "resumed"]
    BY <1>1, <1>7 DEF ResumeRecorded, Dequeued, j
  <2>2. InTurn'
    BY <1>1, <2>1 DEF InTurn, runs, sched
  <2>3. /\ told'[j] = "completed" <=> Dequeued(c)
        /\ \A i \in Job \ {j} : told'[i] = told[i]
    BY <1>1, <1>4, <2>1 DEF TypeOK
  <2>4. status[j] \in Outcome <=> Dequeued(c)
    BY <1>1, <1>7 DEF Expects, ResumeRecorded, Dequeued, j, Outcome
  <2>5. status[j] # "gone"
    BY <1>1, <1>7 DEF Expects, ResumeRecorded, Dequeued, j, Outcome
  <2>6. InFlight(j) => InFlight(j)'
    BY <1>1, <1>7, <2>1 DEF InFlight, Active, ChargeOf, ResumeRecorded, Dequeued, runs, sched
  <2>7. Recorded(j)'
    BY <1>1, <2>1, <2>3, <2>4, <2>5, <2>6 DEF Recorded, Active, records, runs, sched, Over
  <2>8. QED
    BY <1>1, <2>1, <2>2, <2>3, <2>7, OneJobStep DEF records, runs, sched
<1>8. CASE Ended(c)
  <2>1. /\ Pump /\ UNCHANGED <<parkedAt, runs, claimed>> /\ awaiting' = {}
        /\ told' = [told EXCEPT ![j] = "completed"] /\ Sweep
    BY <1>1, <1>8 DEF Ended, j
  <2>2. InTurn' /\ (pump' = pump \/ claimed = NoJob)
    BY <1>1, <1>4, <2>1, PumpInTurn, PumpMoves DEF runs
  <2>3. \A i \in Job : claimed = i => pump' = pump
    BY <2>2, QueueAssumption
  <2>4. told'[j] = "completed" /\ \A i \in Job \ {j} : told'[i] = told[i]
    BY <1>1, <1>4, <2>1 DEF TypeOK
  <2>5. status[j] \in Outcome
    BY <1>1, <1>8 DEF Expects, Ended, j
  <2>6. \A i \in Job : \/ status'[i] = status[i]
                       \/ status[i] \in Outcome /\ status'[i] = "gone"
    BY <2>1 DEF Sweep
  <2>7. ASSUME NEW i \in Job PROVE Recorded(i)'
    <3>1. Recorded(i)
      BY DEF SerialInv
    <3>2. \A d \in awaiting : ~ChargeOf(d, i)
      BY <1>1, <1>8 DEF Ended, ChargeOf
    <3>3. \A d \in awaiting : EndingOf(d, i) => i = j
      BY <1>1 DEF EndingOf
    <3>4. InFlight(i) <=> InFlight(i)'
      BY <2>1, <3>2 DEF InFlight, Active, runs
    <3>5. claimed = i => pump \in {"creating"} /\ pump' = pump
      BY <1>1, <2>3, QueueAssumption DEF IInv, TypeOK, Between
    <3>6. QED
      BY <2>1, <2>4, <2>5, <2>6, <3>1, <3>3, <3>4, <3>5 DEF Recorded, Active, runs, Over, Outcome
  <2>8. QED
    BY <2>1, <2>2, <2>7 DEF SerialInv
<1>9. CASE CancelRead(c)
  <2>1. CASE Active(j)
    <3>1. Finalize(j, "canceled", tokens[j], {})
      BY <1>1, <1>9, <2>1 DEF CancelRead, j
    <3>2. QED
      BY <1>1, <1>3, <2>1, <3>1, FinalizeSerial DEF Finalize, Outcome
  <2>2. CASE ~Active(j) /\ c.at = "cancelQueued"
    <3>1. /\ status' = [status EXCEPT ![j] = "canceled"]
          /\ awaiting' = {Await("dequeued", j)}
          /\ UNCHANGED <<parkedAt, runs, sched, told>>
      BY <1>1, <1>9, <2>2 DEF CancelRead, j
    <3>2. Await("dequeued", j).at = "dequeued" /\ Await("dequeued", j).job = j
      BY DEF Await
    <3>3. status'[j] = "canceled" /\ \A i \in Job \ {j} : status'[i] = status[i]
      BY <1>1, <1>4, <3>1 DEF TypeOK
    <3>4. \A d \in awaiting' : d.job = j /\ Expects(d)'
      BY <3>1, <3>2, <3>3 DEF Expects, Outcome
    <3>5. \E d \in awaiting' : EndingOf(d, j)
      BY <3>1, <3>2 DEF EndingOf
    <3>6. claimed # j
      BY <1>1, <1>3, <2>2 DEF Recorded, Expects, j
    <3>7. Recorded(j)'
      BY <1>1, <2>2, <3>1, <3>3, <3>5, <3>6 DEF Recorded, Active, runs, sched, Over, Outcome
    <3>8. InTurn'
      BY <1>1, <3>1 DEF InTurn, runs, sched
    <3>9. QED
      BY <1>1, <3>1, <3>3, <3>4, <3>7, <3>8, OneJobStep DEF runs, sched
  <2>3. CASE ~Active(j) /\ c.at = "cancelOther"
    <3>1. awaiting' = {} /\ UNCHANGED <<records, budget, runs, sched, told>>
      BY <1>1, <1>9, <2>3 DEF CancelRead, j
    <3>2. InTurn'
      BY <1>1, <3>1 DEF InTurn, runs, sched
    <3>3. InFlight(j) => InFlight(j)'
      BY <1>1, <2>3, <3>1 DEF InFlight, Active, ChargeOf, runs, sched
    <3>4. ~\E d \in awaiting : EndingOf(d, j)
      BY <1>1, <2>3 DEF EndingOf
    <3>5. Recorded(j)'
      BY <1>1, <3>1, <3>3, <3>4 DEF Recorded, Active, records, runs, sched
    <3>6. QED
      BY <1>1, <3>1, <3>2, <3>5, OneJobStep DEF records, runs, sched
  <2>4. QED
    BY <1>9, <2>1, <2>2, <2>3 DEF CancelRead, j
<1>10. QED
  BY <1>5, <1>6, <1>7, <1>8, <1>9 DEF Continue

(* A request, a session event or a timer comes in when nothing is under    *)
(* way.                                                                    *)
LEMMA RequestSerial ==
  ASSUME ~RemoteAdapter, IInv, SerialInv, NEW j \in Job, Request(j)
  PROVE  SerialInv'
<1>1. awaiting = {} /\ pump \in {"idle", "creating"} /\ InTurn /\ Recorded(j)
  BY NothingUnderWay DEF Request, Submit, Cancel, SerialInv
<1>2. TypeOK /\ TypeOK'
  BY RequestType DEF IInv
<1>3. CASE Submit(j)
  <2>1. /\ status' = [status EXCEPT ![j] = "queued"] /\ status[j] = "none"
        /\ awaiting' = {Await("added", j)}
        /\ UNCHANGED <<parkedAt, runs, sched, told>>
    BY <1>1, <1>3 DEF Submit
  <2>2. Await("added", j).at = "added" /\ Await("added", j).job = j
    BY DEF Await
  <2>3. status'[j] = "queued" /\ \A i \in Job \ {j} : status'[i] = status[i]
    BY <1>2, <2>1 DEF TypeOK
  <2>4. \A d \in awaiting' : d.job = j /\ Expects(d)'
    BY <2>1, <2>2, <2>3 DEF Expects
  <2>5. Recorded(j)'
    BY <1>1, <2>1, <2>3 DEF Recorded, Active, runs, sched, Over, Outcome
  <2>6. InTurn'
    BY <1>1, <2>1 DEF InTurn, Between, runs, sched
  <2>7. QED
    BY <1>1, <2>1, <2>3, <2>4, <2>5, <2>6, OneJobStep DEF runs, sched
<1>4. CASE Cancel(j)
  <2>1. PICK at \in {"cancelQueued", "cancelOther"} :
          /\ awaiting' = {Await(at, j)}
          /\ at = "cancelQueued" => status[j] = "queued"
          /\ UNCHANGED <<records, budget, runs, sched, told>>
    BY <1>1, <1>4 DEF Cancel
  <2>2. Await(at, j).at = at /\ Await(at, j).job = j
    BY DEF Await
  <2>3. \A d \in awaiting' : d.job = j /\ Expects(d)'
    BY <2>1, <2>2 DEF Expects, records
  <2>4. InFlight(j) => InFlight(j)'
    BY <1>1, <2>1 DEF InFlight, Active, runs, sched
  <2>5. Recorded(j)'
    BY <1>1, <2>1, <2>4 DEF Recorded, Active, records, runs, sched
  <2>6. InTurn'
    BY <1>1, <2>1 DEF InTurn, Between, runs, sched
  <2>7. QED
    BY <1>1, <2>1, <2>3, <2>5, <2>6, OneJobStep DEF records, runs, sched
<1>5. QED
  BY <1>3, <1>4 DEF Request

LEMMA SessionSerial ==
  ASSUME ~RemoteAdapter, IInv, SerialInv, NEW j \in Job, Session(j)
  PROVE  SerialInv'
<1>1. awaiting = {} /\ pump \in {"idle", "creating"} /\ InTurn /\ Recorded(j)
  BY NothingUnderWay DEF Session, AssistantMessage, TurnResult, SessionEnds, SessionParking,
     SessionResumed, SerialInv
<1>2. TypeOK /\ TypeOK' /\ tokens[j] \in Nat /\ timers[j] \in SUBSET timers[j]
  BY SessionType DEF IInv, TypeOK
<1>0. claimed = j => pump = "creating"
  BY <1>1, QueueAssumption DEF IInv, TypeOK
<1>3. CASE AssistantMessage(j)
  <2>1. PICK n \in MessageTokens :
          IF tokens[j] + n > TokenLimit
          THEN Kill(j, timers[j], tokens[j] + n)
          ELSE /\ tokens' = [tokens EXCEPT ![j] = @ + n]
               /\ UNCHANGED <<records, budget, running, parked, subscribed, timers,
                              killed, sched, awaiting, told>>
    BY <1>3 DEF AssistantMessage
  <2>2. tokens[j] + n \in Nat
    BY <1>2, QueueAssumption
  <2>3. CASE Kill(j, timers[j], tokens[j] + n)
    BY <1>1, <1>2, <2>2, <2>3, KillSerial
  <2>4. CASE UNCHANGED <<records, budget, running, parked, subscribed, timers,
                         killed, sched, awaiting, told>>
    <3>1. InFlight(j) => InFlight(j)'
      BY <2>4 DEF InFlight, Active, sched
    <3>2. Recorded(j)' /\ InTurn'
      BY <1>1, <2>4, <3>1 DEF Recorded, InTurn, Active, records, sched
    <3>3. QED
      BY <1>1, <2>4, <3>2, OneJobStep DEF records, sched
  <2>5. QED
    BY <2>1, <2>3, <2>4
<1>4. CASE TurnResult(j)
  <2>1. PICK n \in ResultTokens, o \in Outcome :
          Finalize(j, o, IF n = 0 THEN tokens[j] ELSE n, awaiting)
    BY <1>4 DEF TurnResult, Outcome
  <2>2. (IF n = 0 THEN tokens[j] ELSE n) \in Nat
    BY <1>2, QueueAssumption
  <2>3. Active(j) /\ j \notin parked
    BY <1>1, <1>4 DEF TurnResult, Recorded
  <2>4. QED
    BY <1>0, <1>1, <2>1, <2>2, <2>3, FinalizeSerial DEF Finalize, Between
<1>5. CASE SessionEnds(j)
  BY <1>0, <1>1, <1>2, <1>5, FinalizeSerial DEF SessionEnds, Finalize, Outcome, Between
<1>6. CASE SessionParking(j)
  <2>1. /\ running' = running \ {j} /\ parked' = parked \cup {j}
        /\ subscribed' = subscribed \ {j} /\ parkedAt' = parkedAt \cup {j}
        /\ status' = [status EXCEPT ![j] = "parked"]
        /\ awaiting' = {Await("parkRecorded", j)}
        /\ \A i \in Job \ {j} : timers'[i] = timers[i]
        /\ UNCHANGED <<sched, told>> /\ j \in running
    BY <1>1, <1>2, <1>6 DEF SessionParking, SwitchClock, AcceptsPark, TypeOK
  <2>2. status'[j] = "parked" /\ \A i \in Job \ {j} : status'[i] = status[i]
    BY <1>2, <2>1 DEF TypeOK
  <2>3. Await("parkRecorded", j).at = "parkRecorded" /\ Await("parkRecorded", j).job = j
    BY DEF Await
  <2>4. \A d \in awaiting' : d.job = j /\ Expects(d)'
    BY <2>1, <2>2, <2>3 DEF Expects
  <2>5. claimed # j
    BY <1>1, <2>1 DEF IInv, OneHolder, PumpHoldsItsJob
  <2>6. Recorded(j)'
    BY <1>1, <2>1, <2>2, <2>5 DEF Recorded, InFlight, Active, sched, Over, Outcome
  <2>7. InTurn'
    BY <1>1, <2>1 DEF InTurn, Between, sched
  <2>8. QED
    BY <1>1, <2>1, <2>2, <2>4, <2>6, <2>7, OneJobStep DEF sched
<1>7. CASE SessionResumed(j)
  <2>1. /\ running' = running \cup {j} /\ parked' = parked \ {j}
        /\ subscribed' = subscribed \cup {j} /\ parkedAt' = parkedAt \ {j}
        /\ status' = [status EXCEPT ![j] = "running"]
        /\ awaiting' = {Await("resumeRecorded", j)}
        /\ \A i \in Job \ {j} : timers'[i] = timers[i]
        /\ UNCHANGED <<sched, told>> /\ j \in parked
    BY <1>1, <1>2, <1>7 DEF SessionResumed, SwitchClock, TypeOK
  <2>2. status'[j] = "running" /\ \A i \in Job \ {j} : status'[i] = status[i]
    BY <1>2, <2>1 DEF TypeOK
  <2>3. Await("resumeRecorded", j).at = "resumeRecorded" /\ Await("resumeRecorded", j).job = j
    BY DEF Await
  <2>4. \A d \in awaiting' : d.job = j /\ Expects(d)'
    BY <2>1, <2>2, <2>3 DEF Expects
  <2>5. claimed # j
    BY <1>1, <2>1 DEF IInv, OneHolder, PumpHoldsItsJob
  <2>6. Recorded(j)'
    BY <1>1, <2>1, <2>2, <2>5 DEF Recorded, InFlight, Active, sched, Over, Outcome
  <2>7. InTurn'
    BY <1>1, <2>1 DEF InTurn, Between, sched
  <2>8. QED
    BY <1>1, <2>1, <2>2, <2>4, <2>6, <2>7, OneJobStep DEF sched
<1>8. QED
  BY <1>3, <1>4, <1>5, <1>6, <1>7 DEF Session

LEMMA TimerSerial ==
  ASSUME ~RemoteAdapter, IInv, SerialInv, NEW j \in Job, TimerStep(j)
  PROVE  SerialInv'
<1>1. awaiting = {} /\ pump \in {"idle", "creating"} /\ InTurn /\ Recorded(j)
  BY NothingUnderWay DEF TimerStep, WatchdogFires, ForceTimerFires, RetryTimerFires, SerialInv
<1>2. TypeOK /\ tokens[j] \in Nat /\ (claimed = j => pump = "creating")
  BY <1>1, QueueAssumption DEF IInv, TypeOK
<1>3. CASE WatchdogFires(j)
  <2>1. PICK t \in {"duration", "park"} :
          Kill(j, timers[j] \ {t}, tokens[j]) \/ KilledAtOnce(j)
    BY <1>3 DEF WatchdogFires
  <2>2. timers[j] \ {t} \in SUBSET timers[j]
    OBVIOUS
  <2>3. QED
    BY <1>1, <1>2, <2>1, <2>2, KillSerial, KilledAtOnceSerial
<1>4. CASE ForceTimerFires(j)
  <2>1. CASE Active(j)
    BY <1>1, <1>2, <1>4, <2>1, FinalizeSerial
    DEF ForceTimerFires, Finalize, Outcome, Between
  <2>2. CASE ~Active(j)
    <3>1. /\ timers' = [timers EXCEPT ![j] = @ \ {"force"}]
          /\ UNCHANGED <<records, running, parked, subscribed, sched, awaiting, told>>
      BY <1>4, <2>2 DEF ForceTimerFires
    <3>2. /\ timers'[j] = timers[j] \ {"force"}
          /\ \A i \in Job \ {j} : timers'[i] = timers[i]
      BY <1>2, <3>1 DEF TypeOK
    <3>3. InFlight(j) => InFlight(j)'
      BY <3>1 DEF InFlight, Active, sched
    <3>4. Recorded(j)' /\ InTurn'
      BY <1>1, <3>1, <3>2, <3>3 DEF Recorded, InTurn, Active, records, sched
    <3>5. QED
      BY <1>1, <3>1, <3>2, <3>4, OneJobStep DEF records, sched
  <2>3. QED
    BY <2>1, <2>2
<1>5. CASE RetryTimerFires(j)
  <2>1. Pump /\ UNCHANGED <<records, runs, claimed, awaiting, told>>
    BY <1>5 DEF RetryTimerFires
  <2>2. InTurn' /\ (pump' = pump \/ claimed = NoJob)
    BY <1>1, <1>2, <2>1, PumpInTurn, PumpMoves DEF runs
  <2>3. \A i \in Job : claimed = i => pump' = pump
    BY <2>2, QueueAssumption
  <2>4. InFlight(j) => InFlight(j)'
    BY <2>1 DEF InFlight, Active, runs
  <2>5. Recorded(j)'
    BY <1>1, <2>1, <2>3, <2>4 DEF Recorded, Active, records, runs
  <2>6. QED
    BY <1>1, <2>1, <2>2, <2>3, <2>5, OneJobStep DEF records, runs
<1>6. QED
  BY <1>3, <1>4, <1>5 DEF TimerStep

(* The pump claims, starts and fails one job after the other.              *)
LEMMA PumpSerial ==
  ASSUME ~RemoteAdapter, IInv, SerialInv, PumpStep \/ CreateRunnerSettles, ~StartedOver
  PROVE  SerialInv'
<1>1. awaiting = {} /\ awaiting' = {} /\ InTurn
  BY NothingUnderWay DEF PumpStep, CreateRunnerSettles, PumpReturns, ClaimNext, PumpsTurn,
     StartJob, StartFailed, Started, StartedRunning, CreateFails, CreateResolves, SerialInv,
     InTurn, Between
<1>2. TypeOK /\ TypeOK'
  BY PumpStepType, CreateType DEF IInv
<1>3. \A i \in Job : InFlight(i) <=> Active(i) \/ claimed = i
  BY <1>1 DEF InFlight
<1>4. \A i \in Job : InFlight(i)' <=> Active(i)' \/ claimed' = i
  BY <1>1 DEF InFlight
<1>5. \A c \in awaiting \cup awaiting' : FALSE
  BY <1>1
<1>6. CASE PumpReturns \/ StartJob
  <2>1. /\ UNCHANGED <<records, runs, claimed, told>>
        /\ pump' \notin {"failing", "starting", "affordable"}
        /\ pump # "failing"
    BY <1>6 DEF PumpReturns, StartJob
  <2>2. \A i \in Job : Recorded(i)'
    BY <1>1, <1>3, <1>4, <2>1 DEF SerialInv, Recorded, Active, records, runs
  <2>3. QED
    BY <1>1, <2>1, <2>2 DEF SerialInv, InTurn
<1>7. CASE ClaimNext
  <2>0. pump = "affordable" /\ claimed = NoJob /\ \A i \in Job : claimed # i
    BY <1>2, <1>7, QueueAssumption DEF ClaimNext, TypeOK
  <2>1. CASE Claimable = {} /\ pump' = "empty" /\ UNCHANGED <<status, claimed>>
    <3>1. \A i \in Job : Recorded(i)'
      BY <1>1, <1>3, <1>4, <1>7, <2>0, <2>1 DEF SerialInv, Recorded, Active, ClaimNext, runs
    <3>2. QED
      BY <1>1, <2>1, <3>1 DEF SerialInv, InTurn
  <2>2. ASSUME NEW j \in Claimable, status' = [status EXCEPT ![j] = "running"],
               claimed' = j, pump' = "claimed"
        PROVE  SerialInv'
    <3>1. /\ j \in Job /\ status[j] = "queued" /\ status'[j] = "running"
          /\ \A i \in Job \ {j} : status'[i] = status[i]
      BY <1>2, <2>2 DEF Claimable, TypeOK
    <3>2. Recorded(j)
      BY <3>1 DEF SerialInv
    <3>3. UNCHANGED <<parkedAt, runs, told>>
      BY <1>7 DEF ClaimNext
    <3>4. Recorded(j)'
      BY <1>3, <1>4, <2>2, <3>1, <3>2, <3>3 DEF Recorded, Active, runs, Over, Outcome
    <3>5. InTurn'
      BY <1>1, <2>2 DEF InTurn
    <3>6. QED
      BY <1>5, <2>0, <2>2, <3>1, <3>3, <3>4, <3>5, OneJobStep DEF runs
  <2>3. QED
    BY <1>7, <2>1, <2>2 DEF ClaimNext
<1>8. CASE StartFailed \/ StartedRunning
  <2>1. /\ claimed \in Job /\ claimed' = NoJob /\ pump \in {"failing", "starting"}
        /\ UNCHANGED <<records, running, parked>> /\ LoopHead(running)
    BY <1>2, <1>8, QueueAssumption DEF StartFailed, StartedRunning, TypeOK, runs
  <2>2. PICK j \in Job : j = claimed
    BY <2>1
  <2>3. Recorded(j)
    BY DEF SerialInv
  <2>4. /\ told'[j] = IF pump = "failing" THEN "completed" ELSE "started"
        /\ \A i \in Job \ {j} : /\ told'[i] = told[i] /\ timers'[i] = timers[i]
                                /\ i \in subscribed' <=> i \in subscribed
        /\ pump = "failing" => timers'[j] = timers[j] /\ subscribed' = subscribed
    BY <1>2, <1>8, <2>2 DEF StartFailed, StartedRunning, TypeOK, runs
  <2>5. (pump = "failing" => ~Active(j)) /\ claimed' # j
    BY <2>1, QueueAssumption, <2>2 DEF IInv, OneHolder, PumpHoldsItsJob, Active
  <2>6. j \notin parked
    BY <2>2 DEF IInv, OneHolder, PumpHoldsItsJob
  <2>7. Recorded(j)'
    BY <1>3, <1>4, <2>1, <2>2, <2>3, <2>4, <2>5, <2>6
       DEF Recorded, Active, records, Over, Outcome
  <2>8. InTurn'
    BY <1>1, <1>2, <2>1, PumpInTurn
  <2>9. \A i \in Job \ {j} : claimed # i /\ claimed' # i
    BY <2>1, <2>2, QueueAssumption
  <2>10. \A i \in Job \ {j} : /\ status'[i] = status[i]
                              /\ i \in running' <=> i \in running
                              /\ i \in parked' <=> i \in parked
                              /\ i \in parkedAt => i \in parkedAt'
    BY <2>1 DEF records
  <2>11. QED
    BY <1>5, <2>4, <2>7, <2>8, <2>9, <2>10, OneJobStep
<1>9. CASE CreateFails
  <2>1. /\ claimed \in Job /\ claimed' = claimed /\ pump = "creating" /\ pump' = "failing"
        /\ UNCHANGED <<parkedAt, runs, told>>
    BY <1>2, <1>9, QueueAssumption DEF CreateFails, TypeOK
  <2>2. PICK j \in Job : j = claimed
    BY <2>1
  <2>3. status'[j] = "failed" /\ \A i \in Job \ {j} : status'[i] = status[i]
    BY <1>2, <1>9, <2>2 DEF CreateFails, TypeOK
  <2>4. Recorded(j) /\ ~Active(j)
    BY <2>1, <2>2 DEF SerialInv, IInv, OneHolder, PumpHoldsItsJob, Active
  <2>5. Recorded(j)'
    BY <1>3, <1>4, <2>1, <2>2, <2>3, <2>4 DEF Recorded, Active, runs, Over, Outcome
  <2>6. InTurn'
    BY <1>1, <2>1 DEF InTurn
  <2>7. QED
    BY <1>5, <2>1, <2>2, <2>3, <2>5, <2>6, OneJobStep DEF runs
<1>10. CASE CreateResolves
  <2>1. /\ claimed \in Job /\ claimed' = claimed /\ pump = "creating" /\ pump' = "starting"
        /\ UNCHANGED <<records, parked, told>> /\ running' = running \cup {claimed}
        /\ subscribed' = subscribed \ {claimed}
    BY <1>2, <1>10, QueueAssumption DEF CreateResolves, TypeOK
  <2>2. PICK j \in Job : j = claimed
    BY <2>1
  <2>3. timers'[j] = {} /\ \A i \in Job \ {j} : timers'[i] = timers[i]
    BY <1>2, <1>10, <2>2 DEF CreateResolves, TypeOK
  <2>4. Recorded(j) /\ j \notin parked
    BY <2>1, <2>2 DEF SerialInv, IInv, OneHolder, PumpHoldsItsJob
  <2>5. Recorded(j)'
    BY <1>3, <1>4, <2>1, <2>2, <2>3, <2>4 DEF Recorded, Active, records
  <2>6. InTurn'
    BY <1>1, <2>1 DEF InTurn
  <2>7. QED
    BY <1>5, <2>1, <2>2, <2>3, <2>5, <2>6, OneJobStep DEF records
<1>11. QED
  BY <1>6, <1>7, <1>8, <1>9, <1>10 DEF PumpStep, Started, CreateRunnerSettles

(* The pump goes on from a start that is over already.                     *)
LEMMA StartedOverSerial ==
  ASSUME IInv, SerialInv, StartedOver
  PROVE  SerialInv'
<1>1. PICK j \in Job : j = claimed
  BY DEF StartedOver, IInv, TypeOK
<1>2. PICK o \in {"succeeded", "failed"}, left \in SUBSET {"force"},
           n \in {0} \cup MessageTokens \cup ResultTokens :
        Finish(j, o, n, awaiting, left)
  BY <1>1 DEF StartedOver
<1>3. o \in Outcome /\ n \in Nat /\ Active(j) /\ pump = "starting"
  BY <1>1, QueueAssumption DEF StartedOver, Outcome
<1>4. awaiting = {} /\ j \notin parked
  BY <1>1, <1>3 DEF SerialInv, InTurn, Between, IInv, OneHolder, PumpHoldsItsJob
<1>5. /\ told' = [told EXCEPT ![j] = "started"] /\ claimed' = NoJob
      /\ subscribed' = subscribed \cup {j} /\ pump' = LoopPhase(running', spent'[today])
  BY <1>1 DEF StartedOver
<1>6. told'[j] # "completed" /\ \A i \in Job \ {j} : told'[i] = told[i]
  BY <1>5 DEF IInv, TypeOK
<1>7. claimed' # j /\ \A i \in Job \ {j} : claimed # i /\ claimed' # i
  BY <1>1, <1>5, QueueAssumption
<1>8. /\ pump' \in Between
      /\ pump' = "affordable" => Cardinality(running') < MaxConcurrency
  <2>1. Cardinality(running') \in Nat /\ MaxConcurrency \in Nat
    <3>1. running' \subseteq Job
      BY <1>2 DEF Finish, IInv, TypeOK
    <3>2. QED
      BY <3>1, QueueAssumption, FS_Subset, FS_CardinalityType
  <2>2. QED
    BY <1>5, <2>1 DEF LoopPhase, Between
<1>9. QED
  BY <1>2, <1>3, <1>4, <1>5, <1>6, <1>7, <1>8, FinishSerial

(* Time passing, a sweep and a close leave every run where it is.          *)
LEMMA ClockSerial ==
  ASSUME ~RemoteAdapter, IInv, SerialInv,
         (\E j \in Job : BackoffElapses(j)) \/ Close \/ SweepTimerFires \/ DayRollsOver
           \/ UNCHANGED vars
  PROVE  SerialInv'
<1>1. UNCHANGED <<parkedAt, runs, pump, claimed, awaiting, told>>
  BY DEF BackoffElapses, Close, SweepTimerFires, DayRollsOver, vars, records, sched
<1>2. \A i \in Job : InFlight(i)' <=> InFlight(i)
  BY <1>1 DEF InFlight, Active, runs
<1>3. InTurn'
  BY <1>1 DEF SerialInv, InTurn, runs
<1>4. CASE UNCHANGED status
  BY <1>1, <1>2, <1>3, <1>4 DEF SerialInv, Expects, Recorded, Active, runs
<1>5. CASE SweepTimerFires
  <2>1. awaiting = {} /\ pump \in {"idle", "creating"}
    BY <1>5, NothingUnderWay DEF SweepTimerFires
  <2>2. \A i \in Job : \/ status'[i] = status[i]
                       \/ status[i] \in Outcome /\ status'[i] = "gone"
    BY <1>5 DEF SweepTimerFires, Sweep
  <2>3. ASSUME NEW i \in Job PROVE Recorded(i)'
    <3>1. Recorded(i)
      BY DEF SerialInv
    <3>2. QED
      BY <1>1, <1>2, <2>1, <2>2, <3>1 DEF Recorded, Active, runs, Over, Outcome
  <2>4. QED
    BY <1>1, <1>3, <2>1, <2>3 DEF SerialInv
<1>6. QED
  BY <1>4, <1>5 DEF BackoffElapses, Close, DayRollsOver, vars, records

LEMMA NextSerial ==
  ASSUME ~RemoteAdapter, IInv, SerialInv, [Next]_vars
  PROVE  SerialInv'
<1>1. StartedOver => PumpStep
  BY DEF PumpStep, Started
<1>2. QED
  BY ContinueSerial, RequestSerial, SessionSerial, TimerSerial, PumpSerial,
     StartedOverSerial, ClockSerial DEF Next

(* With the in-memory adapter every turn ends with the records, the runs   *)
(* and the announcements in agreement.                                     *)
THEOREM SerialInvariance == ~RemoteAdapter => (Spec => []SerialInv)
<1> SUFFICES ASSUME ~RemoteAdapter PROVE Spec => []SerialInv
  OBVIOUS
<1>1. Init => SerialInv
  BY QueueAssumption
     DEF Init, SerialInv, InTurn, Expects, Recorded, Active, Over, Outcome
<1>2. IInv /\ SerialInv /\ [Next]_vars => SerialInv'
  BY NextSerial
<1>3. QED
  BY <1>1, <1>2, Invariance, PTL DEF Spec

(* Whenever the queue waits for nothing but a session to be created, a     *)
(* record says running or parked exactly when its run is live.             *)
THEOREM RecordsMatchRunsHolds == ~RemoteAdapter => (Spec => []RecordsMatchRuns)
<1> SUFFICES ASSUME ~RemoteAdapter PROVE Spec => []RecordsMatchRuns
  OBVIOUS
<1>1. SerialInv /\ IInv => RecordsMatchRuns
  <2> SUFFICES ASSUME SerialInv, IInv, ~AdapterPending, NEW j \in Job
               PROVE  /\ status[j] = "parked" <=> j \in parked
                      /\ status[j] = "parked" => j \in parkedAt
                      /\ status[j] = "running" <=> j \in running \/ claimed = j
    BY DEF RecordsMatchRuns
  <2>1. awaiting = {} /\ pump \in {"idle", "creating"} /\ Recorded(j)
    BY DEF AdapterPending, SerialInv
  <2>2. InFlight(j) => Active(j) \/ claimed = j
    BY <2>1 DEF InFlight
  <2>3. QED
    BY <2>1, <2>2 DEF Recorded, Active
<1>2. QED
  BY <1>1, SerialInvariance, Invariance, PTL

(* A finalized run keeps no watchdog, though a kill that ended it at once  *)
(* leaves its grace timer, and a job's end is announced when it ended and  *)
(* never taken back.                                                       *)
THEOREM FinalizedIsOverHolds == ~RemoteAdapter => (Spec => []FinalizedIsOver)
<1> SUFFICES ASSUME ~RemoteAdapter PROVE Spec => []FinalizedIsOver
  OBVIOUS
<1>1. SerialInv /\ IInv => FinalizedIsOver
  <2> SUFFICES ASSUME SerialInv, IInv, ~AdapterPending, NEW j \in Job
               PROVE  /\ ~Active(j) => timers[j] \subseteq {"force"}
                      /\ told[j] = "completed" <=> status[j] \in Over
    BY DEF FinalizedIsOver, Over
  <2>1. awaiting = {} /\ pump \in {"idle", "creating"} /\ Recorded(j)
    BY DEF AdapterPending, SerialInv
  <2>2. claimed = j => status[j] = "running"
    BY <2>1 DEF Recorded
  <2>3. QED
    BY <2>1, <2>2 DEF Recorded, Over, Outcome
<1>2. QED
  BY <1>1, SerialInvariance, Invariance, PTL

-----------------------------------------------------------------------------
(* The life of a job: each step of the queue is one of JobLifecycle's, or  *)
(* leaves status and attempt alone.                                        *)

LEMMA SettleImplements ==
  ASSUME IInv, NEW j \in Job, NEW o \in Outcome, NEW n \in Nat, NEW rest,
         Settle(j, o, n, rest), status[j] \in {"running", "parked"},
         o = "succeeded" => status[j] = "running"
  PROVE  Lifecycle!Next
<1>1. CASE Retries(j, o)
  <2>1. Lifecycle!Retry(j)
    BY <1>1 DEF Settle, Retries, Lifecycle!Retry
  <2>2. QED
    BY <2>1 DEF Lifecycle!Next
<1>2. CASE ~Retries(j, o)
  <2>1. Lifecycle!Finish(j, o)
    BY <1>2 DEF Settle, Lifecycle!Finish
  <2>2. QED
    BY <2>1 DEF Lifecycle!Next, Lifecycle!Outcome, Outcome
<1>3. QED
  BY <1>1, <1>2

LEMMA FinishImplements ==
  ASSUME IInv, SerialInv, NEW j \in Job, Active(j), NEW o \in Outcome, NEW n \in Nat,
         o = "succeeded" => j \notin parked, NEW rest,
         NEW left, Finish(j, o, n, rest, left)
  PROVE  Lifecycle!Next \/ UNCHANGED Lifecycle!lifecycle
<1>1. CASE n > 0
  BY <1>1 DEF Finish, records, Lifecycle!lifecycle
<1>2. CASE ~(n > 0)
  <2>1. Settle(j, o, 0, rest)
    BY <1>2 DEF Finish
  <2>2. status[j] \in {"running", "parked"} /\ (o = "succeeded" => status[j] = "running")
    BY DEF SerialInv, Recorded, Active
  <2>3. QED
    BY <2>1, <2>2, SettleImplements
<1>3. QED
  BY <1>1, <1>2

LEMMA FinalizeImplements ==
  ASSUME IInv, SerialInv, NEW j \in Job, Active(j), NEW o \in Outcome, NEW n \in Nat,
         o = "succeeded" => j \notin parked, NEW rest, Finalize(j, o, n, rest)
  PROVE  Lifecycle!Next \/ UNCHANGED Lifecycle!lifecycle
BY FinishImplements DEF Finalize

LEMMA KillImplements ==
  ASSUME IInv, SerialInv, NEW j \in Job, NEW left, NEW n \in Nat, Kill(j, left, n)
  PROVE  Lifecycle!Next \/ UNCHANGED Lifecycle!lifecycle
<1>1. CASE Finalize(j, "failed", n, awaiting) /\ Active(j)
  BY <1>1, FinalizeImplements DEF Outcome
<1>2. CASE ~(Finalize(j, "failed", n, awaiting) /\ Active(j))
  BY <1>2 DEF Kill, Active, records, Lifecycle!lifecycle
<1>3. QED
  BY <1>1, <1>2

LEMMA KilledAtOnceImplements ==
  ASSUME IInv, SerialInv, NEW j \in Job, KilledAtOnce(j)
  PROVE  Lifecycle!Next \/ UNCHANGED Lifecycle!lifecycle
<1>1. PICK n \in ResultTokens :
        Finish(j, "failed", IF n = 0 THEN tokens[j] ELSE n, awaiting, {"force"})
  BY DEF KilledAtOnce
<1>2. (IF n = 0 THEN tokens[j] ELSE n) \in Nat /\ "failed" \in Outcome /\ Active(j)
  BY QueueAssumption DEF IInv, TypeOK, Outcome, Active, KilledAtOnce
<1>3. QED
  BY <1>1, <1>2, FinishImplements

LEMMA StartedOverImplements ==
  ASSUME IInv, SerialInv, StartedOver
  PROVE  Lifecycle!Next \/ UNCHANGED Lifecycle!lifecycle
<1>1. PICK o \in {"succeeded", "failed"}, left \in SUBSET {"force"},
           n \in {0} \cup MessageTokens \cup ResultTokens :
        Finish(claimed, o, n, awaiting, left)
  BY DEF StartedOver
<1>2. claimed \in Job /\ Active(claimed) /\ o \in Outcome /\ n \in Nat
  BY QueueAssumption DEF StartedOver, IInv, TypeOK, Outcome
<1>3. claimed \notin parked
  BY <1>2 DEF IInv, OneHolder, PumpHoldsItsJob
<1>4. QED
  BY <1>1, <1>2, <1>3, FinishImplements

LEMMA SweepImplements ==
  ASSUME Sweep, UNCHANGED attempt
  PROVE  Lifecycle!Next
<1>1. PICK old \in SUBSET {j \in Job : status[j] \in Outcome} :
        status' = [j \in Job |-> IF j \in old THEN "gone" ELSE status[j]]
  BY DEF Sweep
<1>2. old \in SUBSET Job /\ Lifecycle!Prune(old)
  BY <1>1 DEF Lifecycle!Prune, Lifecycle!Outcome, Outcome
<1>3. QED
  BY <1>2 DEF Lifecycle!Next

(* A claimed job is alone in its slot: the running records are the live    *)
(* runs, and the pump saw one slot free.                                   *)
LEMMA ClaimImplements ==
  ASSUME ~RemoteAdapter, IInv, SerialInv, ClaimNext
  PROVE  Lifecycle!Next \/ UNCHANGED Lifecycle!lifecycle
<1>1. /\ pump = "affordable" /\ claimed = NoJob /\ \A i \in Job : claimed # i
      /\ awaiting = {} /\ Cardinality(running) < MaxConcurrency
  BY QueueAssumption DEF ClaimNext, PumpsTurn, IInv, TypeOK, SerialInv, InTurn
<1>2. {i \in Job : status[i] = "running"} = running
  <2>1. \A i \in Job : ~\E c \in awaiting : ChargeOf(c, i)
    BY <1>1
  <2>2. \A i \in Job : Recorded(i) /\ (InFlight(i) => Active(i))
    BY <1>1, <2>1 DEF SerialInv, InFlight
  <2>3. \A i \in Job : status[i] = "running" <=> i \in running
    BY <2>2 DEF Recorded, Active
  <2>4. QED
    BY <2>3 DEF IInv, TypeOK
<1>3. ASSUME NEW j \in Claimable, status' = [status EXCEPT ![j] = "running"]
      PROVE  Lifecycle!Next
  <2>1. j \in Job /\ status[j] = "queued" /\ UNCHANGED attempt
    BY DEF Claimable, ClaimNext
  <2>2. Lifecycle!Claim(j)
    <3>1. Cardinality({i \in Job : status[i] = "running"}) < MaxConcurrency
      BY <1>1, <1>2
    <3>2. \A S : Lifecycle!Cardinality(S) = Cardinality(S)
      BY DEF Lifecycle!Cardinality, Cardinality, Lifecycle!IsFiniteSet, IsFiniteSet
    <3>3. QED
      BY <1>3, <2>1, <3>1, <3>2 DEF Lifecycle!Claim
  <2>3. QED
    BY <2>1, <2>2 DEF Lifecycle!Next
<1>4. QED
  BY <1>3 DEF ClaimNext, Lifecycle!lifecycle

LEMMA ContinueImplements ==
  ASSUME IInv, SerialInv, NEW c \in awaiting, Continue(c)
  PROVE  Lifecycle!Next \/ UNCHANGED Lifecycle!lifecycle
<1>1. /\ c.job \in Job /\ c.outcome \in Outcome /\ c.tokens \in Nat
      /\ tokens[c.job] \in Nat /\ Expects(c)
  BY DEF IInv, TypeOK, Continuation, SerialInv
<1>2. CASE Charged(c)
  BY <1>1, <1>2, SettleImplements DEF Charged, Expects
<1>3. CASE Ended(c)
  BY <1>3, SweepImplements DEF Ended
<1>4. CASE CancelRead(c)
  <2>1. CASE Active(c.job)
    BY <1>1, <1>4, <2>1, FinalizeImplements DEF CancelRead, Outcome
  <2>2. CASE ~Active(c.job) /\ c.at = "cancelQueued"
    <3>1. Lifecycle!Finish(c.job, "canceled")
      BY <1>1, <1>4, <2>2 DEF CancelRead, Expects, Lifecycle!Finish
    <3>2. QED
      BY <1>1, <3>1 DEF Lifecycle!Next, Lifecycle!Outcome
  <2>3. CASE ~Active(c.job) /\ c.at = "cancelOther"
    BY <1>4, <2>3 DEF CancelRead, records, Lifecycle!lifecycle
  <2>4. QED
    BY <1>4, <2>1, <2>2, <2>3 DEF CancelRead
<1>5. CASE Requeued(c) \/ Added(c) \/ ParkRecorded(c) \/ ResumeRecorded(c) \/ Dequeued(c)
  BY <1>5 DEF Requeued, Added, ParkRecorded, ResumeRecorded, Dequeued, records,
     Lifecycle!lifecycle
<1>6. QED
  BY <1>2, <1>3, <1>4, <1>5 DEF Continue

LEMMA JobImplements ==
  ASSUME IInv, SerialInv, NEW j \in Job,
         Request(j) \/ Session(j) \/ TimerStep(j) \/ BackoffElapses(j)
  PROVE  Lifecycle!Next \/ UNCHANGED Lifecycle!lifecycle
<1>1. tokens[j] \in Nat /\ Recorded(j) /\ ResultTokens \subseteq Nat
      /\ MessageTokens \subseteq Nat
  BY QueueAssumption DEF IInv, TypeOK, SerialInv
<1>2. CASE Submit(j)
  BY <1>2 DEF Submit, Lifecycle!Next, Lifecycle!Submit
<1>3. CASE Cancel(j) \/ BackoffElapses(j) \/ RetryTimerFires(j)
  BY <1>3 DEF Cancel, BackoffElapses, RetryTimerFires, records, Lifecycle!lifecycle
<1>4. CASE AssistantMessage(j)
  <2>1. PICK n \in MessageTokens :
          IF tokens[j] + n > TokenLimit
          THEN Kill(j, timers[j], tokens[j] + n)
          ELSE UNCHANGED records
    BY <1>4 DEF AssistantMessage
  <2>2. tokens[j] + n \in Nat
    BY <1>1
  <2>3. CASE Kill(j, timers[j], tokens[j] + n)
    BY <2>2, <2>3, KillImplements
  <2>4. CASE UNCHANGED records
    BY <2>4 DEF records, Lifecycle!lifecycle
  <2>5. QED
    BY <2>1, <2>3, <2>4
<1>5. CASE TurnResult(j)
  <2>1. PICK n \in ResultTokens, o \in Outcome :
          Finalize(j, o, IF n = 0 THEN tokens[j] ELSE n, awaiting)
    BY <1>5 DEF TurnResult, Outcome
  <2>2. (IF n = 0 THEN tokens[j] ELSE n) \in Nat
    BY <1>1
  <2>3. Active(j) /\ j \notin parked
    BY <1>1, <1>5 DEF TurnResult, Recorded
  <2>4. QED
    BY <2>1, <2>2, <2>3, FinalizeImplements
<1>6. CASE SessionEnds(j) \/ ForceTimerFires(j)
  BY <1>1, <1>6, FinalizeImplements
  DEF SessionEnds, ForceTimerFires, Outcome, records, Lifecycle!lifecycle
<1>7. CASE SessionParking(j)
  <2>1. status[j] = "running"
    BY <1>1, <1>7 DEF SessionParking, AcceptsPark, Recorded
  <2>2. Lifecycle!Park(j)
    BY <1>7, <2>1 DEF SessionParking, Lifecycle!Park
  <2>3. QED
    BY <2>2 DEF Lifecycle!Next
<1>8. CASE SessionResumed(j)
  <2>1. status[j] = "parked"
    BY <1>1, <1>8 DEF SessionResumed, Recorded
  <2>2. Lifecycle!Resume(j)
    BY <1>8, <2>1 DEF SessionResumed, Lifecycle!Resume
  <2>3. QED
    BY <2>2 DEF Lifecycle!Next
<1>9. CASE WatchdogFires(j)
  BY <1>1, <1>9, KillImplements, KilledAtOnceImplements DEF WatchdogFires
<1>10. QED
  BY <1>2, <1>3, <1>4, <1>5, <1>6, <1>7, <1>8, <1>9 DEF Request, Session, TimerStep

LEMMA NextImplements ==
  ASSUME ~RemoteAdapter, IInv, SerialInv, [Next]_vars
  PROVE  Lifecycle!Next \/ UNCHANGED Lifecycle!lifecycle
<1>1. CASE CreateFails
  <2>1. claimed \in Job /\ status[claimed] = "running"
    BY <1>1, QueueAssumption DEF CreateFails, IInv, TypeOK, SerialInv, Recorded
  <2>2. Lifecycle!Finish(claimed, "failed")
    BY <1>1, <2>1 DEF CreateFails, Lifecycle!Finish
  <2>3. QED
    BY <2>1, <2>2 DEF Lifecycle!Next, Lifecycle!Outcome
<1>2. CASE SweepTimerFires
  BY <1>2, SweepImplements DEF SweepTimerFires
<1>3. CASE \/ PumpReturns \/ StartJob \/ StartFailed \/ StartedRunning
           \/ CreateResolves
           \/ Close \/ DayRollsOver \/ UNCHANGED vars
  BY <1>3 DEF PumpReturns, StartJob, StartFailed, StartedRunning, CreateResolves, Close,
     DayRollsOver, vars, records, Lifecycle!lifecycle
<1>4. QED
  BY <1>1, <1>2, <1>3, StartedOverImplements, ClaimImplements, ContinueImplements,
     JobImplements DEF Next, PumpStep, Started, CreateRunnerSettles

(* The queue implements the life of a job its clients see: no slot more    *)
(* than configured is taken, a retry has attempts left, a parked run does  *)
(* not succeed, and an end is final.                                       *)
THEOREM LifecycleImplemented == ~RemoteAdapter => (Spec => ImplementsLifecycle)
<1> SUFFICES ASSUME ~RemoteAdapter PROVE Spec => ImplementsLifecycle
  OBVIOUS
<1>1. Init => Lifecycle!Init
  BY DEF Init, Lifecycle!Init
<1>2. IInv /\ SerialInv /\ [Next]_vars => [Lifecycle!Next]_(Lifecycle!lifecycle)
  BY NextImplements
<1>3. QED
  BY <1>1, <1>2, Invariance, SerialInvariance, PTL
     DEF Spec, ImplementsLifecycle, Lifecycle!Spec

=============================================================================
