------------------------------ MODULE JobQueue ------------------------------
(***************************************************************************)
(* The job queue of packages/queue: JobQueue (queue.ts) over a             *)
(* QueueAdapter (adapter.ts).                                              *)
(*                                                                         *)
(* A call of the adapter takes effect when it is made; the code after the  *)
(* await is a step of its own.  What waits for the adapter's answer is the *)
(* pump (its phase) or a continuation in `awaiting'.  With the bundled     *)
(* in-memory adapter (RemoteAdapter = FALSE) an answer is a microtask, so  *)
(* nothing from outside (a request, a timer, a session event) comes        *)
(* between; with the remote backends the interface is made for, anything   *)
(* may.                                                                    *)
(*                                                                         *)
(* The sessions themselves are the environment: a run's session says       *)
(* something, finishes its turn, ends, or is parked and resumed by the     *)
(* host through onSessionParking and onSessionResumed.                     *)
(*                                                                         *)
(* A definition that directly precedes the one it resembles, such as       *)
(* PumpReentrant before Pump, is a faulty variant of it.  Nothing uses it; *)
(* put in its place it shows that a property can fail.                     *)
(***************************************************************************)
EXTENDS Naturals, FiniteSets, FiniteSetsExt

CONSTANTS
  Job,             \* jobs a client may submit
  NoJob,           \* the pump holds no job
  Attempts,        \* request.attempts of each job
  MaxConcurrency,  \* options.maxConcurrency
  DailyLimit,      \* options.dailyTokenLimit
  TokenLimit,      \* the effective session token limit
  Retention,       \* whether options.retention is set
  Watchdogs,       \* which of maxJobDurationMs and maxParkedDurationMs are set
  RemoteAdapter,   \* whether an adapter answer may arrive after other events
  MessageTokens,   \* usage an assistant message may report
  ResultTokens,    \* usage a turn result may report, 0 when it reports none
  TokenCap,        \* bound: a session stops reporting usage beyond this
  LastDay          \* bound: the last day of the calendar

ASSUME QueueAssumption ==
  /\ NoJob \notin Job
  /\ IsFiniteSet(Job)
  /\ Attempts \in [Job -> Nat \ {0}]
  /\ MaxConcurrency \in Nat \ {0}
  /\ DailyLimit \in Nat
  /\ TokenLimit \in Nat
  /\ Retention \in BOOLEAN
  /\ Watchdogs \subseteq {"duration", "park"}
  /\ RemoteAdapter \in BOOLEAN
  /\ MessageTokens \subseteq Nat \ {0}
  /\ ResultTokens \subseteq Nat
  /\ TokenCap \in Nat
  /\ LastDay \in Nat \ {0}

VARIABLES
  (* the adapter: one record per job, and the daily counters *)
  status,       \* info.status; "none" before submit, "gone" once pruned
  attempt,      \* info.attempt
  usage,        \* info.usage.tokens
  backoff,      \* jobs whose info.nextRunAt is in the future
  parkedAt,     \* jobs whose info.parkedAt is set
  arrival,      \* insertion order of the adapter's map
  spent,        \* tokens charged to each day
  today,        \* dayKey(Date.now())
  (* the queue: the live runs *)
  running,      \* keys of #running
  parked,       \* keys of #parked
  subscribed,   \* runs whose session events reach #handleEvent
  timers,       \* armed watchdogs of each run
  killed,       \* runs with a killReason
  tokens,       \* estimatedTokens of each run
  (* the queue: scheduling *)
  pump,         \* where #pump is; "idle" when #pumping is false
  claimed,      \* the record #pump is starting, or NoJob
  retryTimers,  \* jobs with a pending retry wake-up
  closed,       \* #closed
  awaiting,     \* continuations waiting for the adapter
  told          \* the last lifecycle event announced for each job

records == <<status, attempt, usage, backoff, parkedAt, arrival>>
budget  == <<spent, today>>
runs    == <<running, parked, subscribed, timers, killed, tokens>>
sched   == <<pump, claimed, retryTimers, closed>>
vars    == <<records, budget, runs, sched, awaiting, told>>

Outcome == {"succeeded", "failed", "canceled"}
Status  == {"none", "queued", "running", "parked", "gone"} \cup Outcome
Timer   == {"duration", "force", "park"}
Phase   == {"idle", "exhausted", "affordable", "empty", "claimed", "creating",
            "failing", "starting"}
Event   == {"none", "submitted", "started", "parked", "resumed", "retrying",
            "completed"}
Day     == 1..LastDay

(* A continuation: what it resumes, for which run of which job, and the    *)
(* outcome and token count it carries.                                     *)
Label == {"added", "parkRecorded", "resumeRecorded", "charged", "requeued",
          "ended", "cancelQueued", "cancelOther", "dequeued"}
Continuation == [at: Label, job: Job, attempt: Nat, outcome: Outcome, tokens: Nat]

Await(at, j) ==
  [at |-> at, job |-> j, attempt |-> attempt[j], outcome |-> "canceled", tokens |-> 0]

Charge(j, outcome, used) ==
  [at |-> "charged", job |-> j, attempt |-> attempt[j], outcome |-> outcome,
   tokens |-> used]

Active(j) == j \in running \/ j \in parked       \* a run that is not finalized

DisarmAllButPark(j, left) == timers' = [timers EXCEPT ![j] = left \cup (@ \cap {"park"})]
Disarm(j, left) == timers' = [timers EXCEPT ![j] = left]

(* Parking stops one clock and starts the other, resuming the reverse.     *)
SwitchClockOff(j, from, to) == timers' = [timers EXCEPT ![j] = @ \ {from}]
SwitchClock(j, from, to) ==
  timers' = [timers EXCEPT ![j] = (@ \ {from}) \cup ({to} \cap Watchdogs)]

Exhausted == spent[today] >= DailyLimit

AdapterPending ==
  \/ awaiting # {}
  \/ pump \notin {"idle", "creating"}

(* Requests, timers and session events are macrotasks.                     *)
Macrotask == RemoteAdapter \/ ~AdapterPending

(* A start that ended its own run left a continuation to the in-memory     *)
(* adapter's answer, which comes before the next answer to the pump.       *)
PumpsTurn == RemoteAdapter \/ awaiting = {}

-----------------------------------------------------------------------------
Init ==
  /\ status   = [j \in Job |-> "none"]
  /\ attempt  = [j \in Job |-> 0]
  /\ usage    = [j \in Job |-> 0]
  /\ backoff  = {}
  /\ parkedAt = {}
  /\ arrival  = [j \in Job |-> 0]
  /\ spent    = [d \in Day |-> 0]
  /\ today    = 1
  /\ running  = {}
  /\ parked   = {}
  /\ subscribed = {}
  /\ timers   = [j \in Job |-> {}]
  /\ killed   = {}
  /\ tokens   = [j \in Job |-> 0]
  /\ pump     = "idle"
  /\ claimed  = NoJob
  /\ retryTimers = {}
  /\ closed   = FALSE
  /\ awaiting = {}
  /\ told     = [j \in Job |-> "none"]

-----------------------------------------------------------------------------
(* #pump: the loop head, entered by a call and after every started job.    *)

LoopPhase(active, charged) ==
  IF Cardinality(active) >= MaxConcurrency THEN "idle"
  ELSE IF charged >= DailyLimit THEN "exhausted" ELSE "affordable"

LoopHead(active) == pump' = LoopPhase(active, spent[today])

PumpReentrant == IF closed THEN UNCHANGED pump ELSE LoopHead(running)
Pump == IF pump # "idle" \/ closed THEN UNCHANGED pump ELSE LoopHead(running)

PumpReturns ==
  /\ pump \in {"exhausted", "empty"}
  /\ PumpsTurn
  /\ pump' = "idle"
  /\ UNCHANGED <<records, budget, runs, claimed, retryTimers, closed, awaiting, told>>

Claimable == {j \in Job : status[j] = "queued" /\ j \notin backoff}

ClaimNext ==
  /\ pump = "affordable"
  /\ PumpsTurn
  /\ \/ /\ Claimable = {}
        /\ pump' = "empty"
        /\ UNCHANGED <<status, claimed>>
     \/ \E j \in Claimable :
          /\ \A i \in Claimable : arrival[j] <= arrival[i]
          /\ status' = [status EXCEPT ![j] = "running"]
          /\ claimed' = j
          /\ pump' = "claimed"
  /\ UNCHANGED <<attempt, usage, backoff, parkedAt, arrival, budget, runs,
                 retryTimers, closed, awaiting, told>>

(* #start, up to the await of createRunner.                                *)
StartJob ==
  /\ pump = "claimed"
  /\ pump' = "creating"
  /\ UNCHANGED <<records, budget, runs, claimed, retryTimers, closed, awaiting, told>>

(* createRunner rejects: the job fails without a retry.                    *)
CreateFails ==
  /\ pump = "creating"
  /\ Macrotask
  /\ status' = [status EXCEPT ![claimed] = "failed"]
  /\ pump' = "failing"
  /\ UNCHANGED <<attempt, usage, backoff, parkedAt, arrival, budget, runs,
                 claimed, retryTimers, closed, awaiting, told>>

StartFailed ==
  /\ pump = "failing"
  /\ told' = [told EXCEPT ![claimed] = "completed"]
  /\ claimed' = NoJob
  /\ LoopHead(running)
  /\ UNCHANGED <<records, budget, runs, retryTimers, closed, awaiting>>

(* createRunner resolves: a fresh RunningJob enters #running.              *)
CreateResolves ==
  /\ pump = "creating"
  /\ Macrotask
  /\ running' = running \cup {claimed}
  /\ timers'  = [timers EXCEPT ![claimed] = {}]   \* a new object
  /\ tokens'  = [tokens EXCEPT ![claimed] = 0]
  /\ killed'  = killed \ {claimed}
  /\ subscribed' = subscribed \ {claimed}
  /\ pump' = "starting"
  /\ UNCHANGED <<records, budget, parked, claimed, retryTimers, closed, awaiting, told>>

-----------------------------------------------------------------------------
(* #finalize, from the settled accounts on: re-queue or complete.  `rest'  *)
(* is what else is being awaited.                                          *)

RetriesOnceMore(j, outcome) == outcome = "failed" /\ attempt[j] <= Attempts[j] /\ ~closed
Retries(j, outcome) == outcome = "failed" /\ attempt[j] < Attempts[j] /\ ~closed

Settle(j, outcome, used, rest) ==
  /\ usage' = [usage EXCEPT ![j] = @ + used]
  /\ IF Retries(j, outcome)
     THEN /\ status'   = [status  EXCEPT ![j] = "queued"]
          /\ attempt'  = [attempt EXCEPT ![j] = @ + 1]
          /\ backoff'  = backoff \cup {j}
          /\ awaiting' = rest \cup {Await("requeued", j)}
     ELSE /\ status'   = [status  EXCEPT ![j] = outcome]
          /\ backoff'  = backoff \ {j}
          /\ awaiting' = rest \cup {Await("ended", j)}
          /\ UNCHANGED attempt
  /\ UNCHANGED <<parkedAt, arrival>>

(* #finalize: the run leaves both maps, its timers and subscription go.    *)
(* What is armed or subscribed after it, in the same turn, is left behind. *)
Finish(j, outcome, used, rest, left) ==
  /\ running' = running \ {j}
  /\ parked'  = parked \ {j}
  /\ Disarm(j, left)
  /\ killed'  = killed \ {j}
  /\ tokens'  = [tokens EXCEPT ![j] = 0]
  /\ IF used > 0
     THEN /\ spent' = [spent EXCEPT ![today] = @ + used]
          /\ awaiting' = rest \cup {Charge(j, outcome, used)}
          /\ UNCHANGED records
     ELSE Settle(j, outcome, 0, rest) /\ UNCHANGED spent
  /\ UNCHANGED <<today, retryTimers, closed>>

Finalize(j, outcome, used, rest) ==
  /\ Finish(j, outcome, used, rest, {})
  /\ subscribed' = subscribed \ {j}
  /\ UNCHANGED <<pump, claimed, told>>

(* startedAt and sessionId are recorded; the watchdog and the subscription *)
(* are set without another look at the run.                                *)
StartedRunning ==
  /\ pump = "starting"
  /\ told' = [told EXCEPT ![claimed] = "started"]
  /\ timers' = [timers EXCEPT ![claimed] = @ \cup ({"duration"} \cap Watchdogs)]
  /\ subscribed' = subscribed \cup {claimed}
  /\ claimed' = NoJob
  /\ LoopHead(running)
  /\ UNCHANGED <<records, budget, running, parked, killed, tokens, retryTimers,
                 closed, awaiting>>

(* The session has been running since createRunner: what it said by then   *)
(* is replayed inside runner.subscribe, and when that ends the run the     *)
(* subscription is still stored (queue.ts:438).  A kill in the replay may  *)
(* leave its grace timer too.                                              *)
StartedOver ==
  /\ pump = "starting"
  /\ Active(claimed)
  /\ told' = [told EXCEPT ![claimed] = "started"]
  /\ \E outcome \in {"succeeded", "failed"}, left \in SUBSET {"force"},
        used \in {0} \cup MessageTokens \cup ResultTokens :
       /\ left = {} \/ outcome = "failed"
       /\ Finish(claimed, outcome, used, awaiting, left)
  /\ subscribed' = subscribed \cup {claimed}
  /\ claimed' = NoJob
  /\ pump' = LoopPhase(running', spent'[today])

Started == StartedRunning \/ StartedOver

ChargedUnrecorded(c) ==
  /\ c.at = "charged"
  /\ Settle(c.job, c.outcome, 0, awaiting \ {c})
  /\ UNCHANGED <<budget, runs, sched, told>>

Charged(c) ==
  /\ c.at = "charged"
  /\ Settle(c.job, c.outcome, c.tokens, awaiting \ {c})
  /\ UNCHANGED <<budget, runs, sched, told>>

RequeuedUnwoken(c) ==
  /\ c.at = "requeued"
  /\ told' = [told EXCEPT ![c.job] = "retrying"]
  /\ awaiting' = awaiting \ {c}
  /\ Pump
  /\ UNCHANGED <<records, budget, runs, claimed, retryTimers, closed>>

(* The retry wake-up is armed even on a queue closed meanwhile.            *)
Requeued(c) ==
  /\ c.at = "requeued"
  /\ told' = [told EXCEPT ![c.job] = "retrying"]
  /\ retryTimers' = retryTimers \cup {c.job}
  /\ awaiting' = awaiting \ {c}
  /\ Pump
  /\ UNCHANGED <<records, budget, runs, claimed, closed>>

(* #sweep: any finished jobs may be old enough to go.                      *)
Sweep ==
  \E old \in SUBSET {j \in Job : status[j] \in Outcome} :
    /\ Retention \/ old = {}
    /\ status' = [j \in Job |-> IF j \in old THEN "gone" ELSE status[j]]

Ended(c) ==
  /\ c.at = "ended"
  /\ told' = [told EXCEPT ![c.job] = "completed"]
  /\ awaiting' = awaiting \ {c}
  /\ Sweep
  /\ Pump
  /\ UNCHANGED <<attempt, usage, backoff, parkedAt, arrival, budget, runs,
                 claimed, retryTimers, closed>>

-----------------------------------------------------------------------------
(* submit *)

Submit(j) ==
  /\ Macrotask
  /\ ~closed
  /\ status[j] = "none"
  /\ status'  = [status  EXCEPT ![j] = "queued"]
  /\ attempt' = [attempt EXCEPT ![j] = 1]
  /\ arrival' = [arrival EXCEPT ![j] = Cardinality({i \in Job : status[i] # "none"}) + 1]
  /\ awaiting' = awaiting \cup {Await("added", j)}
  /\ UNCHANGED <<usage, backoff, parkedAt, budget, runs, sched, told>>

Added(c) ==
  /\ c.at = "added"
  /\ told' = [told EXCEPT ![c.job] = "submitted"]
  /\ awaiting' = awaiting \ {c}
  /\ Pump
  /\ UNCHANGED <<records, budget, runs, claimed, retryTimers, closed>>

(* cancel: the record read first, then the maps, then the record as read.  *)

Cancel(j) ==
  /\ Macrotask
  /\ status[j] \notin {"none", "gone"}
  /\ awaiting' = awaiting \cup
       {Await(IF status[j] = "queued" THEN "cancelQueued" ELSE "cancelOther", j)}
  /\ UNCHANGED <<records, budget, runs, sched, told>>

CancelRead(c) ==
  /\ c.at \in {"cancelQueued", "cancelOther"}
  /\ LET j == c.job  rest == awaiting \ {c} IN
     \/ /\ Active(j)
        /\ Finalize(j, "canceled", tokens[j], rest)
     \/ /\ ~Active(j)
        /\ c.at = "cancelQueued"
        /\ status' = [status EXCEPT ![j] = "canceled"]
        /\ awaiting' = rest \cup {Await("dequeued", j)}
        /\ UNCHANGED <<attempt, usage, backoff, parkedAt, arrival, budget, runs,
                       sched, told>>
     \/ /\ ~Active(j)
        /\ c.at = "cancelOther"
        /\ awaiting' = rest
        /\ UNCHANGED <<records, budget, runs, sched, told>>

Dequeued(c) ==
  /\ c.at = "dequeued"
  /\ told' = [told EXCEPT ![c.job] = "completed"]
  /\ awaiting' = awaiting \ {c}
  /\ UNCHANGED <<records, budget, runs, sched>>

Close ==
  /\ Macrotask
  /\ ~closed
  /\ closed' = TRUE
  /\ retryTimers' = {}
  /\ UNCHANGED <<records, budget, runs, pump, claimed, awaiting, told>>

-----------------------------------------------------------------------------
(* #kill: a parked run ends at once, a live one is interrupted and given   *)
(* the grace period.  `left' is the run's timers without the one firing.   *)

Kill(j, left, used) ==
  \/ /\ ~Active(j) \/ j \in killed
     /\ timers' = [timers EXCEPT ![j] = left]
     /\ tokens' = [tokens EXCEPT ![j] = used]
     /\ UNCHANGED <<records, budget, running, parked, subscribed, killed, sched,
                    awaiting, told>>
  \/ /\ j \in parked \ killed
     /\ Finalize(j, "failed", used, awaiting)
  \/ /\ j \in running \ (parked \cup killed)
     /\ killed' = killed \cup {j}
     /\ timers' = [timers EXCEPT ![j] = left \cup {"force"}]
     /\ tokens' = [tokens EXCEPT ![j] = used]
     /\ UNCHANGED <<records, budget, running, parked, subscribed, sched, awaiting, told>>

(* Interrupting a session that waits for tool results ends its turn, and   *)
(* the run, before interrupt returns (ai-sdk-runner.ts:431): the grace     *)
(* timer is armed on a run that is over (queue.ts:457).                    *)
KilledAtOnce(j) ==
  /\ j \in (running \cap subscribed) \ (parked \cup killed)
  /\ \E n \in ResultTokens :
       Finish(j, "failed", IF n = 0 THEN tokens[j] ELSE n, awaiting, {"force"})
  /\ subscribed' = subscribed \ {j}
  /\ UNCHANGED <<pump, claimed, told>>

WatchdogFires(j) ==
  /\ Macrotask
  /\ \E t \in {"duration", "park"} \cap timers[j] :
       Kill(j, timers[j] \ {t}, tokens[j]) \/ KilledAtOnce(j)

ForceTimerFires(j) ==
  /\ Macrotask
  /\ "force" \in timers[j]
  /\ \/ Active(j) /\ Finalize(j, "failed", tokens[j], awaiting)
     \/ /\ ~Active(j)
        /\ timers' = [timers EXCEPT ![j] = @ \ {"force"}]
        /\ UNCHANGED <<records, budget, running, parked, subscribed, killed, tokens,
                       sched, awaiting, told>>

-----------------------------------------------------------------------------
(* #handleEvent, for the events that change a run.                         *)

AssistantMessage(j) ==
  /\ Macrotask
  /\ j \in subscribed /\ Active(j)
  /\ \E n \in MessageTokens :
       /\ tokens[j] + n <= TokenCap
       /\ IF tokens[j] + n > TokenLimit
          THEN Kill(j, timers[j], tokens[j] + n)
          ELSE /\ tokens' = [tokens EXCEPT ![j] = @ + n]
               /\ UNCHANGED <<records, budget, running, parked, subscribed, timers,
                              killed, sched, awaiting, told>>

TurnResult(j) ==
  /\ Macrotask
  /\ j \in subscribed /\ Active(j)
  /\ \E n \in ResultTokens, isError \in BOOLEAN :
       Finalize(j, IF j \in killed \/ isError THEN "failed" ELSE "succeeded",
                IF n = 0 THEN tokens[j] ELSE n, awaiting)

(* session_error and session_closed *)
SessionEnds(j) ==
  /\ Macrotask
  /\ j \in subscribed /\ Active(j)
  /\ Finalize(j, "failed", tokens[j], awaiting)

-----------------------------------------------------------------------------
(* onSessionParking and onSessionResumed.  The host parks a session after  *)
(* its first model round trip, which outlives the start of its job.        *)

AcceptsEveryPark(j) == j \in running \cap subscribed
AcceptsPark(j) == j \in (running \cap subscribed) \ killed

SessionParking(j) ==
  /\ Macrotask
  /\ AcceptsPark(j)
  /\ subscribed' = subscribed \ {j}
  /\ SwitchClock(j, "duration", "park")
  /\ running' = running \ {j}
  /\ parked'  = parked \cup {j}
  /\ status'  = [status EXCEPT ![j] = "parked"]
  /\ parkedAt' = parkedAt \cup {j}
  /\ awaiting' = awaiting \cup {Await("parkRecorded", j)}
  /\ UNCHANGED <<attempt, usage, backoff, arrival, budget, killed, tokens, sched, told>>

ParkRecorded(c) ==
  /\ c.at = "parkRecorded"
  /\ told' = [told EXCEPT ![c.job] = "parked"]
  /\ awaiting' = awaiting \ {c}
  /\ Pump
  /\ UNCHANGED <<records, budget, runs, claimed, retryTimers, closed>>

SessionResumed(j) ==
  /\ Macrotask
  /\ j \in parked
  /\ subscribed' = subscribed \cup {j}
  /\ SwitchClock(j, "park", "duration")
  /\ parked'  = parked \ {j}
  /\ running' = running \cup {j}
  /\ status'  = [status EXCEPT ![j] = "running"]
  /\ parkedAt' = parkedAt \ {j}
  /\ awaiting' = awaiting \cup {Await("resumeRecorded", j)}
  /\ UNCHANGED <<attempt, usage, backoff, arrival, budget, killed, tokens, sched, told>>

ResumeRecorded(c) ==
  /\ c.at = "resumeRecorded"
  /\ told' = [told EXCEPT ![c.job] = "resumed"]
  /\ awaiting' = awaiting \ {c}
  /\ UNCHANGED <<records, budget, runs, sched>>

-----------------------------------------------------------------------------
(* The clock: nextRunAt passes, the backoff timer fires no earlier, the    *)
(* sweep interval and the day come round.  Nothing waits for the day.      *)

BackoffElapses(j) ==
  /\ j \in backoff
  /\ backoff' = backoff \ {j}
  /\ UNCHANGED <<status, attempt, usage, parkedAt, arrival, budget, runs, sched,
                 awaiting, told>>

RetryTimerFires(j) ==
  /\ Macrotask
  /\ j \in retryTimers \ backoff
  /\ retryTimers' = retryTimers \ {j}
  /\ Pump
  /\ UNCHANGED <<records, budget, runs, claimed, closed, awaiting, told>>

SweepTimerFires ==
  /\ Macrotask
  /\ Retention /\ ~closed
  /\ Sweep
  /\ UNCHANGED <<attempt, usage, backoff, parkedAt, arrival, budget, runs, sched,
                 awaiting, told>>

DayRollsOver ==
  /\ Macrotask
  /\ today < LastDay
  /\ today' = today + 1
  /\ UNCHANGED <<records, spent, runs, sched, awaiting, told>>

-----------------------------------------------------------------------------
PumpStep == PumpReturns \/ ClaimNext \/ StartJob \/ StartFailed \/ Started
CreateRunnerSettles == CreateFails \/ CreateResolves

Continue(c) ==
  \/ Charged(c) \/ Requeued(c) \/ Ended(c) \/ Added(c) \/ CancelRead(c)
  \/ Dequeued(c) \/ ParkRecorded(c) \/ ResumeRecorded(c)

Request(j)  == Submit(j) \/ Cancel(j)
Session(j)  == \/ AssistantMessage(j) \/ TurnResult(j) \/ SessionEnds(j)
               \/ SessionParking(j) \/ SessionResumed(j)
TimerStep(j) == WatchdogFires(j) \/ ForceTimerFires(j) \/ RetryTimerFires(j)

Next ==
  \/ PumpStep
  \/ CreateRunnerSettles
  \/ \E c \in awaiting : Continue(c)
  \/ \E j \in Job : Request(j) \/ Session(j) \/ TimerStep(j) \/ BackoffElapses(j)
  \/ Close
  \/ SweepTimerFires
  \/ DayRollsOver

Spec == Init /\ [][Next]_vars

-----------------------------------------------------------------------------
(* Fairness: the adapter answers every call, createRunner settles, and the *)
(* event loop gives every armed timer its turn however many requests come. *)
(* A run's watchdogs count only the time it spends in that state, over any *)
(* number of parks (runningMs, parkedMs), so they fire even if it never    *)
(* stays there for long.  Clients and sessions are under no duty.          *)

Answered(at, j) == \E c \in awaiting : c.at = at /\ c.job = j /\ Continue(c)

Fairness ==
  /\ WF_vars(PumpStep)
  /\ SF_vars(CreateRunnerSettles)
  /\ \A j \in Job : /\ \A at \in Label : WF_vars(Answered(at, j))
                    /\ WF_vars(BackoffElapses(j))
                    /\ SF_vars(RetryTimerFires(j))
                    /\ SF_vars(WatchdogFires(j))
                    /\ SF_vars(ForceTimerFires(j))

FairSpec == Spec /\ Fairness

-----------------------------------------------------------------------------
TypeOK ==
  /\ status   \in [Job -> Status]
  /\ attempt  \in [Job -> Nat]
  /\ usage    \in [Job -> Nat]
  /\ backoff  \subseteq Job
  /\ parkedAt \subseteq Job
  /\ arrival  \in [Job -> Nat]
  /\ spent    \in [Day -> Nat]
  /\ today    \in Day
  /\ running  \subseteq Job
  /\ parked   \subseteq Job
  /\ subscribed \subseteq Job
  /\ timers   \in [Job -> SUBSET Timer]
  /\ killed   \subseteq Job
  /\ tokens   \in [Job -> Nat]
  /\ pump     \in Phase
  /\ claimed  \in Job \cup {NoJob}
  /\ pump \in {"claimed", "creating", "failing", "starting"} <=> claimed # NoJob
  /\ retryTimers \subseteq Job
  /\ closed   \in BOOLEAN
  /\ awaiting \subseteq Continuation
  /\ told     \in [Job -> Event]

(* Whenever the queue waits for nothing but a session to be created, the   *)
(* stored records and the live maps tell the same story: a parked record   *)
(* has its run in #parked and says since when, a running one has its run   *)
(* in #running or with the pump.                                           *)
RecordsMatchRuns ==
  ~AdapterPending => \A j \in Job :
    /\ status[j] = "parked" <=> j \in parked
    /\ status[j] = "parked" => j \in parkedAt
    /\ status[j] = "running" <=> j \in running \/ claimed = j

(* A run can never keep its job and slot for ever: with both limits        *)
(* configured every run in the maps has a watchdog armed, except while it  *)
(* is being started.  Parking, resuming and killing must not lose it.      *)
Watched ==
  Watchdogs = {"duration", "park"} =>
    /\ \A j \in running : \/ timers[j] \cap {"duration", "force"} # {}
                          \/ pump = "starting" /\ claimed = j
    /\ \A j \in parked  : "park" \in timers[j]

(* No watchdog is left to a finalized run, only a grace timer that finds   *)
(* it over, and observers hear of a job's end when it ended, and nothing   *)
(* after it.                                                               *)
FinalizedIsOver ==
  ~AdapterPending => \A j \in Job :
    /\ ~Active(j) => timers[j] \subseteq {"force"}
    /\ told[j] = "completed" <=> status[j] \in Outcome \cup {"gone"}

(* A killed run is not parked: it would sit there past its end.            *)
KilledIsNotParked == killed \cap parked = {}

(* Every token charged to a day is in some job's usage, or about to be:    *)
(* attempts, kills and cancels charge each run once.                       *)
LedgerBalances ==
  MapThenSumSet(LAMBDA d : spent[d], Day) =
    MapThenSumSet(LAMBDA j : usage[j], Job) +
    MapThenSumSet(LAMBDA c : c.tokens, {c \in awaiting : c.at = "charged"})

(* A job waiting out its backoff has a wake-up coming: nothing else pumps  *)
(* an idle queue when nextRunAt passes.                                    *)
RetryWillWake ==
  ~closed => \A j \in backoff :
    status[j] = "queued" => \/ j \in retryTimers
                            \/ \E c \in awaiting : c.at = "requeued" /\ c.job = j

(* No job is left to itself: every run can be ended by a timer, whatever   *)
(* parks, resumes and kills came before, and every backoff ends by one.    *)
Supervised == Watched /\ KilledIsNotParked /\ RetryWillWake

(* What Watched, KilledIsNotParked and RetryWillWake rest on: at any time  *)
(* at most one of the pump, the maps and a charge in flight holds a job,   *)
(* and while one does its record cannot be claimed again, however late the *)
(* adapter answers.                                                        *)
ChargeOf(c, j) == c.at = "charged" /\ c.job = j
InFlight(j) == Active(j) \/ claimed = j \/ \E c \in awaiting : ChargeOf(c, j)

MapsDisjoint    == running \cap parked = {}
KilledHaveForce == \A j \in killed : j \in running /\ "force" \in timers[j]
PumpHoldsItsJob == \A j \in Job : claimed = j =>
                     /\ j \notin parked
                     /\ j \in running => pump = "starting"
                     /\ pump = "starting" =>
                          j \notin subscribed /\ timers[j] = {} /\ tokens[j] = 0
ChargesAreOver  == \A j \in Job : \A c \in awaiting : ChargeOf(c, j) =>
                     /\ ~Active(j) /\ claimed # j
                     /\ \A d \in awaiting : ChargeOf(d, j) => d = c
NotClaimable    == \A j \in Job : InFlight(j) => status[j] \notin {"none", "queued"}
BackoffKnown    == \A j \in backoff : status[j] # "none"

OneHolder ==
  /\ MapsDisjoint /\ KilledHaveForce /\ PumpHoldsItsJob /\ ChargesAreOver
  /\ NotClaimable /\ BackoffKnown

(* The queue implements the life of a job its clients see.                 *)
Lifecycle == INSTANCE JobLifecycle
ImplementsLifecycle == Lifecycle!Spec

(* With both watchdogs configured, a job that was submitted ends, whatever *)
(* its sessions do, unless the queue is closed or the budget gone.         *)
Ends ==
  Watchdogs = {"duration", "park"} =>
    \A j \in Job : status[j] = "queued" ~>
                     \/ status[j] \in Outcome \cup {"gone"}
                     \/ closed \/ Exhausted

(* A job the queue could run is not left waiting: budget and a slot free,  *)
(* its backoff over, the queue open.                                       *)
Runnable(j) == /\ j \in Claimable
               /\ Cardinality(running) < MaxConcurrency
               /\ ~closed /\ ~Exhausted
               /\ pump # "creating"

NoneStranded == \A j \in Job : ~<>[]Runnable(j)

(* cancel: "Cancel a queued, running, or parked job" (queue.ts:317).  Once *)
(* it returned, the job is over or its run is being finalized.             *)
Finalizing(j) == \E c \in awaiting : c.job = j /\ c.at = "charged"

CancelStops ==
  [][\A c \in awaiting :
       c.at \in {"cancelQueued", "cancelOther"} /\ c \notin awaiting' =>
         \/ status'[c.job] \in Outcome \cup {"gone"}
         \/ Finalizing(c.job)']_vars

(* close: "Stop scheduling new jobs" (queue.ts:358).                       *)
ClosedClaimsNothing ==
  [][closed => \A j \in Job : status[j] = "queued" => status'[j] # "running"]_vars

=============================================================================
