--------------------------- MODULE SessionParking ---------------------------
(***************************************************************************)
(* One session that parks: the parking manager (parking.ts), the part of   *)
(* the AI SDK runner it stands on (ai-sdk-runner.ts), the session's record *)
(* in the store (session-store.ts), its entry in the registry and the      *)
(* server's attach, delivery and delete.                                   *)
(*                                                                         *)
(* A macrotask (a request, a timer, a socket, an answer of the model or of *)
(* the store) runs to its end with the listeners it calls.  What comes     *)
(* after an await is a step of its own: the operations queued on the store,*)
(* the rebuild of a runner, the callers a finished resume wakes.           *)
(*                                                                         *)
(* A definition that directly precedes the one it resembles is a faulty    *)
(* variant of it, used nowhere.                                            *)
(***************************************************************************)
EXTENDS Naturals, Sequences, FiniteSetsExt

CONSTANTS
  Exec,            \* executions the session's model may call for
  Deferred,        \* those answered from outside this process
  Deadlined,       \* those with a deadline
  MaxBatch,        \* bound: calls of one turn
  MaxCrashes,      \* bound: crashes of the server
  IsJob,           \* whether a job runs in the session
  Interrupts,      \* whether its client interrupts
  Deletes,         \* whether a client deletes it
  PromptStore,     \* whether the store answers before the model and the park delay
  RebuildMayFail,  \* whether the engine may fail to assemble a runner
  SaveMayFail,     \* whether the store may fail to write a record
  AccessMayFail    \* whether it may fail to remove or to read one

ASSUME ParkingAssumption ==
  /\ IsFiniteSet(Exec)
  /\ Deferred \subseteq Exec
  /\ Deadlined \subseteq Exec
  /\ MaxBatch \in Nat \ {0}
  /\ MaxCrashes \in Nat
  /\ {IsJob, Interrupts, Deletes, PromptStore} \subseteq BOOLEAN
  /\ {RebuildMayFail, SaveMayFail, AccessMayFail} \subseteq BOOLEAN

VARIABLES
  (* the registry and the runner it holds *)
  status,       \* info().status, "none" when no runner is registered
  turn,         \* a model call is in flight (#abort)
  pending,      \* keys of #pendingToolCalls
  dispatching,  \* batches of which some dispatch has not settled
  used,         \* executions called for so far
  (* the parking manager *)
  owners,       \* keys of #owners
  settled,      \* keys of #settled
  timers,       \* keys of #timers
  detach,       \* a detach timer for the registered runner
  closed,       \* #closed
  storeOps,     \* the chain of store operations
  resume,       \* where the entry of #resuming is
  loaded,       \* the snapshot it rebuilds
  calls,        \* deliveries that wait for it
  knock,        \* an upgrade request that waits for it
  fresh,        \* the runner it built is the one registered
  (* the store, the client, the world *)
  record,       \* pending calls of the stored snapshot, {} when there is none
  kept,         \* the store failed to remove it
  client,       \* the runner the attached client is bound to
  life,         \* "open", "ended" (closed, deleted, discarded), "revived" since
  crashes,      \* crashes so far
  applied,      \* deliveries answered `applied: true'
  refused       \* deliveries answered `applied: false'

runner  == <<status, turn, pending, dispatching>>
index   == <<owners, settled, timers>>
waking  == <<resume, loaded, calls, knock>>
answers == <<applied, refused>>
vars    == <<runner, used, index, detach, closed, storeOps, waking, fresh, record,
             kept, client, life, crashes, answers>>

Live == status \in {"idle", "running", "parked"}

(* restingOnDeferred, and no model call in flight.                         *)
AtRest == ~turn /\ pending # {} /\ pending \subseteq Deferred

Op == {"save", "delete", "load", "clear", "lookup"}
StoreOp(op, calls_) == [op |-> op, pending |-> calls_]

(* The snapshot the store will hold when it has done all it was asked.     *)
Stored ==
  LET writes == {n \in DOMAIN storeOps : storeOps[n].op \in {"save", "delete", "clear"}}
  IN  IF writes = {} THEN record ELSE storeOps[Max(writes)].pending

(* The calls the session still waits for, wherever it is.                  *)
Open == IF status = "none" THEN Stored ELSE pending

(* Microtasks go before any macrotask.                                     *)
Macrotask == resume # "woken" /\ \A b \in dispatching : b.left # {}
Request   == Macrotask /\ ~closed

StoreIsDone == PromptStore => storeOps = <<>>

-----------------------------------------------------------------------------
Init ==
  /\ status = "idle" /\ turn = FALSE /\ pending = {} /\ dispatching = {} /\ used = {}
  /\ owners = {} /\ settled = {} /\ timers = {} /\ detach = FALSE /\ closed = FALSE
  /\ storeOps = <<>>
  /\ resume = "idle" /\ loaded = {} /\ calls = {} /\ knock = FALSE /\ fresh = FALSE
  /\ record = {} /\ kept = FALSE /\ client = "none" /\ life = "open" /\ crashes = 0
  /\ applied = {} /\ refused = {}

-----------------------------------------------------------------------------
(* #park of a runner whose status is 'parked': nobody watches, something   *)
(* is awaited, the queue agrees.  Runner and registry entry go in one      *)
(* tick, the record follows.  `own', `armed' are the executions and timers *)
(* at that point, `after' what the caller forgets afterwards.              *)

MayPark(own) == ~closed /\ client = "none" /\ own # {} /\ AtRest
Refused(own) == ~MayPark(own) \/ IsJob

(* park(): the runner is inert from here on, and the manager evicts it.    *)
GoesInert ==
  /\ status' = "none" /\ pending' = {} /\ dispatching' = {}
  /\ detach' = FALSE /\ fresh' = FALSE
  /\ UNCHANGED turn

GoesDownArmed(own, armed, after) ==     \* the watchdog it re-arms is never cleared
  /\ MayPark(own)
  /\ owners'   = (own \cup pending) \ after
  /\ timers'   = armed \cup (pending \cap Deadlined)
  /\ storeOps' = Append(storeOps, StoreOp("save", pending))
  /\ GoesInert

GoesDown(own, armed, after) ==
  /\ MayPark(own)
  /\ owners'   = (own \cup pending) \ after
  /\ timers'   = (armed \cup (pending \cap Deadlined)) \ after
  /\ storeOps' = Append(storeOps, StoreOp("save", pending))
  /\ GoesInert

StaysUp ==
  /\ Refused(owners)
  /\ UNCHANGED <<turn, pending, index, storeOps, fresh>>

(* The answer to the last pending call starts the next turn.               *)
Settles(e) ==
  /\ pending' = pending \ {e}
  /\ IF pending = {e} THEN status' = "running" /\ turn' = TRUE
                      ELSE UNCHANGED <<status, turn>>

(* The answer is known: a second one is refused, no watchdog is left.      *)
Forgets(e) ==
  /\ owners' = owners \ {e}
  /\ timers' = timers \ {e}
  /\ settled' = settled \cup ({e} \cap owners)

(* What the manager does on the answer of one call of a parked batch: the  *)
(* session goes down again for the rest, no status_changed will say so.    *)
PutsDownAgain(e, after) ==
  /\ status = "parked"
  /\ GoesDown(owners \ {e}, timers \ {e}, after)
  /\ settled' = settled \cup ({e} \cap owners)

(* applyExecutionResult: the event first, on which the manager forgets the *)
(* execution and puts a parked session down again, then the pending call.  *)
Fold(e, after, batches) ==
  \/ PutsDownAgain(e, after)
  \/ /\ status # "parked" \/ Refused(owners \ {e})
     /\ Forgets(e)
     /\ Settles(e)
     /\ dispatching' = batches
     /\ UNCHANGED <<storeOps, detach, fresh>>

-----------------------------------------------------------------------------
(* The runner: turns, the hand-over of a batch, the announcement.          *)

(* execution_dispatched: the manager indexes the deferred calls and arms   *)
(* a watchdog for each that has a deadline.                                *)
Tracks(es) ==
  /\ owners' = owners \cup es
  /\ timers' = timers \cup (es \cap Deadlined)

TurnRests ==
  /\ Macrotask /\ turn /\ StoreIsDone
  /\ \E batch \in SUBSET (Exec \ used) :
       /\ batch # {} /\ Cardinality(batch) <= MaxBatch
       /\ pending' = batch
       /\ used' = used \cup batch
       /\ dispatching' = dispatching \cup {[calls |-> batch, left |-> batch]}
       /\ Tracks(batch \cap Deferred)
  /\ turn' = FALSE
  /\ UNCHANGED <<status, settled, detach, closed, storeOps, waking, fresh, record, kept,
                 client, life, crashes, answers>>

TurnEnds ==
  /\ Macrotask /\ turn /\ StoreIsDone
  /\ turn' = FALSE /\ status' = "idle"
  /\ UNCHANGED <<pending, dispatching, used, index, detach, closed, storeOps, waking,
                 fresh, record, kept, client, life, crashes, answers>>

Without(b, e) == (dispatching \ {b}) \cup {[b EXCEPT !.left = @ \ {e}]}

HandedOver(b, e) ==
  /\ Macrotask /\ e \in b.left
  /\ dispatching' = Without(b, e)
  /\ UNCHANGED <<status, turn, pending, used, index, detach, closed, storeOps, waking,
                 fresh, record, kept, client, life, crashes, answers>>

(* The dispatch rejects, or a call kept in this process settles with it.   *)
DispatchSettles(b, e) ==
  /\ Macrotask /\ e \in b.left
  /\ Fold(e, {}, Without(b, e))
  /\ UNCHANGED <<used, closed, waking, record, kept, client, life, crashes, answers>>

(* A bridged call is answered by a client's tab, or times out.             *)
BridgeAnswers(e) ==
  /\ Macrotask
  /\ e \in pending \ Deferred /\ \A b \in dispatching : e \notin b.left
  /\ Fold(e, {}, dispatching)
  /\ UNCHANGED <<used, closed, waking, record, kept, client, life, crashes, answers>>

(* Every dispatch of a batch has settled.                                  *)
AnnounceParked(b) ==
  /\ b.left = {}
  /\ IF b.calls \cap Deferred # {} /\ AtRest /\ status # "parked"
     THEN \/ GoesDown(owners, timers, {}) /\ UNCHANGED settled
          \/ /\ StaysUp /\ status' = "parked"
             /\ dispatching' = dispatching \ {b} /\ UNCHANGED detach
     ELSE /\ dispatching' = dispatching \ {b}
          /\ UNCHANGED <<status, turn, pending, index, storeOps, detach, fresh>>
  /\ UNCHANGED <<used, closed, waking, record, kept, client, life, crashes, answers>>

-----------------------------------------------------------------------------
(* submitResult.  A result for a session that is not live starts a resume  *)
(* or joins the one under way.                                             *)

JoinsAlways ==                         \* a resume of its own for every caller
  resume' = "loading" /\ storeOps' = Append(storeOps, StoreOp("load", {}))

JoinsAhead ==                          \* the record is read past the save in flight
  IF resume = "idle"
  THEN resume' = "loading" /\ storeOps' = <<StoreOp("load", {})>> \o storeOps
  ELSE UNCHANGED <<resume, storeOps>>

Joins ==
  IF resume = "idle"
  THEN resume' = "loading" /\ storeOps' = Append(storeOps, StoreOp("load", {}))
  ELSE UNCHANGED <<resume, storeOps>>

(* settleExecution of the runner the delivery came to, its timer cleared.  *)
Reaches(e) ==
  \/ /\ e \in pending
     /\ Fold(e, {e}, dispatching)
     /\ applied' = applied \cup {e}
     /\ UNCHANGED refused
  \/ /\ e \notin pending
     /\ timers' = timers \ {e}
     /\ refused' = refused \cup {e}
     /\ UNCHANGED <<runner, owners, settled, storeOps, detach, fresh, applied>>

SubmitForgetting(e, left) ==           \* settled before it has reached the session
  \/ /\ e \notin owners
     /\ refused' = refused \cup ({e} \cap settled)
     /\ UNCHANGED <<runner, index, storeOps, waking, detach, fresh, applied>>
  \/ /\ e \in owners /\ status # "none"
     /\ Reaches(e)
     /\ UNCHANGED waking
  \/ /\ e \in owners /\ status = "none"
     /\ calls' = calls \cup {e}
     /\ owners' = owners \ {e} /\ settled' = settled \cup {e} /\ timers' = left \ {e}
     /\ Joins
     /\ UNCHANGED <<runner, loaded, knock, detach, fresh, answers>>

Submit(e, left) ==
  \/ /\ e \notin owners
     /\ refused' = refused \cup ({e} \cap settled)
     /\ UNCHANGED <<runner, index, storeOps, waking, detach, fresh, applied>>
  \/ /\ e \in owners /\ status # "none"
     /\ Reaches(e)
     /\ UNCHANGED waking
  \/ /\ e \in owners /\ status = "none"
     /\ calls' = calls \cup {e}
     /\ timers' = left
     /\ Joins
     /\ UNCHANGED <<runner, owners, settled, loaded, knock, detach, fresh, answers>>

Deliver(e) ==
  /\ Request /\ e \in used
  /\ Submit(e, timers)
  /\ UNCHANGED <<used, closed, record, kept, client, life, crashes>>

WatchdogFires(e) ==
  /\ Macrotask /\ e \in timers
  /\ Submit(e, timers \ {e})
  /\ UNCHANGED <<used, closed, record, kept, client, life, crashes>>

-----------------------------------------------------------------------------
(* The end of a session: its runner closed, and whatever the manager and   *)
(* the store hold of it.                                                   *)

ForgetsSession(ops) ==
  /\ owners' = {} /\ settled' = {} /\ timers' = {} /\ detach' = FALSE
  /\ storeOps' = Append(ops, StoreOp("delete", {}))
  /\ life' = "ended"

EndsAs(final, ops) ==
  /\ status' = final /\ turn' = FALSE /\ pending' = {} /\ dispatching' = {}
  /\ fresh' = FALSE
  /\ client' = IF client = "live" THEN "stale" ELSE client
  /\ ForgetsSession(ops)

(* The `close' command: the closed runner stays in the registry.           *)
CloseSession ==
  /\ Request /\ client = "live"
  /\ EndsAs("closed", storeOps)
  /\ UNCHANGED <<used, closed, waking, record, kept, crashes, answers>>

(* DELETE of a session that is not registered first looks for its record.  *)
DeleteSession ==
  /\ Request /\ Deletes
  /\ \/ /\ status # "none"
        /\ EndsAs("none", storeOps)
     \/ /\ status = "none"
        /\ life # "ended" \/ kept
        /\ \A n \in DOMAIN storeOps : storeOps[n].op # "lookup"
        /\ storeOps' = Append(storeOps, StoreOp("lookup", {}))
        /\ UNCHANGED <<runner, index, detach, fresh, client, life>>
  /\ UNCHANGED <<used, closed, waking, record, kept, crashes, answers>>

(* The queue discards the session of a run that ends while parked.         *)
JobDiscards ==
  /\ Macrotask /\ IsJob /\ life # "ended" /\ status = "none" /\ Open # {}
  /\ ForgetsSession(storeOps)
  /\ UNCHANGED <<runner, used, closed, waking, fresh, record, kept, client, crashes, answers>>

-----------------------------------------------------------------------------
(* The store works off the chain.                                          *)

Saves(o, rest) ==
  /\ o.op = "save"
  /\ \/ record' = o.pending /\ kept' = FALSE
     \/ SaveMayFail /\ UNCHANGED <<record, kept>>
  /\ storeOps' = rest
  /\ UNCHANGED <<runner, index, waking, detach, fresh, client, life>>

(* A record that cannot be removed stays, and nobody is told.              *)
Removes(o, rest) ==
  /\ o.op \in {"delete", "clear"}
  /\ \/ record' = {} /\ kept' = FALSE
     \/ AccessMayFail /\ record # {} /\ kept' = TRUE /\ UNCHANGED record
  /\ storeOps' = rest
  /\ resume' = IF o.op = "clear" THEN "woken" ELSE resume
  /\ UNCHANGED <<runner, index, loaded, calls, knock, detach, fresh, client, life>>

(* A resume that finds no record, or cannot read it, answers its callers   *)
(* with nothing.                                                           *)
Loads(o, rest) ==
  /\ o.op = "load"
  /\ storeOps' = rest
  /\ \/ /\ record # {}
        /\ resume' = "building" /\ loaded' = record
        /\ UNCHANGED <<index, calls, knock>>
     \/ /\ record = {} \/ AccessMayFail
        /\ resume' = "idle" /\ calls' = {} /\ knock' = FALSE
        /\ owners' = owners \ calls /\ timers' = timers \ calls
        /\ settled' = settled \cup (calls \cap owners)
        /\ UNCHANGED loaded
  /\ UNCHANGED <<runner, record, kept, detach, fresh, client, life>>

LooksUp(o, rest) ==
  /\ o.op = "lookup"
  /\ \/ record # {} /\ EndsAs("none", rest)
     \/ /\ record = {} \/ AccessMayFail
        /\ storeOps' = rest
        /\ UNCHANGED <<runner, index, detach, fresh, client, life>>
  /\ UNCHANGED <<waking, record, kept>>

StoreStep ==
  /\ Macrotask /\ storeOps # <<>>
  /\ LET o == Head(storeOps)  rest == Tail(storeOps) IN
     Saves(o, rest) \/ Removes(o, rest) \/ Loads(o, rest) \/ LooksUp(o, rest)
  /\ UNCHANGED <<used, closed, crashes, answers>>

-----------------------------------------------------------------------------
(* #rebuild, once the snapshot is read, and the callers it wakes.          *)

Restored == status' = "parked" /\ turn' = FALSE /\ pending' = loaded /\ dispatching' = {}

RebuildSucceeds ==
  /\ Macrotask /\ resume = "building"
  /\ Restored
  /\ fresh' = TRUE
  /\ resume' = "clearing" /\ loaded' = {}
  /\ storeOps' = Append(storeOps, StoreOp("clear", {}))
  /\ life' = IF life = "open" THEN "open" ELSE "revived"
  /\ UNCHANGED <<used, index, detach, closed, calls, knock, record, kept, client, crashes,
                 answers>>

RebuildFailsQuietly ==                 \* its callers are not told
  /\ Macrotask /\ RebuildMayFail /\ resume = "building"
  /\ resume' = "idle" /\ loaded' = {}
  /\ UNCHANGED <<runner, used, index, detach, closed, storeOps, calls, knock, fresh,
                 record, kept, client, life, crashes, answers>>

RebuildFails ==
  /\ Macrotask /\ RebuildMayFail /\ resume = "building"
  /\ resume' = "idle" /\ loaded' = {} /\ calls' = {} /\ knock' = FALSE
  /\ UNCHANGED <<runner, used, index, detach, closed, storeOps, fresh, record, kept, client,
                 life, crashes, answers>>

WakesCall(e) ==
  /\ resume = "woken" /\ e \in calls
  /\ calls' = calls \ {e}
  /\ \/ fresh /\ Reaches(e)
     \/ /\ ~fresh                  \* the runner built is inert or closed
        /\ timers' = timers \ {e}
        /\ refused' = refused \cup {e}
        /\ UNCHANGED <<runner, owners, settled, storeOps, detach, fresh, applied>>
  /\ UNCHANGED <<used, closed, resume, loaded, knock, record, kept, client, life, crashes>>

(* An upgrade is further from the resume than a delivery.  Its socket may  *)
(* have gone by now.                                                       *)
WakesClient ==
  /\ resume = "woken" /\ calls = {} /\ knock
  /\ knock' = FALSE
  /\ \/ client' = IF fresh THEN "live" ELSE "stale"
     \/ UNCHANGED client
  /\ UNCHANGED <<runner, used, index, detach, closed, storeOps, resume, loaded, calls,
                 fresh, record, kept, life, crashes, answers>>

ResumeOver ==
  /\ resume = "woken" /\ calls = {} /\ ~knock
  /\ resume' = "idle"
  /\ UNCHANGED <<runner, used, index, detach, closed, storeOps, loaded, calls, knock,
                 fresh, record, kept, client, life, crashes, answers>>

-----------------------------------------------------------------------------
(* The client.                                                             *)

Attach ==
  /\ Request /\ client = "none" /\ ~knock
  /\ \/ /\ status # "none"
        /\ client' = IF Live THEN "live" ELSE "stale"
        /\ UNCHANGED <<knock, resume, storeOps>>
     \/ /\ status = "none"
        /\ knock' = TRUE
        /\ Joins
        /\ UNCHANGED client
  /\ UNCHANGED <<runner, used, index, detach, closed, loaded, calls, fresh, record, kept,
                 life, crashes, answers>>

Detach ==
  /\ Macrotask /\ client # "none"
  /\ client' = "none"
  /\ detach' = (detach \/ (status = "parked" /\ ~closed))
  /\ UNCHANGED <<runner, used, index, closed, storeOps, waking, fresh, record, kept, life,
                 crashes, answers>>

DetachTimerFires ==
  /\ Macrotask /\ detach
  /\ StoreIsDone
  /\ \/ /\ status = "parked"
        /\ GoesDown(owners, timers, {}) /\ UNCHANGED settled
     \/ /\ status # "parked" \/ Refused(owners)
        /\ detach' = FALSE
        /\ UNCHANGED <<runner, index, storeOps, fresh>>
  /\ UNCHANGED <<used, closed, waking, record, kept, client, life, crashes, answers>>

Message ==
  /\ Request /\ client = "live" /\ status = "idle"
  /\ status' = "running" /\ turn' = TRUE
  /\ UNCHANGED <<pending, dispatching, used, index, detach, closed, storeOps, waking,
                 fresh, record, kept, client, life, crashes, answers>>

(* The runner settles what is pending itself, without an execution event.  *)
Interrupt ==
  /\ Request /\ Interrupts /\ client = "live"
  /\ ~turn /\ pending # {}
  /\ pending' = {} /\ status' = "idle"
  /\ UNCHANGED <<turn, dispatching, used, index, detach, closed, storeOps, waking,
                 fresh, record, kept, client, life, crashes, answers>>

-----------------------------------------------------------------------------
(* The server shuts down, or crashes; it comes back with what is stored.   *)

Shutdown ==
  /\ Request
  /\ closed' = TRUE
  /\ \/ Live /\ EndsAs("closed", storeOps)
     \/ /\ ~Live
        /\ timers' = {} /\ detach' = FALSE
        /\ UNCHANGED <<runner, owners, settled, storeOps, fresh, client, life>>
  /\ UNCHANGED <<used, waking, record, kept, crashes, answers>>

Hydrated == owners' = record /\ settled' = {} /\ timers' = record \cap Deadlined

Restart ==
  /\ Macrotask /\ crashes < MaxCrashes
  /\ crashes' = crashes + 1
  /\ status' = "none" /\ turn' = FALSE /\ pending' = {} /\ dispatching' = {}
  /\ Hydrated
  /\ detach' = FALSE /\ closed' = FALSE /\ storeOps' = <<>>
  /\ resume' = "idle" /\ loaded' = {} /\ calls' = {} /\ knock' = FALSE /\ fresh' = FALSE
  /\ client' = "none"
  /\ life' = IF record = {} THEN "ended" ELSE "open"
  /\ kept' = FALSE
  /\ applied' = applied \ record /\ refused' = {}
  /\ UNCHANGED <<used, record>>

-----------------------------------------------------------------------------
RunnerStep == \/ TurnRests \/ TurnEnds
              \/ \E b \in dispatching : \/ \E e \in b.left : HandedOver(b, e) \/ DispatchSettles(b, e)
                                        \/ AnnounceParked(b)
              \/ \E e \in Exec : BridgeAnswers(e)
ResumeStep == RebuildSucceeds \/ RebuildFails \/ (\E e \in calls : WakesCall(e))
              \/ WakesClient \/ ResumeOver
ClientStep == Attach \/ Detach \/ Message \/ Interrupt \/ CloseSession \/ DeleteSession

Next ==
  \/ RunnerStep \/ StoreStep \/ ResumeStep \/ ClientStep
  \/ \E e \in Exec : Deliver(e) \/ WatchdogFires(e)
  \/ DetachTimerFires \/ JobDiscards \/ Shutdown \/ Restart

Spec == Init /\ [][Next]_vars

(* Fairness: microtasks run, the store works off its chain, a rebuild comes*)
(* to an end, and armed watchdogs fire.  The model, backends and clients   *)
(* are under no duty.                                                      *)
Fairness ==
  /\ SF_vars(StoreStep)
  /\ SF_vars(RebuildSucceeds \/ RebuildFails)
  /\ WF_vars(ResumeOver \/ WakesClient \/ \E e \in calls : WakesCall(e))
  /\ WF_vars(\E b \in dispatching : AnnounceParked(b))
  /\ \A e \in Exec : SF_vars(WatchdogFires(e))

FairSpec == Spec /\ Fairness

-----------------------------------------------------------------------------
(* Every watchdog is for an execution that still waits: none is left to    *)
(* wake a session for an answer it has.                                    *)
TimersAreOwned == timers \subseteq owners

(* A session is in one place: while its runner is registered no snapshot   *)
(* of it will be left in the store but one the store failed to remove, and *)
(* none is rebuilt beside it.  Once it ended no answer, no timer and no    *)
(* other record can start a resume.  That is all: a resume already under   *)
(* way goes on, and revives the session (parking.ts:284).                  *)
InOnePlace ==
  /\ Live => Stored = {} \/ kept
  /\ resume \in {"loading", "building"} => status = "none"
  /\ life = "ended" => /\ owners = {} /\ timers = {} /\ ~detach
                       /\ Stored = {} \/ kept

(* Nobody waits for a resume that is over: every delivery and upgrade that *)
(* joined one is answered by it, also when the rebuild fails.              *)
NobodyForgotten == resume = "idle" => calls = {} /\ ~knock

(* "whose stored state is dropped so a late execution result can no longer *)
(* wake it" (src/apps/docs/src/content/docs/reference/server.md:70), of    *)
(* DELETE: an ended session stays ended.  No run checks it: it is false of *)
(* the code while a rebuild is under way.                                  *)
EndedStaysEnded == life # "revived"

(* An execution answered `applied: true' is not waited for any more.       *)
AppliedIsKept == applied \cap Open = {}

(* "`applied: false` means it was already settled" (protocol.md:81): an    *)
(* answer is not refused while the session waits for its first one.        *)
RefusedWasSettled == (refused \ applied) \cap Open = {}

(* A call that is waited for can be answered, wherever its session is: the *)
(* answer finds it, and a call with a deadline has its watchdog.           *)
CallsCanEnd ==
  life = "open" =>
    /\ Open \cap Deferred \subseteq owners
    /\ ~closed => Open \cap Deferred \cap Deadlined \subseteq timers \cup calls

(* The session implements what its backends rely on.                       *)
Promise == INSTANCE DeferredCalls WITH asked <- used, open <- Open
ImplementsDeferredCalls == Promise!Spec

(* A call with a deadline is not waited for for ever, however often its    *)
(* session is parked and woken.                                            *)
Answered == \A e \in Deferred \cap Deadlined : e \in Open ~> (e \notin Open \/ closed)

=============================================================================
