------------------------ MODULE SessionParkingProofs ------------------------
(***************************************************************************)
(* Theorems about SessionParking, for every set of executions and calls of *)
(* a turn, and any number of crashes.                                      *)
(***************************************************************************)
EXTENDS SessionParking, FiniteSetTheorems, SequenceTheorems, TLAPS

USE DEF TimersAreOwned

-----------------------------------------------------------------------------
(* What the operators several actions share leave of the index.            *)

(* A park re-indexes what it re-arms.                                      *)
LEMMA GoesDownStep ==
  ASSUME NEW own, NEW armed, NEW after, armed \subseteq own, GoesDown(own, armed, after)
  PROVE  TimersAreOwned'
BY DEF GoesDown

(* An answer is forgotten with its watchdog, whether or not the session    *)
(* goes down again for the calls that are left.                            *)
LEMMA FoldStep ==
  ASSUME TimersAreOwned, NEW e, NEW after, NEW batches, Fold(e, after, batches)
  PROVE  TimersAreOwned'
<1>1. CASE GoesDown(owners \ {e}, timers \ {e}, after)
  <2>1. timers \ {e} \subseteq owners \ {e}
    OBVIOUS
  <2> QED BY <1>1, <2>1, GoesDownStep
<1>2. CASE Forgets(e)
  BY <1>2 DEF Forgets
<1> QED BY <1>1, <1>2 DEF Fold, PutsDownAgain

LEMMA ReachesStep ==
  ASSUME TimersAreOwned, NEW e, Reaches(e)
  PROVE  TimersAreOwned'
<1>1. CASE Fold(e, {e}, dispatching)
  BY <1>1, FoldStep
<1>2. CASE timers' = timers \ {e} /\ UNCHANGED owners
  BY <1>2
<1> QED BY <1>1, <1>2 DEF Reaches

LEMMA SubmitStep ==
  ASSUME TimersAreOwned, NEW e, NEW left, left \subseteq timers, Submit(e, left)
  PROVE  TimersAreOwned'
<1>1. CASE UNCHANGED index
  BY <1>1 DEF index
<1>2. CASE Reaches(e)
  BY <1>2, ReachesStep
<1>3. CASE timers' = left /\ UNCHANGED owners
  BY <1>3
<1> QED BY <1>1, <1>2, <1>3 DEF Submit

LEMMA ForgetsSessionStep ==
  ASSUME NEW ops, ForgetsSession(ops)
  PROVE  TimersAreOwned'
BY DEF ForgetsSession

-----------------------------------------------------------------------------
LEMMA RunnerStepKeeps == TimersAreOwned /\ RunnerStep => TimersAreOwned'
<1> SUFFICES ASSUME TimersAreOwned, RunnerStep PROVE TimersAreOwned'
  OBVIOUS
<1>1. CASE TurnRests
  BY <1>1 DEF TurnRests, Tracks
<1>2. CASE TurnEnds
  BY <1>2 DEF TurnEnds, index
<1>3. ASSUME NEW b \in dispatching, NEW e \in b.left, HandedOver(b, e)
      PROVE  TimersAreOwned'
  BY <1>3 DEF HandedOver, index
<1>4. ASSUME NEW b \in dispatching, NEW e \in b.left, DispatchSettles(b, e)
      PROVE  TimersAreOwned'
  BY <1>4, FoldStep DEF DispatchSettles
<1>5. ASSUME NEW b \in dispatching, AnnounceParked(b)
      PROVE  TimersAreOwned'
  <2>1. CASE GoesDown(owners, timers, {})
    BY <2>1, GoesDownStep
  <2>2. CASE UNCHANGED index
    BY <2>2 DEF index
  <2> QED BY <1>5, <2>1, <2>2 DEF AnnounceParked, StaysUp
<1>6. ASSUME NEW e \in Exec, BridgeAnswers(e)
      PROVE  TimersAreOwned'
  BY <1>6, FoldStep DEF BridgeAnswers
<1> QED BY <1>1, <1>2, <1>3, <1>4, <1>5, <1>6 DEF RunnerStep

LEMMA EndsAsStep ==
  ASSUME NEW final, NEW ops, EndsAs(final, ops)
  PROVE  TimersAreOwned'
BY ForgetsSessionStep DEF EndsAs

LEMMA StoreStepKeeps == TimersAreOwned /\ StoreStep => TimersAreOwned'
<1> SUFFICES ASSUME TimersAreOwned, StoreStep PROVE TimersAreOwned'
  OBVIOUS
<1> DEFINE o == Head(storeOps)
           rest == Tail(storeOps)
<1>1. CASE Saves(o, rest)
  BY <1>1 DEF Saves, index
<1>2. CASE Removes(o, rest)
  BY <1>2 DEF Removes, index
<1>3. CASE Loads(o, rest)
  BY <1>3 DEF Loads, index
<1>4. CASE LooksUp(o, rest)
  BY <1>4, EndsAsStep DEF LooksUp, index
<1> QED BY <1>1, <1>2, <1>3, <1>4 DEF StoreStep

LEMMA ResumeStepKeeps == TimersAreOwned /\ ResumeStep => TimersAreOwned'
<1> SUFFICES ASSUME TimersAreOwned, ResumeStep PROVE TimersAreOwned'
  OBVIOUS
<1>1. ASSUME NEW e \in calls, WakesCall(e)
      PROVE  TimersAreOwned'
  <2>1. CASE Reaches(e)
    BY <2>1, ReachesStep
  <2>2. CASE timers' = timers \ {e} /\ UNCHANGED owners
    BY <2>2
  <2> QED BY <1>1, <2>1, <2>2 DEF WakesCall
<1>2. CASE UNCHANGED index
  BY <1>2 DEF index
<1> QED BY <1>1, <1>2 DEF ResumeStep, RebuildSucceeds, RebuildFails, WakesClient, ResumeOver

LEMMA ClientStepKeeps == TimersAreOwned /\ ClientStep => TimersAreOwned'
<1> SUFFICES ASSUME TimersAreOwned, ClientStep PROVE TimersAreOwned'
  OBVIOUS
<1>1. CASE UNCHANGED index
  BY <1>1 DEF index
<1>2. CASE CloseSession
  BY <1>2, EndsAsStep DEF CloseSession
<1>3. CASE DeleteSession
  BY <1>1, <1>3, EndsAsStep DEF DeleteSession
<1> QED BY <1>1, <1>2, <1>3 DEF ClientStep, Attach, Detach, Message, Interrupt

LEMMA OwnedNextKeeps == TimersAreOwned /\ [Next]_vars => TimersAreOwned'
 <1> SUFFICES ASSUME TimersAreOwned, [Next]_vars PROVE TimersAreOwned'
  OBVIOUS
<1>1. CASE RunnerStep
  BY <1>1, RunnerStepKeeps
<1>2. CASE StoreStep
  BY <1>2, StoreStepKeeps
<1>3. CASE ResumeStep
  BY <1>3, ResumeStepKeeps
<1>4. CASE ClientStep
  BY <1>4, ClientStepKeeps
<1>5. ASSUME NEW e \in Exec, Deliver(e) PROVE TimersAreOwned'
  BY <1>5, SubmitStep DEF Deliver
<1>6. ASSUME NEW e \in Exec, WatchdogFires(e) PROVE TimersAreOwned'
  <2>1. timers \ {e} \subseteq timers
    OBVIOUS
  <2> QED BY <1>6, <2>1, SubmitStep DEF WatchdogFires
<1>7. CASE DetachTimerFires
  <2>1. CASE GoesDown(owners, timers, {})
    BY <2>1, GoesDownStep
  <2>2. CASE UNCHANGED index
    BY <2>2 DEF index
  <2> QED BY <1>7, <2>1, <2>2 DEF DetachTimerFires
<1>8. CASE JobDiscards
  BY <1>8, ForgetsSessionStep DEF JobDiscards
<1>9. CASE Shutdown
  BY <1>9, EndsAsStep DEF Shutdown
<1>10. CASE Restart
  BY <1>10 DEF Restart, Hydrated
<1>11. CASE UNCHANGED vars
  BY <1>11 DEF vars, index
<1> QED BY <1>1, <1>2, <1>3, <1>4, <1>5, <1>6, <1>7, <1>8, <1>9, <1>10, <1>11 DEF Next

(* Whatever happens to the session, a watchdog is only ever armed for an   *)
(* execution #owners still holds: a timer that outlived its execution      *)
(* would wake a session for an answer it has.                              *)
THEOREM WatchdogsAreOwned == Spec => []TimersAreOwned
<1>1. Init => TimersAreOwned
  BY DEF Init
<1> QED BY <1>1, OwnedNextKeeps, PTL DEF Spec

-----------------------------------------------------------------------------
(* The chain of store operations: what it leaves in the store when it is   *)
(* worked off, and which of its operations a resume waits for.             *)

Write(o) == o.op \in {"save", "delete", "clear"}
Awaits(o) == o.op \in {"load", "clear"}

(* s is what the chain q leaves where r is stored.                         *)
Leaves(q, r, s) ==
  \/ \E n \in 1..Len(q) : /\ Write(q[n]) /\ s = q[n].pending
                          /\ \A m \in 1..Len(q) : Write(q[m]) => m <= n
  \/ s = r /\ \A n \in 1..Len(q) : ~Write(q[n])

(* Stored, of any chain and any record.                                    *)
LeftOf(q, r) ==
  LET writes == {n \in DOMAIN q : q[n].op \in {"save", "delete", "clear"}}
  IN  IF writes = {} THEN r ELSE q[Max(writes)].pending

LEMMA StoredIsLeft ==
  ASSUME NEW q \in Seq([op : Op, pending : SUBSET Exec]), NEW r, NEW s, Leaves(q, r, s)
  PROVE  LeftOf(q, r) = s
<1> DEFINE writes == {n \in DOMAIN q : q[n].op \in {"save", "delete", "clear"}}
<1>1. DOMAIN q = 1..Len(q) /\ Len(q) \in Nat
  OBVIOUS
<1>2. CASE writes = {}
  BY <1>1, <1>2 DEF Leaves, Write, LeftOf
<1>3. CASE writes # {}
  <2>1. PICK n \in 1..Len(q) :
          /\ Write(q[n]) /\ s = q[n].pending
          /\ \A m \in 1..Len(q) : Write(q[m]) => m <= n
    BY <1>1, <1>3 DEF Leaves, Write
  <2>2. n \in writes /\ \A y \in writes : n >= y
    BY <1>1, <2>1 DEF Write
  <2>3. \A x \in writes : (\A y \in writes : x >= y) => x = n
    BY <1>1, <2>2
  <2>4. Max(writes) = n
    BY <2>2, <2>3 DEF Max
  <2> QED BY <1>3, <2>1, <2>4 DEF LeftOf
<1> QED BY <1>2, <1>3

LEMMA LeavesAppend ==
  ASSUME NEW S, NEW q \in Seq(S), NEW o \in S, NEW r, NEW s, Leaves(q, r, s)
  PROVE  Leaves(Append(q, o), r, IF Write(o) THEN o.pending ELSE s)
<1> DEFINE p == Append(q, o)
<1>1. /\ Len(p) = Len(q) + 1 /\ Len(q) \in Nat /\ p[Len(p)] = o
      /\ \A n \in 1..Len(q) : p[n] = q[n]
  OBVIOUS
<1> HIDE DEF p
<1>2. CASE Write(o)
  BY <1>1, <1>2 DEF Leaves
<1>3. CASE ~Write(o)
  BY <1>1, <1>3 DEF Leaves
<1> QED BY <1>2, <1>3 DEF p

LEMMA LeavesTail ==
  ASSUME NEW S, NEW q \in Seq(S), q # <<>>, NEW r, NEW s, Leaves(q, r, s), NEW t,
         Write(Head(q)) /\ Head(q).pending = s => t = s,
         ~Write(Head(q)) => t = r
  PROVE  Leaves(Tail(q), t, s)
<1> DEFINE p == Tail(q)
<1>1. /\ Len(p) = Len(q) - 1 /\ Len(q) \in Nat /\ Len(q) >= 1 /\ Head(q) = q[1]
      /\ \A n \in 1..Len(p) : p[n] = q[n + 1]
  OBVIOUS
<1> HIDE DEF p
<1>2. ASSUME NEW n \in 1..Len(q), n # 1
      PROVE  n - 1 \in 1..Len(p) /\ p[n - 1] = q[n] /\ n \in Nat
  BY <1>1, <1>2
<1>3. ASSUME NEW n \in 1..Len(q), Write(q[n]), s = q[n].pending,
             \A m \in 1..Len(q) : Write(q[m]) => m <= n
      PROVE  Leaves(p, t, s)
  <2>1. CASE n = 1
    <3>1. t = s
      BY <1>1, <1>3, <2>1
    <3>2. \A m \in 1..Len(p) : ~Write(p[m])
      BY <1>1, <1>3, <2>1
    <3> QED BY <3>1, <3>2 DEF Leaves
  <2>2. CASE n # 1
    <3>1. n - 1 \in 1..Len(p) /\ p[n - 1] = q[n] /\ n \in Nat
      BY <1>2, <2>2
    <3>2. \A m \in 1..Len(p) : Write(p[m]) => m <= n - 1
      BY <1>1, <1>3, <3>1
    <3> QED BY <1>3, <3>1, <3>2 DEF Leaves
  <2> QED BY <2>1, <2>2
<1>4. ASSUME s = r, \A n \in 1..Len(q) : ~Write(q[n])
      PROVE  Leaves(p, t, s)
  <2>1. ~Write(Head(q))
    BY <1>1, <1>4
  <2>2. \A m \in 1..Len(p) : ~Write(p[m])
    BY <1>1, <1>4
  <2> QED BY <1>4, <2>1, <2>2 DEF Leaves
<1> QED BY <1>3, <1>4 DEF Leaves, p

(* Whatever comes of its head, a chain leaves its last write, or the record.*)
LEMMA LeavesTailLost ==
  ASSUME NEW S, NEW q \in Seq(S), q # <<>>, NEW r, NEW s, Leaves(q, r, s), NEW t
  PROVE  Leaves(Tail(q), t, s) \/ Leaves(Tail(q), t, t)
<1>1. CASE \E n \in 1..Len(Tail(q)) : Write(Tail(q)[n])
  <2>1. s # t \/ s = t
    OBVIOUS
  <2>2. /\ Len(Tail(q)) = Len(q) - 1 /\ Len(q) \in Nat /\ Len(q) >= 1
        /\ \A n \in 1..Len(Tail(q)) : Tail(q)[n] = q[n + 1] /\ n + 1 \in 1..Len(q)
    OBVIOUS
  <2>3. PICK n \in 1..Len(q) : /\ Write(q[n]) /\ s = q[n].pending
                               /\ \A m \in 1..Len(q) : Write(q[m]) => m <= n
    BY <1>1, <2>2 DEF Leaves
  <2>4. n # 1
    BY <1>1, <2>2, <2>3
  <2>5. n - 1 \in 1..Len(Tail(q)) /\ Tail(q)[n - 1] = q[n]
    BY <2>2, <2>3, <2>4
  <2>6. \A m \in 1..Len(Tail(q)) : Write(Tail(q)[m]) => m <= n - 1
    BY <2>2, <2>3
  <2> QED BY <2>3, <2>5, <2>6 DEF Leaves
<1>2. CASE \A n \in 1..Len(Tail(q)) : ~Write(Tail(q)[n])
  BY <1>2 DEF Leaves
<1> QED BY <1>1, <1>2

(* A chain whose only load or clear is the one the resume at r waits for,  *)
(* and which saves no record without a pending call.                       *)
Chain(q, r) ==
  /\ q \in Seq([op : Op, pending : SUBSET Exec])
  /\ \A n \in 1..Len(q) :
       /\ q[n].op = "save" => q[n].pending # {}
       /\ q[n].op \in {"delete", "clear"} => q[n].pending = {}
       /\ q[n].op = "load" => r = "loading"
       /\ q[n].op = "clear" => r = "clearing"
  /\ \A m, n \in 1..Len(q) : Awaits(q[m]) /\ Awaits(q[n]) => m = n

LEMMA ChainAppend ==
  ASSUME NEW q, NEW r, Chain(q, r), NEW t, NEW o \in [op : Op, pending : SUBSET Exec],
         o.op = "save" => o.pending # {},
         o.op \in {"delete", "clear"} => o.pending = {},
         \/ ~Awaits(o) /\ t = r
         \/ o.op = "load" /\ r \notin {"loading", "clearing"} /\ t = "loading"
         \/ o.op = "clear" /\ r \notin {"loading", "clearing"} /\ t = "clearing"
  PROVE  Chain(Append(q, o), t)
<1> DEFINE p == Append(q, o)
<1>1. q \in Seq([op : Op, pending : SUBSET Exec])
  BY DEF Chain
<1>2. /\ p \in Seq([op : Op, pending : SUBSET Exec])
      /\ Len(p) = Len(q) + 1 /\ Len(q) \in Nat /\ p[Len(p)] = o
      /\ \A n \in 1..Len(q) : p[n] = q[n]
  BY <1>1
<1>3. \A n \in 1..Len(p) : n = Len(p) \/ n \in 1..Len(q)
  BY <1>2
<1> HIDE DEF p
<1>4. Awaits(o) => \A n \in 1..Len(q) : ~Awaits(q[n])
  BY DEF Chain, Awaits
<1>5. ASSUME NEW n \in 1..Len(p)
      PROVE  /\ p[n].op = "save" => p[n].pending # {}
             /\ p[n].op \in {"delete", "clear"} => p[n].pending = {}
             /\ p[n].op = "load" => t = "loading"
             /\ p[n].op = "clear" => t = "clearing"
  <2>1. CASE n = Len(p)
    BY <1>2, <2>1 DEF Awaits
  <2>2. CASE n \in 1..Len(q)
    BY <1>2, <1>4, <2>2 DEF Chain, Awaits
  <2> QED BY <1>3, <2>1, <2>2
<1>6. ASSUME NEW m \in 1..Len(p), NEW n \in 1..Len(p), Awaits(p[m]), Awaits(p[n])
      PROVE  m = n
  <2>1. CASE m \in 1..Len(q) /\ n \in 1..Len(q)
    BY <1>2, <1>6, <2>1 DEF Chain
  <2>2. CASE m = Len(p) \/ n = Len(p)
    BY <1>2, <1>3, <1>4, <1>6, <2>2
  <2> QED BY <1>3, <2>1, <2>2
<1> QED BY <1>2, <1>5, <1>6 DEF Chain, p

LEMMA ChainTail ==
  ASSUME NEW q, NEW r, Chain(q, r), q # <<>>, NEW t, t = r \/ Awaits(Head(q))
  PROVE  /\ Chain(Tail(q), t)
         /\ Head(q) \in [op : Op, pending : SUBSET Exec]
         /\ Head(q).op = "save" => Head(q).pending # {}
         /\ Head(q).op \in {"delete", "clear"} => Head(q).pending = {}
         /\ Head(q).op = "load" => r = "loading"
         /\ Head(q).op = "clear" => r = "clearing"
<1> DEFINE p == Tail(q)
<1>1. q \in Seq([op : Op, pending : SUBSET Exec])
  BY DEF Chain
<1>2. /\ p \in Seq([op : Op, pending : SUBSET Exec])
      /\ Len(p) = Len(q) - 1 /\ Len(q) \in Nat /\ Len(q) >= 1 /\ Head(q) = q[1]
      /\ \A n \in 1..Len(p) : p[n] = q[n + 1]
      /\ q[1] \in [op : Op, pending : SUBSET Exec]
  <2> DEFINE R == [op : Op, pending : SUBSET Exec]
  <2>1. q \in Seq(R)
    BY <1>1
  <2> HIDE DEF R
  <2>2. /\ p \in Seq(R)
        /\ Len(p) = Len(q) - 1 /\ Len(q) \in Nat /\ Len(q) >= 1 /\ Head(q) = q[1]
        /\ \A n \in 1..Len(p) : p[n] = q[n + 1]
        /\ q[1] \in R
    BY <2>1
  <2> QED BY <2>2 DEF R
<1> HIDE DEF p
<1>3. ASSUME NEW n \in 1..Len(p)
      PROVE  p[n] = q[n + 1] /\ n + 1 \in 1..Len(q) /\ 1 \in 1..Len(q) /\ n + 1 # 1
  BY <1>2
<1>4. ASSUME NEW n \in 1..Len(p), Awaits(p[n]) PROVE t = r
  BY <1>2, <1>3, <1>4 DEF Chain
<1>5. ASSUME NEW n \in 1..Len(p)
      PROVE  /\ p[n].op = "save" => p[n].pending # {}
             /\ p[n].op \in {"delete", "clear"} => p[n].pending = {}
             /\ p[n].op = "load" => t = "loading"
             /\ p[n].op = "clear" => t = "clearing"
  BY <1>3, <1>4 DEF Chain, Awaits
<1>6. ASSUME NEW m \in 1..Len(p), NEW n \in 1..Len(p), Awaits(p[m]), Awaits(p[n])
      PROVE  m = n
  <2>1. m + 1 = n + 1
    BY <1>3, <1>6 DEF Chain
  <2>2. m \in Int /\ n \in Int
    OBVIOUS
  <2> QED BY <2>1, <2>2
<1>7. 1 \in 1..Len(q)
  BY <1>2
<1> QED BY <1>2, <1>5, <1>6, <1>7 DEF Chain, p

-----------------------------------------------------------------------------
(* A session is in one place.                                              *)

(* A runner that is not live has nothing in flight.                        *)
Inert ==
  ~Live => /\ ~turn /\ pending = {} /\ dispatching = {} /\ ~fresh
           /\ client # "live" /\ ~detach

(* The chain leaves no record, or the store has failed to remove the last. *)
Gone ==
  \/ Leaves(storeOps, record, {})
  \/ kept /\ \A n \in 1..Len(storeOps) : ~Write(storeOps[n])

USE DEF Gone

(* InOnePlace, with what the chain leaves for what the store will hold.    *)
Alone ==
  /\ Live => life # "ended" /\ Gone
  /\ resume \in {"loading", "building"} => status = "none"
  /\ life = "ended" => owners = {} /\ timers = {} /\ Gone

ParkInv ==
  /\ pending \subseteq Exec /\ loaded \subseteq Exec /\ record \subseteq Exec
  /\ turn \in BOOLEAN
  /\ Chain(storeOps, resume)
  /\ Inert /\ Alone

LEMMA ParkInvInit == Init => ParkInv
<1> SUFFICES ASSUME Init PROVE ParkInv
  OBVIOUS
<1>1. storeOps = <<>> /\ record = {} /\ storeOps \in Seq([op : Op, pending : SUBSET Exec])
  BY DEF Init
<1>2. Len(storeOps) = 0
  BY <1>1
<1>3. Chain(storeOps, resume) /\ Leaves(storeOps, record, {})
  BY <1>1, <1>2 DEF Chain, Leaves
<1> QED BY <1>3 DEF Init, ParkInv, Live, Inert, Alone

LEMMA InvInOnePlace ==
  ASSUME ParkInv
  PROVE  InOnePlace
<1>1. Gone => Stored = {} \/ kept
  <2>1. Stored = LeftOf(storeOps, record)
    BY DEF Stored, LeftOf
  <2> QED BY <2>1, StoredIsLeft DEF ParkInv, Chain
<1> QED BY <1>1 DEF ParkInv, Inert, Alone, InOnePlace, Live

(* An operation that writes nothing is queued.                             *)
LEMMA AsideStays ==
  ASSUME NEW S, NEW o \in S, storeOps \in Seq(S), storeOps' = Append(storeOps, o),
         ~Write(o), Gone, UNCHANGED <<record, kept>>
  PROVE  Gone'
<1>1. CASE Leaves(storeOps, record, {})
  <2>1. Leaves(Append(storeOps, o), record, IF Write(o) THEN o.pending ELSE {})
    BY <1>1, LeavesAppend
  <2> QED BY <2>1
<1>2. CASE kept /\ \A n \in 1..Len(storeOps) : ~Write(storeOps[n])
  <2>1. /\ Len(storeOps') = Len(storeOps) + 1 /\ storeOps'[Len(storeOps')] = o
        /\ \A n \in 1..Len(storeOps) : storeOps'[n] = storeOps[n]
        /\ Len(storeOps) \in Nat
    OBVIOUS
  <2>2. \A n \in 1..Len(storeOps') : n = Len(storeOps') \/ n \in 1..Len(storeOps)
    BY <2>1
  <2>3. \A n \in 1..Len(storeOps') : ~Write(storeOps'[n])
    BY <1>2, <2>1, <2>2
  <2> QED BY <1>2, <2>3
<1> QED BY <1>1, <1>2

(* An operation is queued: the chain and what it leaves.                   *)
LEMMA Queued ==
  ASSUME ParkInv, NEW o \in [op : Op, pending : SUBSET Exec],
         o.op \in {"save", "delete", "lookup"},
         o.op = "save" => o.pending # {}, o.op = "delete" => o.pending = {},
         storeOps' = Append(storeOps, o), UNCHANGED <<record, kept, resume>>
  PROVE  /\ Chain(storeOps, resume)'
         /\ o.op = "delete" => Gone'
         /\ o.op = "lookup" /\ Gone => Gone'
<1>1. Chain(storeOps, resume)
  BY DEF ParkInv
<1>2. Chain(Append(storeOps, o), resume)
  BY <1>1, ChainAppend DEF Awaits
<1>3. storeOps \in Seq([op : Op, pending : SUBSET Exec])
  BY <1>1 DEF Chain
<1>4. ASSUME o.op = "lookup", Gone
      PROVE  Gone'
  BY <1>3, <1>4, AsideStays DEF Write
<1>5. ASSUME o.op = "delete"
      PROVE  Leaves(Append(storeOps, o), record, {})
  BY <1>3, <1>5 DEF Leaves, Write
<1> QED BY <1>2, <1>4, <1>5

(* A resume is joined or begun: only where no runner is registered.        *)
LEMMA JoinsStep ==
  ASSUME ParkInv, status = "none", Joins, UNCHANGED <<record, kept, loaded>>
  PROVE  /\ Chain(storeOps, resume)'
         /\ Gone => Gone'
<1>1. CASE UNCHANGED <<resume, storeOps>>
  BY <1>1 DEF ParkInv
<1>2. CASE resume = "idle" /\ resume' = "loading" /\ storeOps' = Append(storeOps, StoreOp("load", {}))
  <2> DEFINE o == StoreOp("load", {})
  <2>1. o \in [op : Op, pending : SUBSET Exec] /\ o.op = "load"
    BY DEF StoreOp, Op
  <2>2. storeOps' = Append(storeOps, o)
    BY <1>2
  <2> HIDE DEF o
  <2>3. Chain(storeOps, resume) /\ storeOps \in Seq([op : Op, pending : SUBSET Exec])
    BY DEF ParkInv, Chain
  <2>4. Chain(Append(storeOps, o), "loading")
    BY <1>2, <2>1, <2>3, ChainAppend
  <2>5. Gone => Gone'
    BY <2>1, <2>2, <2>3, AsideStays DEF Write
  <2> QED BY <1>2, <2>2, <2>4, <2>5
<1> QED BY <1>1, <1>2 DEF Joins

LEMMA GoesDownParks ==
  ASSUME ParkInv, NEW own, NEW armed, NEW after, GoesDown(own, armed, after),
         UNCHANGED <<record, kept, resume, loaded, client, life>>
  PROVE  ParkInv'
<1> DEFINE o == StoreOp("save", pending)
<1>1. /\ storeOps' = Append(storeOps, o) /\ pending # {} /\ client = "none" /\ ~turn
      /\ status' = "none" /\ pending' = {} /\ dispatching' = {} /\ detach' = FALSE
      /\ fresh' = FALSE /\ turn' = turn
  BY DEF GoesDown, GoesInert, MayPark, AtRest
<1>2. o \in [op : Op, pending : SUBSET Exec] /\ o.op = "save" /\ o.pending = pending
  BY DEF StoreOp, Op, ParkInv
<1> HIDE DEF o
<1>3. Chain(storeOps, resume)'
  BY <1>1, <1>2, Queued
<1>4. Live /\ life # "ended"
  BY <1>1 DEF ParkInv, Inert, Alone
<1>5. Inert'
  BY <1>1 DEF Inert, Live
<1>6. Alone'
  BY <1>1, <1>4 DEF Alone, Live
<1> QED BY <1>1, <1>3, <1>5, <1>6 DEF ParkInv

(* A step of the runner in its place.                                      *)
LEMMA LiveStays ==
  ASSUME ParkInv, Live, Live', pending' \subseteq Exec, loaded' \subseteq Exec,
         turn' \in BOOLEAN, UNCHANGED <<storeOps, record, kept, resume, life>>
  PROVE  ParkInv'
BY DEF ParkInv, Inert, Alone, Live

LEMMA FoldParks ==
  ASSUME ParkInv, NEW e, NEW after, NEW batches, Live, Fold(e, after, batches),
         UNCHANGED <<record, kept, resume, loaded, client, life>>
  PROVE  ParkInv'
<1>1. CASE PutsDownAgain(e, after)
  BY <1>1, GoesDownParks DEF PutsDownAgain
<1>2. CASE Settles(e) /\ UNCHANGED storeOps
  BY <1>2, LiveStays DEF Settles, ParkInv, Live
<1> QED BY <1>1, <1>2 DEF Fold

LEMMA ReachesParks ==
  ASSUME ParkInv, NEW e, Reaches(e), UNCHANGED <<record, kept, resume, loaded, client, life>>
  PROVE  ParkInv'
<1>1. CASE e \in pending /\ Fold(e, {e}, dispatching)
  <2>1. Live
    BY <1>1 DEF ParkInv, Inert
  <2> QED BY <1>1, <2>1, FoldParks
<1>2. CASE timers' = timers \ {e} /\ UNCHANGED <<runner, owners, storeOps, detach, fresh>>
  BY <1>2 DEF ParkInv, Inert, Alone, Live, runner
<1> QED BY <1>1, <1>2 DEF Reaches

LEMMA SubmitParks ==
  ASSUME ParkInv, NEW e, NEW left, left \subseteq timers, Submit(e, left),
         UNCHANGED <<record, kept, client, life>>
  PROVE  ParkInv'
<1>1. CASE e \notin owners /\ UNCHANGED <<runner, index, storeOps, waking, detach, fresh>>
  BY <1>1 DEF ParkInv, Inert, Alone, Live, runner, index, waking
<1>2. CASE Reaches(e) /\ UNCHANGED waking
  BY <1>2, ReachesParks DEF waking
<1>3. CASE /\ status = "none" /\ Joins /\ e \in owners
           /\ UNCHANGED <<runner, owners, loaded, detach, fresh>>
  <2>1. /\ Chain(storeOps, resume)'
        /\ Gone => Gone'
    BY <1>3, JoinsStep
  <2>2. Inert'
    BY <1>3 DEF ParkInv, Inert, Live, runner
  <2>3. Alone'
    BY <1>3, <2>1 DEF ParkInv, Alone, Live, runner
  <2> QED BY <1>3, <2>1, <2>2, <2>3 DEF ParkInv, runner
<1> QED BY <1>1, <1>2, <1>3 DEF Submit

(* The session ends.                                                       *)
LEMMA EndsAsParks ==
  ASSUME NEW ops, NEW final \in {"none", "closed"}, EndsAs(final, ops),
         Chain(ops, resume), resume \in {"loading", "building"} => final = "none",
         UNCHANGED <<record, kept, resume, loaded>>, loaded \subseteq Exec, record \subseteq Exec
  PROVE  ParkInv'
<1> DEFINE o == StoreOp("delete", {})
<1>1. /\ storeOps' = Append(ops, o) /\ pending' = {} /\ dispatching' = {} /\ ~turn' /\ ~fresh'
      /\ status' = final /\ ~detach' /\ owners' = {} /\ timers' = {} /\ life' = "ended"
      /\ client' # "live" /\ turn' \in BOOLEAN
  BY DEF EndsAs, ForgetsSession
<1>2. o \in [op : Op, pending : SUBSET Exec] /\ o.op = "delete" /\ o.pending = {}
  BY DEF StoreOp, Op
<1> HIDE DEF o
<1>3. Chain(storeOps, resume)'
  BY <1>1, <1>2, ChainAppend DEF Awaits
<1>4. Gone'
  <2>1. ops \in Seq([op : Op, pending : SUBSET Exec])
    BY DEF Chain
  <2> QED BY <1>1, <1>2, <2>1 DEF Leaves, Write
<1>5. ~Live'
  BY <1>1 DEF Live
<1> QED BY <1>1, <1>3, <1>4, <1>5 DEF ParkInv, Inert, Alone

-----------------------------------------------------------------------------
LEMMA RunnerStepParks == ParkInv /\ RunnerStep => ParkInv'
<1> SUFFICES ASSUME ParkInv, RunnerStep PROVE ParkInv'
  OBVIOUS
<1>1. ASSUME turn PROVE Live
  BY <1>1 DEF ParkInv, Inert
<1>2. ASSUME NEW b \in dispatching PROVE Live
  BY DEF ParkInv, Inert
<1>3. CASE TurnRests
  <2>1. /\ pending' \subseteq Exec /\ turn' = FALSE /\ Live /\ Live'
        /\ UNCHANGED <<storeOps, record, kept, resume, loaded, life>>
    BY <1>1, <1>3 DEF TurnRests, waking, Live
  <2> QED BY <2>1, LiveStays DEF ParkInv
<1>4. CASE TurnEnds
  <2>1. /\ Live /\ Live' /\ turn' = FALSE
        /\ UNCHANGED <<pending, storeOps, record, kept, resume, loaded, life>>
    BY <1>1, <1>4 DEF TurnEnds, waking, Live
  <2> QED BY <2>1, LiveStays DEF ParkInv
<1>5. ASSUME NEW b \in dispatching, NEW e \in b.left, HandedOver(b, e)
      PROVE  ParkInv'
  <2>1. /\ Live /\ Live'
        /\ UNCHANGED <<turn, pending, storeOps, record, kept, resume, loaded, life>>
    BY <1>2, <1>5 DEF HandedOver, waking, Live
  <2> QED BY <2>1, LiveStays DEF ParkInv
<1>6. ASSUME NEW b \in dispatching, NEW e \in b.left, DispatchSettles(b, e)
      PROVE  ParkInv'
  <2>1. /\ Live /\ Fold(e, {}, Without(b, e)) /\ UNCHANGED <<record, kept, resume, loaded, client, life>>
    BY <1>2, <1>6 DEF DispatchSettles, waking
  <2> QED BY <2>1, FoldParks
<1>7. ASSUME NEW b \in dispatching, AnnounceParked(b)
      PROVE  ParkInv'
  <2>1. Live /\ UNCHANGED <<record, kept, resume, loaded, client, life>>
    BY <1>2, <1>7 DEF AnnounceParked, waking
  <2>2. CASE GoesDown(owners, timers, {})
    BY <2>1, <2>2, GoesDownParks
  <2>3. CASE UNCHANGED <<turn, pending, storeOps>> /\ Live'
    BY <2>1, <2>3, LiveStays DEF ParkInv
  <2>4. \/ GoesDown(owners, timers, {})
        \/ UNCHANGED <<turn, pending, storeOps>> /\ status' = "parked"
        \/ UNCHANGED <<turn, pending, storeOps, status>>
    BY <1>7 DEF AnnounceParked, StaysUp
  <2> QED BY <2>1, <2>2, <2>3, <2>4 DEF Live
<1>8. ASSUME NEW e \in Exec, BridgeAnswers(e)
      PROVE  ParkInv'
  <2>1. /\ e \in pending /\ Fold(e, {}, dispatching)
        /\ UNCHANGED <<record, kept, resume, loaded, client, life>>
    BY <1>8 DEF BridgeAnswers, waking
  <2>2. Live
    BY <2>1 DEF ParkInv, Inert
  <2> QED BY <2>1, <2>2, FoldParks
<1> QED BY <1>3, <1>4, <1>5, <1>6, <1>7, <1>8 DEF RunnerStep

(* An operation is worked off.                                             *)
LEMMA StoreStepParks == ParkInv /\ StoreStep => ParkInv'
<1> SUFFICES ASSUME ParkInv, StoreStep PROVE ParkInv'
  OBVIOUS
<1> DEFINE o == Head(storeOps)
           rest == Tail(storeOps)
<1>1. storeOps # <<>> /\ Chain(storeOps, resume)
  BY DEF StoreStep, ParkInv
<1>2. storeOps \in Seq([op : Op, pending : SUBSET Exec])
  BY <1>1 DEF Chain
<1>3. /\ o.op = "save" => o.pending # {}
      /\ o.op \in {"delete", "clear"} => o.pending = {}
      /\ o.op = "load" => resume = "loading"
      /\ o.op = "clear" => resume = "clearing"
      /\ o \in [op : Op, pending : SUBSET Exec]
      /\ Chain(rest, resume)
  BY <1>1, ChainTail
<1>4. ASSUME NEW t, o.op \in {"load", "clear"} PROVE Chain(rest, t)
  BY <1>1, <1>4, ChainTail DEF Awaits
<1>5. ASSUME Gone, storeOps' = rest,
             o.op = "save" => kept' = kept \/ kept' = FALSE,
             o.op \in {"delete", "clear"} => record' = {} \/ kept' = TRUE,
             o.op \in {"load", "lookup"} => UNCHANGED <<record, kept>>
      PROVE  Gone'
  <2>1. CASE Leaves(storeOps, record, {}) /\ ~(kept' /\ o.op \in {"delete", "clear"})
    <3>1. Write(o) /\ o.pending = {} => record' = {}
      BY <1>3, <1>5, <2>1 DEF Write
    <3>2. ~Write(o) => record' = record
      BY <1>3, <1>5 DEF Write, Op
    <3> HIDE DEF o, rest
    <3>3. o = Head(storeOps) /\ rest = Tail(storeOps)
      BY DEF o, rest
    <3>4. Leaves(rest, record', {})
      BY <1>1, <1>2, <2>1, <3>1, <3>2, <3>3, LeavesTail
    <3> QED BY <1>5, <3>4
  <2>2. CASE Leaves(storeOps, record, {}) /\ kept' /\ o.op \in {"delete", "clear"}
    <3> HIDE DEF o, rest
    <3>1. rest = Tail(storeOps)
      BY DEF rest
    <3>2. Leaves(rest, {}, {})
      BY <1>1, <1>2, <2>2, <3>1, LeavesTailLost
    <3> QED BY <1>5, <2>2, <3>2 DEF Leaves
  <2>3. CASE kept /\ \A n \in 1..Len(storeOps) : ~Write(storeOps[n])
    <3>1. /\ Len(rest) = Len(storeOps) - 1 /\ Len(storeOps) \in Nat /\ Len(storeOps) >= 1
          /\ o = storeOps[1]
          /\ \A n \in 1..Len(rest) : rest[n] = storeOps[n + 1]
      BY <1>1, <1>2
    <3> HIDE DEF o, rest
    <3>2. ~Write(o) /\ \A n \in 1..Len(rest) : ~Write(rest[n])
      BY <2>3, <3>1
    <3>3. kept' = kept
      BY <1>3, <1>5, <3>2 DEF Write, Op
    <3> QED BY <1>5, <2>3, <3>2, <3>3
  <2> QED BY <1>5, <2>1, <2>2, <2>3
<1> HIDE DEF o, rest
<1>6. CASE Saves(o, rest)
  <2>1. /\ o.op = "save" /\ storeOps' = rest
        /\ record' \in {record, o.pending} /\ (kept' = kept \/ kept' = FALSE)
        /\ UNCHANGED <<status, turn, pending, dispatching, owners, timers, resume, loaded,
                       detach, fresh, client, life>>
    BY <1>6 DEF Saves, runner, index, waking
  <2>2. Gone => Gone'
    BY <1>5, <2>1
  <2> QED BY <1>3, <2>1, <2>2 DEF ParkInv, Inert, Alone, Live
<1>7. CASE Removes(o, rest)
  <2>1. /\ o.op \in {"delete", "clear"} /\ storeOps' = rest
        /\ record' = {} \/ kept' = TRUE
        /\ record' \subseteq record
        /\ o.op = "clear" => resume' = "woken"
        /\ o.op = "delete" => resume' = resume
        /\ UNCHANGED <<status, turn, pending, dispatching, owners, timers, loaded,
                       detach, fresh, client, life>>
    BY <1>7 DEF Removes, runner, index
  <2>2. Gone => Gone'
    BY <1>5, <2>1
  <2>3. Chain(storeOps, resume)'
    BY <1>3, <1>4, <2>1
  <2> QED BY <2>1, <2>2, <2>3 DEF ParkInv, Inert, Alone, Live
<1>8. CASE Loads(o, rest)
  <2>1. /\ o.op = "load" /\ storeOps' = rest /\ record' = record /\ kept' = kept
        /\ resume' \in {"building", "idle"} /\ loaded' \in {record, loaded}
        /\ resume' = "idle" => loaded' = loaded
        /\ owners' \subseteq owners /\ timers' \subseteq timers
        /\ UNCHANGED <<status, turn, pending, dispatching, detach, fresh, client, life>>
    BY <1>8 DEF Loads, runner, index
  <2>2. Gone => Gone'
    BY <1>5, <2>1
  <2>3. Chain(storeOps, resume)'
    BY <1>4, <2>1
  <2>4. status = "none"
    BY <1>3, <2>1 DEF ParkInv, Alone
  <2>5. Inert' /\ Alone'
    BY <2>1, <2>2, <2>4 DEF ParkInv, Inert, Alone, Live
  <2>6. record \subseteq Exec
    BY DEF ParkInv
  <2> QED BY <2>1, <2>3, <2>5, <2>6 DEF ParkInv
<1>9. CASE LooksUp(o, rest)
  <2>1. o.op = "lookup" /\ UNCHANGED <<resume, loaded, record, kept>>
    BY <1>9 DEF LooksUp, waking
  <2>2. CASE EndsAs("none", rest)
    BY <1>3, <2>1, <2>2, EndsAsParks DEF ParkInv
  <2>3. CASE /\ storeOps' = rest
             /\ UNCHANGED <<runner, index, detach, fresh, client, life>>
    <3>1. Gone => Gone'
      BY <1>5, <2>1, <2>3
    <3> QED BY <1>3, <2>1, <2>3, <3>1 DEF ParkInv, Inert, Alone, Live, runner, index
  <2> QED BY <1>9, <2>2, <2>3 DEF LooksUp
<1> QED BY <1>6, <1>7, <1>8, <1>9 DEF StoreStep, o, rest

LEMMA ResumeStepParks == ParkInv /\ ResumeStep => ParkInv'
<1> SUFFICES ASSUME ParkInv, ResumeStep PROVE ParkInv'
  OBVIOUS
<1>1. CASE RebuildSucceeds
  <2> DEFINE o == StoreOp("clear", {})
  <2>1. /\ resume = "building" /\ status' = "parked" /\ turn' = FALSE /\ pending' = loaded
        /\ resume' = "clearing" /\ loaded' = {} /\ storeOps' = Append(storeOps, o)
        /\ life' # "ended" /\ UNCHANGED <<record, client>>
    BY <1>1 DEF RebuildSucceeds, Restored
  <2>2. o \in [op : Op, pending : SUBSET Exec] /\ o.op = "clear" /\ o.pending = {}
    BY DEF StoreOp, Op
  <2> HIDE DEF o
  <2>3. Chain(storeOps, resume) /\ storeOps \in Seq([op : Op, pending : SUBSET Exec])
    BY DEF ParkInv, Chain
  <2>4. Chain(storeOps, resume)'
    BY <2>1, <2>2, <2>3, ChainAppend
  <2>5. Gone'
    BY <2>1, <2>2, <2>3 DEF Leaves, Write
  <2> QED BY <2>1, <2>4, <2>5 DEF ParkInv, Inert, Alone, Live
<1>2. CASE RebuildFails
  BY <1>2 DEF RebuildFails, ParkInv, Inert, Alone, Live, Chain, runner, index
<1>3. ASSUME NEW e \in calls, WakesCall(e) PROVE ParkInv'
  <2>1. CASE Reaches(e)
    BY <1>3, <2>1, ReachesParks DEF WakesCall
  <2>2. CASE /\ timers' = timers \ {e}
             /\ UNCHANGED <<runner, owners, settled, storeOps, detach, fresh>>
    BY <1>3, <2>2 DEF WakesCall, ParkInv, Inert, Alone, Live, runner
  <2> QED BY <1>3, <2>1, <2>2 DEF WakesCall
<1>4. CASE WakesClient
  BY <1>4 DEF WakesClient, ParkInv, Inert, Alone, Live, runner, index
<1>5. CASE ResumeOver
  BY <1>5 DEF ResumeOver, ParkInv, Inert, Alone, Live, Chain, runner, index
<1> QED BY <1>1, <1>2, <1>3, <1>4, <1>5 DEF ResumeStep

LEMMA ClientStepParks == ParkInv /\ ClientStep => ParkInv'
<1> SUFFICES ASSUME ParkInv, ClientStep PROVE ParkInv'
  OBVIOUS
<1>1. CASE Attach
  <2>1. CASE /\ status # "none" /\ client' = IF Live THEN "live" ELSE "stale"
             /\ UNCHANGED <<resume, storeOps>>
    BY <1>1, <2>1 DEF Attach, ParkInv, Inert, Alone, Live, runner, index
  <2>2. CASE status = "none" /\ Joins /\ UNCHANGED client
    <3>1. /\ Chain(storeOps, resume)'
          /\ Gone => Gone'
      BY <1>1, <2>2, JoinsStep DEF Attach
    <3> QED BY <1>1, <2>2, <3>1 DEF Attach, ParkInv, Inert, Alone, Live, runner, index
  <2> QED BY <1>1, <2>1, <2>2 DEF Attach
<1>2. CASE Detach
  <2>1. detach' = (detach \/ (status = "parked" /\ ~closed)) /\ client' = "none"
    BY <1>2 DEF Detach
  <2>2. ~Live => ~detach'
    BY <2>1 DEF ParkInv, Inert, Live
  <2> QED BY <1>2, <2>1, <2>2 DEF Detach, ParkInv, Inert, Alone, Live, runner, index, waking
<1>3. CASE Message
  BY <1>3 DEF Message, ParkInv, Inert, Alone, Live, index, waking
<1>4. CASE Interrupt
  BY <1>4 DEF Interrupt, ParkInv, Inert, Alone, Live, index, waking
<1>5. CASE CloseSession
  <2>1. Live
    BY <1>5 DEF CloseSession, ParkInv, Inert
  <2>2. resume \notin {"loading", "building"}
    BY <2>1 DEF ParkInv, Alone, Live
  <2> QED BY <1>5, <2>2, EndsAsParks DEF CloseSession, ParkInv, waking
<1>6. CASE DeleteSession
  <2>1. CASE EndsAs("none", storeOps)
    BY <1>6, <2>1, EndsAsParks DEF DeleteSession, ParkInv, waking
  <2>2. CASE /\ storeOps' = Append(storeOps, StoreOp("lookup", {}))
             /\ UNCHANGED <<runner, index, detach, fresh, client, life>>
    <3> DEFINE o == StoreOp("lookup", {})
    <3>1. o \in [op : Op, pending : SUBSET Exec] /\ o.op = "lookup"
      BY DEF StoreOp, Op
    <3>2. storeOps' = Append(storeOps, o) /\ UNCHANGED <<record, kept, resume, loaded>>
      BY <1>6, <2>2 DEF DeleteSession, waking
    <3> HIDE DEF o
    <3>3. /\ Chain(storeOps, resume)'
          /\ Gone => Gone'
      BY <3>1, <3>2, Queued
    <3> QED BY <2>2, <3>2, <3>3 DEF ParkInv, Inert, Alone, Live, runner, index
  <2> QED BY <1>6, <2>1, <2>2 DEF DeleteSession
<1> QED BY <1>1, <1>2, <1>3, <1>4, <1>5, <1>6 DEF ClientStep

(* A run that ends while its session is parked, a shutdown, a crash.       *)
LEMMA EndsParks == ParkInv /\ (JobDiscards \/ Shutdown \/ Restart) => ParkInv'
<1> SUFFICES ASSUME ParkInv, JobDiscards \/ Shutdown \/ Restart PROVE ParkInv'
  OBVIOUS
<1>1. CASE JobDiscards
  <2> DEFINE o == StoreOp("delete", {})
  <2>1. o \in [op : Op, pending : SUBSET Exec] /\ o.op = "delete" /\ o.pending = {}
    BY DEF StoreOp, Op
  <2>2. /\ storeOps' = Append(storeOps, o) /\ UNCHANGED <<runner, record, kept, resume, loaded, client, fresh>>
        /\ owners' = {} /\ timers' = {} /\ ~detach' /\ life' = "ended" /\ status = "none"
    BY <1>1 DEF JobDiscards, ForgetsSession, waking
  <2> HIDE DEF o
  <2>3. Chain(storeOps, resume)' /\ Gone'
    BY <2>1, <2>2, Queued
  <2> QED BY <2>2, <2>3 DEF ParkInv, Inert, Alone, Live, runner
<1>2. CASE Shutdown
  <2>1. CASE Live /\ EndsAs("closed", storeOps)
    <3>1. resume \notin {"loading", "building"}
      BY <2>1 DEF ParkInv, Alone, Live
    <3> QED BY <1>2, <2>1, <3>1, EndsAsParks DEF Shutdown, ParkInv, waking
  <2>2. CASE /\ timers' = {} /\ detach' = FALSE
             /\ UNCHANGED <<runner, owners, settled, storeOps, fresh, client, life>>
    BY <1>2, <2>2 DEF Shutdown, ParkInv, Inert, Alone, Live, runner, waking
  <2> QED BY <1>2, <2>1, <2>2 DEF Shutdown
<1>3. CASE Restart
  <2>1. /\ storeOps' = <<>> /\ record' = record /\ status' = "none" /\ resume' = "idle"
        /\ loaded' = {} /\ pending' = {} /\ turn' = FALSE /\ dispatching' = {} /\ ~fresh'
        /\ client' = "none" /\ ~detach'
        /\ life' = "ended" => record = {} /\ owners' = {} /\ timers' = {}
    BY <1>3 DEF Restart, Hydrated
  <2>2. storeOps' \in Seq([op : Op, pending : SUBSET Exec]) /\ Len(storeOps') = 0
    BY <2>1
  <2>3. Chain(storeOps, resume)'
    BY <2>2 DEF Chain
  <2>4. record = {} => Gone'
    BY <2>1, <2>2 DEF Leaves
  <2> QED BY <2>1, <2>3, <2>4 DEF ParkInv, Inert, Alone, Live
<1> QED BY <1>1, <1>2, <1>3

LEMMA DetachTimerParks == ParkInv /\ DetachTimerFires => ParkInv'
<1> SUFFICES ASSUME ParkInv, DetachTimerFires PROVE ParkInv'
  OBVIOUS
<1>1. CASE GoesDown(owners, timers, {})
  BY <1>1, GoesDownParks DEF DetachTimerFires, waking
<1>2. CASE detach' = FALSE /\ UNCHANGED <<runner, index, storeOps, fresh>>
  BY <1>2 DEF DetachTimerFires, ParkInv, Inert, Alone, Live, runner, index, waking
<1> QED BY <1>1, <1>2 DEF DetachTimerFires

LEMMA ParkNextKeeps == ParkInv /\ [Next]_vars => ParkInv'
<1> SUFFICES ASSUME ParkInv, [Next]_vars PROVE ParkInv'
  OBVIOUS
<1>1. ASSUME NEW e \in Exec, Deliver(e) PROVE ParkInv'
  BY <1>1, SubmitParks DEF Deliver
<1>2. ASSUME NEW e \in Exec, WatchdogFires(e) PROVE ParkInv'
  <2>1. timers \ {e} \subseteq timers
    OBVIOUS
  <2> QED BY <1>2, <2>1, SubmitParks DEF WatchdogFires
<1>3. CASE UNCHANGED vars
  BY <1>3 DEF vars, runner, index, waking, ParkInv, Inert, Alone, Live
<1> QED BY <1>1, <1>2, <1>3, RunnerStepParks, StoreStepParks, ResumeStepParks, ClientStepParks,
           DetachTimerParks, EndsParks DEF Next

(* A session is in one place, whatever parks, wakes, deletes and crashes   *)
(* come in whatever order: while its runner is registered no snapshot stays*)
(* in the store but one that could not be removed, and no second runner is *)
(* built beside it; nothing is left of a session that has ended that could *)
(* begin another resume, one under way goes on (parking.ts #storeOps,      *)
(* #resuming, forgetSession).                                              *)
THEOREM InOnePlaceHolds == Spec => []InOnePlace
<1>1. ParkInv => InOnePlace
  BY InvInOnePlace
<1> QED BY <1>1, ParkInvInit, ParkNextKeeps, PTL DEF Spec

-----------------------------------------------------------------------------
LEMMA ForgottenNextKeeps == NobodyForgotten /\ [Next]_vars => NobodyForgotten'
<1> SUFFICES ASSUME NobodyForgotten, [Next]_vars PROVE NobodyForgotten'
  OBVIOUS
<1>1. CASE UNCHANGED waking
  BY <1>1 DEF NobodyForgotten, waking
<1>2. CASE Joins
  BY <1>2 DEF NobodyForgotten, Joins
<1>3. ASSUME NEW e, NEW left, Submit(e, left) PROVE NobodyForgotten'
  BY <1>1, <1>2, <1>3 DEF Submit, NobodyForgotten, Joins, waking
<1>4. CASE RunnerStep
  BY <1>1, <1>4 DEF RunnerStep, TurnRests, TurnEnds, HandedOver, DispatchSettles, AnnounceParked,
                    BridgeAnswers
<1>5. CASE StoreStep
  BY <1>1, <1>5 DEF StoreStep, Saves, Removes, Loads, LooksUp, NobodyForgotten, waking
<1>6. CASE ResumeStep
  BY <1>6 DEF ResumeStep, RebuildSucceeds, RebuildFails, WakesCall, WakesClient, ResumeOver,
              NobodyForgotten
<1>7. CASE ClientStep
  BY <1>1, <1>2, <1>7 DEF ClientStep, Attach, Detach, Message, Interrupt, CloseSession,
                          DeleteSession, NobodyForgotten
<1>8. CASE (\E e \in Exec : Deliver(e) \/ WatchdogFires(e))
  BY <1>3, <1>8 DEF Deliver, WatchdogFires
<1>9. CASE DetachTimerFires \/ JobDiscards \/ Shutdown
  BY <1>1, <1>9 DEF DetachTimerFires, JobDiscards, Shutdown
<1>10. CASE Restart
  BY <1>10 DEF Restart, NobodyForgotten
<1>11. CASE UNCHANGED vars
  BY <1>1, <1>11 DEF vars, waking
<1> QED BY <1>4, <1>5, <1>6, <1>7, <1>8, <1>9, <1>10, <1>11 DEF Next

(* Every delivery and every upgrade that waits for a resume has one under  *)
(* way (parking.ts ensureLive, whose callers share the promise of          *)
(* #resuming), also when the rebuild fails.                                *)
THEOREM NobodyForgottenHolds == Spec => []NobodyForgotten
<1>1. Init => NobodyForgotten
  BY DEF Init, NobodyForgotten
<1> QED BY <1>1, ForgottenNextKeeps, PTL DEF Spec

-----------------------------------------------------------------------------
(* Calls made one at a time, of a session nobody interrupts or deletes,    *)
(* over a store that answers before the model and the park delay, and fails*)
(* in nothing but a write.                                                 *)
SingleCall ==
  MaxBatch = 1 /\ ~IsJob /\ ~Interrupts /\ ~Deletes /\ PromptStore /\ ~AccessMayFail

One(S) == \A x, y \in S : x = y
Kept(S) == S \subseteq Deferred /\ S \subseteq used /\ One(S)

(* What the session holds is one call, of those that were made.            *)
Held ==
  /\ pending \subseteq used /\ One(pending)
  /\ Kept(record) /\ Kept(loaded)
  /\ used \subseteq Exec /\ settled \subseteq Deferred
  /\ owners \subseteq used \cap Deferred /\ calls \subseteq used /\ refused \subseteq used
  /\ \A n \in 1..Len(storeOps) : Kept(storeOps[n].pending)

(* A resume reads what the store will hold: nothing is written behind its  *)
(* load, and until its clear is done the runner it built stays.  A save    *)
(* meets an empty chain.                                                   *)
Resuming ==
  /\ \A m, n \in 1..Len(storeOps) : storeOps[m].op = "load" /\ m < n => ~Write(storeOps[n])
  /\ \A n \in 1..Len(storeOps) : /\ storeOps[n].op # "lookup"
                                 /\ storeOps[n].op = "save" => n = 1 /\ record = {}
  /\ resume = "building" => /\ \A n \in 1..Len(storeOps) : ~Write(storeOps[n])
                            /\ record = loaded /\ loaded # {}
  /\ resume \in {"clearing", "woken"} => dispatching = {} /\ (fresh \/ life = "ended")
  /\ resume = "clearing" => \E n \in 1..Len(storeOps) : storeOps[n].op = "clear"
  /\ dispatching # {} => storeOps = <<>>

(* The index holds what the session waits for.                             *)
Indexed ==
  /\ life \in {"open", "ended"}
  /\ turn => status = "running"
  /\ turn \/ status = "idle" => pending = {}
  /\ Live => owners = pending \cap Deferred
  /\ status = "none" /\ life = "open" => Stored \subseteq owners /\ One(owners)
  /\ life = "open" /\ ~closed /\ ~RebuildMayFail =>
       Open \cap Deferred \cap Deadlined \subseteq timers \cup calls
  /\ RefusedWasSettled
  /\ Leaves(storeOps, record, Stored)

SingleInv == Held /\ Resuming /\ Indexed
Parked == ParkInv /\ SingleInv /\ TimersAreOwned /\ NobodyForgotten /\ ~kept

(* A step the abstract specification allows, or does not see.              *)
Simulated == [Promise!Next]_<<used, Open, applied, crashes>>

LEMMA Stutters ==
  ASSUME UNCHANGED <<used, applied, crashes>>, Open' = Open
  PROVE  Simulated
BY DEF Simulated

LEMMA GivesUp ==
  ASSUME UNCHANGED <<used, applied, crashes>>, Open' \subseteq Open, Open \subseteq Exec
  PROVE  Simulated
<1>1. Promise!GiveUp(Open \ Open')
  BY DEF Promise!GiveUp
<1>2. Open \ Open' \in SUBSET Exec
  OBVIOUS
<1> QED BY <1>1, <1>2 DEF Simulated, Promise!Next

LEMMA StoredStays ==
  ASSUME UNCHANGED <<storeOps, record>>
  PROVE  Stored' = Stored /\ (Leaves(storeOps, record, Stored) => Leaves(storeOps, record, Stored)')
<1>1. Stored = LeftOf(storeOps, record) /\ Stored' = LeftOf(storeOps', record')
  BY DEF Stored, LeftOf
<1> QED BY <1>1

LEMMA StoredBecomes ==
  ASSUME storeOps' \in Seq([op : Op, pending : SUBSET Exec]), NEW s,
         Leaves(storeOps', record', s)
  PROVE  Stored' = s /\ Leaves(storeOps, record, Stored)'
<1>1. Stored' = LeftOf(storeOps', record')
  BY DEF Stored, LeftOf
<1>2. LeftOf(storeOps', record') = s
  BY StoredIsLeft
<1> QED BY <1>1, <1>2

LEMMA StoredIs ==
  ASSUME ParkInv, NEW s, Leaves(storeOps, record, s)
  PROVE  Stored = s
<1>1. Stored = LeftOf(storeOps, record)
  BY DEF Stored, LeftOf
<1>2. LeftOf(storeOps, record) = s
  BY StoredIsLeft DEF ParkInv, Chain
<1> QED BY <1>1, <1>2

(* What is waited for is indexed, and nothing is once the session ended.   *)
LEMMA OpenIsIndexed ==
  ASSUME Parked
  PROVE  /\ Live => Open = pending /\ life = "open"
         /\ life = "ended" => Open = {}
         /\ status = "closed" => Open = {}
         /\ Open \cap Deferred \subseteq owners
         /\ Open \subseteq used
<1>1. Live => life = "open" /\ Open = pending
  BY DEF Parked, ParkInv, SingleInv, Indexed, Alone, Open, Live
<1>2. CASE status = "none" /\ life = "ended"
  <2>1. Stored = {}
    BY <1>2, StoredIs DEF Parked, ParkInv, Alone
  <2> QED BY <1>2, <2>1 DEF Open, Live
<1>3. CASE ~Live /\ status # "none"
  BY <1>3 DEF Parked, ParkInv, Inert, Open
<1>4. CASE status = "none" /\ life = "open"
  <2>1. Stored \subseteq owners
    BY <1>4 DEF Parked, SingleInv, Indexed
  <2> QED BY <1>4, <2>1 DEF Open, Live, Parked, SingleInv, Held
<1>5. CASE Live
  <2>1. pending \subseteq used /\ owners = pending \cap Deferred
    BY <1>5 DEF Parked, SingleInv, Held, Indexed
  <2> QED BY <1>1, <1>5, <2>1 DEF Live
<1> QED BY <1>1, <1>2, <1>3, <1>4, <1>5 DEF Parked, SingleInv, Indexed, Live

(* A step of the registered runner, the chain as it was.                   *)
LEMMA LiveSingle ==
  ASSUME Parked, Live, Live',
         UNCHANGED <<storeOps, record, resume, loaded, life, fresh>>,
         pending' \subseteq used', One(pending'), used \subseteq used', used' \subseteq Exec,
         settled' \subseteq Deferred, owners' = pending' \cap Deferred,
         dispatching' # {} => storeOps = <<>>,
         dispatching = {} /\ resume \in {"clearing", "woken"} => dispatching' = {},
         calls' \subseteq calls, refused' \subseteq used',
         (refused' \ applied') \cap pending' = {},
         turn' => status' = "running",
         turn' \/ status' = "idle" => pending' = {},
         ~closed' /\ ~RebuildMayFail =>
           pending' \cap Deferred \cap Deadlined \subseteq timers' \cup calls'
  PROVE  SingleInv'
<1>1. Stored' = Stored /\ Leaves(storeOps, record, Stored)'
  BY StoredStays DEF Parked, SingleInv, Indexed
<1>2. Open' = pending' /\ status' # "none" /\ Open = pending
  BY DEF Open, Live
<1>3. Held'
  BY DEF Parked, SingleInv, Held, Kept
<1>4. Resuming'
  BY DEF Parked, SingleInv, Resuming
<1>5. Indexed'
  BY <1>1, <1>2 DEF Parked, SingleInv, Indexed, RefusedWasSettled
<1> QED BY <1>3, <1>4, <1>5 DEF SingleInv

(* A session goes down for the call it waits for.                          *)
LEMMA GoesDownSingle ==
  ASSUME Parked, SingleCall, ParkInv', NEW own, NEW armed, NEW after, GoesDown(own, armed, after),
         own \subseteq owners, armed \subseteq timers, armed \cap pending = timers \cap pending,
         after \cap pending = {}, storeOps = <<>>, resume \notin {"clearing", "woken"},
         UNCHANGED <<used, record, resume, loaded, life, closed, calls, applied, refused, crashes>>,
         settled' \subseteq Deferred
  PROVE  SingleInv' /\ Simulated
<1> DEFINE o == StoreOp("save", pending)
<1>1. /\ storeOps' = <<o>> /\ pending # {} /\ pending \subseteq Deferred /\ ~turn
      /\ status' = "none" /\ pending' = {} /\ dispatching' = {} /\ turn' = turn
      /\ fresh' = FALSE
      /\ owners' = (own \cup pending) \ after
      /\ timers' = (armed \cup (pending \cap Deadlined)) \ after
  BY DEF GoesDown, GoesInert, MayPark, AtRest
<1>2. o.op = "save" /\ o.pending = pending
  BY DEF StoreOp
<1> HIDE DEF o
<1>3. Live /\ life = "open" /\ Open = pending /\ owners = pending
  <2>1. Live
    BY <1>1 DEF Parked, ParkInv, Inert
  <2> QED BY <1>1, <2>1, OpenIsIndexed DEF Parked, SingleInv, Indexed
<1>4. owners' = pending
  BY <1>1, <1>3
<1>5. Len(storeOps') = 1 /\ storeOps'[1] = o /\ \A n \in 1..Len(storeOps') : n = 1
  BY <1>1
<1>6. record = {}
  <2>1. Leaves(storeOps, record, {})
    BY <1>3 DEF Parked, ParkInv, Alone
  <2>2. Len(storeOps) = 0
    OBVIOUS
  <2> QED BY <2>1, <2>2 DEF Leaves
<1>7. Leaves(storeOps', record', pending)
  BY <1>2, <1>5 DEF Leaves, Write
<1>8. Stored' = pending /\ Leaves(storeOps, record, Stored)'
  BY <1>7, StoredBecomes DEF ParkInv, Chain
<1>9. Open' = pending
  BY <1>1, <1>8 DEF Open
<1>10. Held'
  BY <1>1, <1>2, <1>4, <1>5 DEF Parked, SingleInv, Held, Kept, One
<1>11. Resuming'
  BY <1>1, <1>2, <1>3, <1>5, <1>6 DEF Parked, ParkInv, Alone, SingleInv, Resuming, Live
<1>12. Indexed'
  <2>1. One(owners')
    BY <1>4 DEF Parked, SingleInv, Held
  <2>2. ~closed' => Open' \cap Deferred \cap Deadlined \subseteq timers' \cup calls'
    BY <1>1, <1>9
  <2>3. RefusedWasSettled'
    BY <1>3, <1>9 DEF Parked, SingleInv, Indexed, RefusedWasSettled
  <2>4. ~Live'
    BY <1>1 DEF Live
  <2> QED BY <1>1, <1>3, <1>4, <1>8, <2>1, <2>2, <2>3, <2>4 DEF Indexed
<1>13. Simulated
  BY <1>3, <1>9, Stutters
<1> QED BY <1>10, <1>11, <1>12, <1>13 DEF SingleInv

(* The answer of one call, on the runner it was made by.                   *)
LEMMA FoldSingle ==
  ASSUME Parked, SingleCall, ParkInv', NEW e, NEW after, NEW batches, Live,
         Fold(e, after, batches), after \subseteq {e},
         \/ e \in pending /\ batches = dispatching
         \/ storeOps = <<>> /\ resume \notin {"clearing", "woken"},
         UNCHANGED <<used, record, resume, loaded, life, closed, refused, crashes>>,
         calls \ {e} \subseteq calls', calls' \subseteq calls,
         e \notin pending => calls' = calls,
         applied' = applied \/ (e \in pending /\ applied' = applied \cup {e})
  PROVE  SingleInv' /\ Simulated
<1>0. /\ owners = pending \cap Deferred /\ pending \subseteq used /\ One(pending)
      /\ life = "open" /\ Open = pending /\ used \subseteq Exec /\ settled \subseteq Deferred
  BY OpenIsIndexed DEF Parked, SingleInv, Held, Indexed
<1>1. CASE PutsDownAgain(e, after)
  <2>1. /\ GoesDown(owners \ {e}, timers \ {e}, after) /\ settled' = settled \cup ({e} \cap owners)
        /\ owners \ {e} # {} /\ status = "parked"
    BY <1>1 DEF PutsDownAgain, GoesDown, MayPark
  <2>2. e \notin pending
    BY <1>0, <2>1 DEF One
  <2>3. /\ owners \ {e} \subseteq owners /\ timers \ {e} \subseteq timers
        /\ (timers \ {e}) \cap pending = timers \cap pending
        /\ after \cap pending = {} /\ settled' \subseteq Deferred
    BY <1>0, <2>1, <2>2
  <2>4. /\ storeOps = <<>> /\ resume \notin {"clearing", "woken"}
        /\ applied' = applied /\ calls' = calls
    BY <2>2
  <2> QED BY <2>1, <2>3, <2>4, GoesDownSingle
<1>2. CASE Forgets(e) /\ Settles(e) /\ dispatching' = batches /\ UNCHANGED <<storeOps, fresh>>
  <2>1. /\ owners' = owners \ {e} /\ timers' = timers \ {e} /\ pending' = pending \ {e}
        /\ settled' = settled \cup ({e} \cap owners)
        /\ \/ pending = {e} /\ status' = "running" /\ turn' = TRUE
           \/ pending # {e} /\ UNCHANGED <<status, turn>>
    BY <1>2 DEF Forgets, Settles
  <2>2. Live' /\ Open' = pending'
    BY <2>1 DEF Live, Open
  <2>3. /\ turn' => status' = "running"
        /\ turn' \/ status' = "idle" => pending' = {}
    BY <2>1 DEF Parked, SingleInv, Indexed
  <2>4. /\ dispatching' # {} => storeOps = <<>>
        /\ dispatching = {} /\ resume \in {"clearing", "woken"} => dispatching' = {}
    BY <1>2 DEF Parked, SingleInv, Resuming
  <2>5. ~closed' /\ ~RebuildMayFail =>
          pending' \cap Deferred \cap Deadlined \subseteq timers' \cup calls'
    <3>1. ~closed /\ ~RebuildMayFail => pending \cap Deferred \cap Deadlined \subseteq timers \cup calls
      BY <1>0 DEF Parked, SingleInv, Indexed
    <3> QED BY <2>1, <3>1
  <2>6. (refused' \ applied') \cap pending' = {}
    BY <1>0, <2>1 DEF Parked, SingleInv, Indexed, RefusedWasSettled
  <2>7. /\ pending' \subseteq used' /\ One(pending') /\ used' \subseteq Exec /\ settled' \subseteq Deferred
        /\ owners' = pending' \cap Deferred /\ refused' \subseteq used'
    BY <1>0, <2>1 DEF Parked, SingleInv, Held, One
  <2>8. SingleInv'
    <3>1. UNCHANGED <<storeOps, record, resume, loaded, life, fresh>> /\ used \subseteq used'
      BY <1>2
    <3> QED BY <2>2, <2>3, <2>4, <2>5, <2>6, <2>7, <3>1, LiveSingle
  <2>9. CASE applied' = applied
    <3>1. Open' \subseteq Open /\ Open \subseteq Exec
      BY <1>0, <2>1, <2>2
    <3> QED BY <2>8, <2>9, <3>1, GivesUp
  <2>10. CASE e \in pending /\ applied' = applied \cup {e}
    <3>1. Promise!Accept(e) /\ e \in Exec
      BY <1>0, <2>1, <2>2, <2>10 DEF Promise!Accept
    <3> QED BY <2>8, <3>1 DEF Simulated, Promise!Next
  <2> QED BY <2>9, <2>10
<1> QED BY <1>1, <1>2 DEF Fold

(* settleExecution of a runner that is registered.                         *)
LEMMA ReachesSingle ==
  ASSUME Parked, SingleCall, ParkInv', NEW e \in used, status # "none", Reaches(e),
         UNCHANGED <<used, record, resume, loaded, life, closed, crashes>>,
         calls \ {e} \subseteq calls', calls' \subseteq calls
  PROVE  SingleInv' /\ Simulated
<1>1. CASE /\ e \in pending /\ Fold(e, {e}, dispatching) /\ applied' = applied \cup {e}
           /\ UNCHANGED refused
  <2>1. Live
    BY <1>1 DEF Parked, ParkInv, Inert
  <2> QED BY <1>1, <2>1, FoldSingle
<1>2. CASE /\ e \notin pending /\ timers' = timers \ {e} /\ refused' = refused \cup {e}
           /\ UNCHANGED <<runner, owners, settled, storeOps, detach, fresh, applied>>
  <2>1. Stored' = Stored /\ Leaves(storeOps, record, Stored)'
    BY <1>2, StoredStays DEF Parked, SingleInv, Indexed
  <2>2. Open = pending /\ Open' = Open
    BY <1>2 DEF Open, runner
  <2>3. Simulated
    BY <1>2, <2>2, Stutters
  <2>4. Held' /\ Resuming'
    BY <1>2 DEF Parked, SingleInv, Held, Kept, Resuming, runner
  <2>5. RefusedWasSettled'
    BY <1>2, <2>2 DEF Parked, SingleInv, Indexed, RefusedWasSettled
  <2>6. life' = "open" /\ ~closed' /\ ~RebuildMayFail =>
          Open' \cap Deferred \cap Deadlined \subseteq timers' \cup calls'
    <3>1. life' = "open" /\ ~closed' /\ ~RebuildMayFail =>
            Open \cap Deferred \cap Deadlined \subseteq timers \cup calls
      BY DEF Parked, SingleInv, Indexed
    <3> QED BY <1>2, <2>2, <3>1
  <2>7. Indexed'
    BY <1>2, <2>1, <2>5, <2>6 DEF Parked, SingleInv, Indexed, Live, runner
  <2> QED BY <2>3, <2>4, <2>7 DEF SingleInv
<1> QED BY <1>1, <1>2 DEF Reaches

(* A resume is joined or begun.                                            *)
LEMMA JoinsSingle ==
  ASSUME Parked, ParkInv', status = "none", Joins,
         UNCHANGED <<runner, used, owners, settled, fresh, loaded, closed, record, life, crashes,
                     applied, refused>>,
         calls \subseteq calls', calls' \subseteq used, timers \subseteq timers' \cup calls'
  PROVE  SingleInv' /\ Simulated
<1> DEFINE o == StoreOp("load", {})
<1>0. o.op = "load" /\ o.pending = {}
  BY DEF StoreOp
<1>1. ParkInv /\ Held /\ Resuming /\ Indexed
  BY DEF Parked, SingleInv
<1>2. storeOps \in Seq([op : Op, pending : SUBSET Exec])
      /\ storeOps' \in Seq([op : Op, pending : SUBSET Exec])
  BY <1>1 DEF ParkInv, Chain
<1>3. \/ UNCHANGED <<resume, storeOps>>
      \/ /\ resume = "idle" /\ resume' = "loading" /\ storeOps' = Append(storeOps, o)
         /\ Len(storeOps') = Len(storeOps) + 1 /\ Len(storeOps) \in Nat
         /\ storeOps'[Len(storeOps')] = o
         /\ \A n \in 1..Len(storeOps) : storeOps'[n] = storeOps[n]
  BY <1>2 DEF Joins
<1> HIDE DEF o
<1>4. Leaves(storeOps', record', Stored)
  <2>1. CASE storeOps' = storeOps
    BY <1>1, <2>1 DEF Indexed
  <2>2. CASE storeOps' # storeOps
    BY <1>0, <1>1, <1>3, <2>2 DEF Indexed, Leaves, Write
  <2> QED BY <2>1, <2>2
<1>5. Stored' = Stored /\ Leaves(storeOps, record, Stored)'
  BY <1>2, <1>4, StoredBecomes
<1>6. Open' = Open
  BY <1>5 DEF Open, runner
<1>7. Held'
  BY <1>0, <1>1, <1>3 DEF Held, Kept, One, runner
<1>8. Resuming'
  <2>1. CASE UNCHANGED <<resume, storeOps>>
    BY <1>1, <2>1 DEF Resuming, runner
  <2>2. CASE ~UNCHANGED <<resume, storeOps>>
    <3>1. dispatching = {}
      BY <1>1 DEF ParkInv, Inert, Live
    <3>2. \A n \in 1..Len(storeOps) : storeOps[n].op # "load"
      BY <1>1, <1>3, <2>2 DEF ParkInv, Chain
    <3>3. \A n \in 1..Len(storeOps') : n = Len(storeOps') \/ n \in 1..Len(storeOps)
      BY <1>3, <2>2
    <3>4. \A m, n \in 1..Len(storeOps') : storeOps'[m].op = "load" /\ m < n => ~Write(storeOps'[n])
      BY <1>3, <2>2, <3>2, <3>3
    <3>5. \A n \in 1..Len(storeOps') : /\ storeOps'[n].op # "lookup"
                                       /\ storeOps'[n].op = "save" => n = 1 /\ record = {}
      BY <1>0, <1>1, <1>3, <2>2, <3>3 DEF Resuming
    <3> QED BY <1>3, <2>2, <3>1, <3>4, <3>5 DEF Resuming, runner
  <2> QED BY <2>1, <2>2
<1>9. Indexed'
  BY <1>1, <1>5, <1>6 DEF Indexed, RefusedWasSettled, Live, runner
<1>10. Simulated
  BY <1>6, Stutters
<1> QED BY <1>7, <1>8, <1>9, <1>10 DEF SingleInv

LEMMA SubmitSingle ==
  ASSUME Parked, SingleCall, ParkInv', NEW e \in used, NEW left, timers \ {e} \subseteq left, Submit(e, left),
         UNCHANGED <<used, closed, record, life, crashes>>
  PROVE  SingleInv' /\ Simulated
<1>1. CASE /\ e \notin owners /\ refused' = refused \cup ({e} \cap settled)
           /\ UNCHANGED <<runner, index, storeOps, waking, detach, fresh, applied>>
  <2>1. Stored' = Stored /\ Leaves(storeOps, record, Stored)'
    BY <1>1, StoredStays DEF Parked, SingleInv, Indexed
  <2>2. Open' = Open
    BY <1>1, <2>1 DEF Open, runner
  <2>3. Simulated
    BY <1>1, <2>2, Stutters
  <2>4. Held' /\ Resuming'
    BY <1>1 DEF Parked, SingleInv, Held, Kept, Resuming, runner, index, waking
  <2>5. RefusedWasSettled'
    <3>1. settled \subseteq Deferred /\ Open \cap Deferred \subseteq owners
      BY OpenIsIndexed DEF Parked, SingleInv, Held
    <3> QED BY <1>1, <2>2, <3>1 DEF Parked, SingleInv, Indexed, RefusedWasSettled
  <2>6. Indexed'
    BY <1>1, <2>1, <2>2, <2>5 DEF Parked, SingleInv, Indexed, Live, runner, index, waking
  <2> QED BY <2>3, <2>4, <2>6 DEF SingleInv
<1>2. CASE status # "none" /\ Reaches(e) /\ UNCHANGED waking
  BY <1>2, ReachesSingle DEF waking
<1>3. CASE /\ status = "none" /\ e \in owners /\ calls' = calls \cup {e} /\ timers' = left /\ Joins
           /\ UNCHANGED <<runner, owners, settled, loaded, knock, detach, fresh, answers>>
  <2>1. calls' \subseteq used
    BY <1>3 DEF Parked, SingleInv, Held
  <2>2. timers \subseteq timers' \cup calls' /\ UNCHANGED <<applied, refused>>
    BY <1>3 DEF answers
  <2> QED BY <1>3, <2>1, <2>2, JoinsSingle
<1> QED BY <1>1, <1>2, <1>3 DEF Submit

(* The session ends with its runner.                                       *)
LEMMA EndsAsSingle ==
  ASSUME Parked, ParkInv', Live, EndsAs("closed", storeOps),
         UNCHANGED <<used, resume, loaded, calls, record, crashes, applied, refused>>
  PROVE  SingleInv' /\ Simulated
<1> DEFINE o == StoreOp("delete", {})
<1>0. o.op = "delete" /\ o.pending = {}
  BY DEF StoreOp
<1>1. ParkInv /\ Held /\ Resuming /\ Indexed
  BY DEF Parked, SingleInv
<1>2. /\ storeOps' = Append(storeOps, o) /\ pending' = {} /\ dispatching' = {} /\ turn' = FALSE
      /\ status' = "closed" /\ owners' = {} /\ settled' = {} /\ life' = "ended"
  BY DEF EndsAs, ForgetsSession
<1>3. storeOps \in Seq([op : Op, pending : SUBSET Exec])
      /\ storeOps' \in Seq([op : Op, pending : SUBSET Exec])
  BY <1>1 DEF ParkInv, Chain
<1>4. /\ Len(storeOps') = Len(storeOps) + 1 /\ Len(storeOps) \in Nat
      /\ storeOps'[Len(storeOps')] = o
      /\ \A n \in 1..Len(storeOps) : storeOps'[n] = storeOps[n]
      /\ \A n \in 1..Len(storeOps') : n = Len(storeOps') \/ n \in 1..Len(storeOps)
  BY <1>2, <1>3
<1> HIDE DEF o
<1>5. Leaves(storeOps', record', {})
  BY <1>0, <1>4 DEF Leaves, Write
<1>6. Stored' = {} /\ Leaves(storeOps, record, Stored)'
  BY <1>3, <1>5, StoredBecomes
<1>7. Open' = {} /\ Open \subseteq used /\ used \subseteq Exec
  BY <1>1, <1>2, OpenIsIndexed DEF Open, Held
<1>8. Held'
  BY <1>0, <1>1, <1>2, <1>4 DEF Held, Kept, One
<1>9. Resuming'
  <2>1. resume \notin {"loading", "building"}
    BY <1>1 DEF ParkInv, Alone, Live
  <2>2. \A n \in 1..Len(storeOps) : storeOps[n].op # "load"
    BY <1>1, <2>1 DEF ParkInv, Chain
  <2>3. \A m, n \in 1..Len(storeOps') : storeOps'[m].op = "load" /\ m < n => ~Write(storeOps'[n])
    BY <1>0, <1>4, <2>2
  <2>4. \A n \in 1..Len(storeOps') : /\ storeOps'[n].op # "lookup"
                                     /\ storeOps'[n].op = "save" => n = 1 /\ record = {}
    BY <1>0, <1>1, <1>4 DEF Resuming
  <2>5. resume = "clearing" => \E n \in 1..Len(storeOps') : storeOps'[n].op = "clear"
    <3> SUFFICES ASSUME resume = "clearing"
                 PROVE  \E n \in 1..Len(storeOps') : storeOps'[n].op = "clear"
      OBVIOUS
    <3>1. PICK n \in 1..Len(storeOps) : storeOps[n].op = "clear"
      BY <1>1 DEF Resuming
    <3>2. n \in 1..Len(storeOps') /\ storeOps'[n] = storeOps[n]
      BY <1>4
    <3> QED BY <3>1, <3>2
  <2> QED BY <1>2, <2>1, <2>3, <2>4, <2>5 DEF Resuming
<1>10. Indexed'
  BY <1>2, <1>6, <1>7 DEF Indexed, RefusedWasSettled, Live
<1>11. Simulated
  BY <1>7, GivesUp
<1> QED BY <1>8, <1>9, <1>10, <1>11 DEF SingleInv

LEMMA RunnerStepSingle ==
  ASSUME Parked, SingleCall, ParkInv', RunnerStep
  PROVE  SingleInv' /\ Simulated
<1>0. ParkInv /\ Held /\ Resuming /\ Indexed
  BY DEF Parked, SingleInv
<1>1. Live => /\ life = "open" /\ Open = pending /\ owners = pending \cap Deferred
              /\ resume \notin {"loading", "building"}
  BY <1>0, OpenIsIndexed DEF ParkInv, Alone, Indexed, Live
<1>2. turn => Live
  BY <1>0 DEF ParkInv, Inert
<1>3. \A b \in dispatching : Live
  BY <1>0 DEF ParkInv, Inert
<1>4. dispatching # {} => storeOps = <<>> /\ resume \notin {"clearing", "woken"}
  BY <1>0 DEF Resuming
<1>5. CASE TurnRests
  <2>1. PICK batch \in SUBSET (Exec \ used) :
          /\ batch # {} /\ Cardinality(batch) <= MaxBatch
          /\ pending' = batch
          /\ used' = used \cup batch
          /\ dispatching' = dispatching \cup {[calls |-> batch, left |-> batch]}
          /\ Tracks(batch \cap Deferred)
    BY <1>5 DEF TurnRests
  <2>2. /\ turn /\ turn' = FALSE /\ StoreIsDone /\ Macrotask
        /\ UNCHANGED <<status, settled, closed, storeOps, resume, loaded, calls, fresh, record,
                       life, crashes, applied, refused>>
    BY <1>5 DEF TurnRests, waking, answers
  <2>3. Live /\ pending = {} /\ Open = {} /\ owners = {}
    BY <1>0, <1>1, <1>2, <2>2 DEF Indexed
  <2>4. One(batch)
    <3>1. IsFiniteSet(batch)
      BY FS_Subset, ParkingAssumption
    <3>2. Cardinality(batch) = 1
      <4>1. Cardinality(batch) \in Nat /\ (Cardinality(batch) = 0 <=> batch = {})
        BY <3>1, FS_CardinalityType, FS_EmptySet
      <4> QED BY <2>1, <4>1 DEF SingleCall
    <3>3. \E x : batch = {x}
      BY <3>1, <3>2, FS_Singleton
    <3> QED BY <3>3 DEF One
  <2>5. storeOps = <<>> /\ resume \notin {"clearing", "woken"}
    <3>1. storeOps = <<>>
      BY <2>2 DEF StoreIsDone, SingleCall
    <3>2. Len(storeOps) = 0
      BY <3>1
    <3>3. resume # "clearing"
      BY <1>0, <3>2 DEF Resuming
    <3> QED BY <2>2, <3>1, <3>3 DEF Macrotask
  <2>6. /\ owners' = batch \cap Deferred
        /\ timers' = timers \cup ((batch \cap Deferred) \cap Deadlined)
    BY <2>1, <2>3 DEF Tracks
  <2>7. status' # "idle" /\ Live'
    BY <1>0, <2>2, <2>3 DEF Indexed, Live
  <2>8. (refused' \ applied') \cap pending' = {}
    BY <1>0, <2>1, <2>2 DEF Held
  <2>9. SingleInv'
    BY <1>0, <2>1, <2>2, <2>3, <2>4, <2>5, <2>6, <2>7, <2>8, LiveSingle DEF Held
  <2>10. Promise!Ask(batch)
    <3>1. Open' = batch
      BY <2>1, <2>7 DEF Open, Live
    <3> QED BY <2>1, <2>2, <2>3, <3>1 DEF Promise!Ask
  <2>11. batch \in SUBSET Exec
    OBVIOUS
  <2> QED BY <2>9, <2>10, <2>11 DEF Simulated, Promise!Next
<1>6. CASE TurnEnds
  <2>1. /\ turn /\ turn' = FALSE /\ status' = "idle"
        /\ UNCHANGED <<pending, dispatching, used, owners, settled, timers, closed, storeOps, resume,
                       loaded, calls, fresh, record, life, crashes, applied, refused>>
    BY <1>6 DEF TurnEnds, index, waking, answers
  <2>2. Live /\ Live' /\ pending = {}
    BY <1>0, <1>2, <2>1 DEF Indexed, Live
  <2>3. SingleInv'
    BY <1>0, <1>1, <2>1, <2>2, LiveSingle DEF Held, Resuming
  <2>4. Open' = Open
    BY <2>1, <2>2 DEF Open, Live
  <2> QED BY <2>1, <2>3, <2>4, Stutters
<1>7. ASSUME NEW b \in dispatching, NEW e \in b.left, HandedOver(b, e)
      PROVE  SingleInv' /\ Simulated
  <2>1. UNCHANGED <<status, turn, pending, used, owners, settled, timers, closed, storeOps, resume,
                    loaded, calls, fresh, record, life, crashes, applied, refused>>
    BY <1>7 DEF HandedOver, index, waking, answers
  <2>2. Live /\ Live' /\ storeOps = <<>> /\ resume \notin {"clearing", "woken"}
    BY <1>3, <1>4, <1>7, <2>1 DEF Live
  <2>3. Open' = Open
    BY <2>1, <2>2 DEF Open, Live
  <2>4. SingleInv'
    <3>1. ~closed' /\ ~RebuildMayFail => pending' \cap Deferred \cap Deadlined \subseteq timers' \cup calls'
      BY <1>0, <1>1, <2>1, <2>2 DEF Indexed
    <3>2. (refused' \ applied') \cap pending' = {}
      BY <1>0, <1>1, <2>1, <2>2 DEF Indexed, RefusedWasSettled
    <3>3. turn' => status' = "running"
      BY <1>0, <2>1 DEF Indexed
    <3>4. turn' \/ status' = "idle" => pending' = {}
      BY <1>0, <2>1 DEF Indexed
    <3> QED BY <1>0, <1>1, <2>1, <2>2, <3>1, <3>2, <3>3, <3>4, LiveSingle DEF Held
  <2> QED BY <2>1, <2>3, <2>4, Stutters
<1>8. ASSUME NEW b \in dispatching, NEW e \in b.left, DispatchSettles(b, e)
      PROVE  SingleInv' /\ Simulated
  <2>1. /\ Live /\ Fold(e, {}, Without(b, e)) /\ storeOps = <<>> /\ resume \notin {"clearing", "woken"}
        /\ UNCHANGED <<used, closed, resume, loaded, calls, record, life, crashes, applied, refused>>
    BY <1>3, <1>4, <1>8 DEF DispatchSettles, waking, answers
  <2> QED BY <2>1, FoldSingle
<1>9. ASSUME NEW b \in dispatching, AnnounceParked(b)
      PROVE  SingleInv' /\ Simulated
  <2>1. /\ Live /\ storeOps = <<>> /\ resume \notin {"clearing", "woken"}
        /\ UNCHANGED <<used, closed, resume, loaded, calls, record, client, life, crashes, applied, refused>>
    BY <1>3, <1>4, <1>9 DEF AnnounceParked, waking, answers
  <2>2. CASE GoesDown(owners, timers, {}) /\ UNCHANGED settled
    <3>1. /\ owners \subseteq owners /\ timers \subseteq timers /\ {} \cap pending = {}
          /\ settled' \subseteq Deferred
      BY <1>0, <2>2 DEF Held
    <3> QED BY <2>1, <2>2, <3>1, GoesDownSingle
  <2>3. CASE /\ UNCHANGED <<turn, pending, index, storeOps, fresh>>
             /\ dispatching' = dispatching \ {b}
             /\ status' = status \/ (status' = "parked" /\ ~turn)
    <3>1. Live' /\ Open' = Open
      BY <2>1, <2>3 DEF Live, Open
    <3>2. ~closed' /\ ~RebuildMayFail => pending' \cap Deferred \cap Deadlined \subseteq timers' \cup calls'
      BY <1>0, <1>1, <2>1, <2>3 DEF Indexed, index
    <3>3. (refused' \ applied') \cap pending' = {}
      BY <1>0, <1>1, <2>1, <2>3 DEF Indexed, RefusedWasSettled
    <3>4. turn' => status' = "running"
      BY <1>0, <2>3 DEF Indexed
    <3>5. turn' \/ status' = "idle" => pending' = {}
      BY <1>0, <2>3 DEF Indexed
    <3>6. SingleInv'
      BY <1>0, <1>1, <2>1, <2>3, <3>1, <3>2, <3>3, <3>4, <3>5, LiveSingle DEF Held, index
    <3> QED BY <2>1, <3>1, <3>6, Stutters
  <2> QED BY <1>9, <2>2, <2>3 DEF AnnounceParked, StaysUp, AtRest
<1>10. ASSUME NEW e \in Exec, BridgeAnswers(e)
       PROVE  SingleInv' /\ Simulated
  <2>1. /\ e \in pending /\ Fold(e, {}, dispatching)
        /\ UNCHANGED <<used, closed, resume, loaded, calls, record, life, crashes, applied, refused>>
    BY <1>10 DEF BridgeAnswers, waking, answers
  <2>2. Live
    BY <1>0, <2>1 DEF ParkInv, Inert
  <2> QED BY <2>1, <2>2, FoldSingle
<1> QED BY <1>5, <1>6, <1>7, <1>8, <1>9, <1>10 DEF RunnerStep

(* An operation is worked off: the chain moves up, the rest of the session *)
(* stays, and a save that fails loses at most what it was to keep.         *)
LEMMA StoreStepSingle ==
  ASSUME Parked, SingleCall, ParkInv', StoreStep
  PROVE  SingleInv' /\ Simulated
<1> DEFINE o == Head(storeOps)
           rest == Tail(storeOps)
<1>0. ParkInv /\ Held /\ Resuming /\ Indexed
  BY DEF Parked, SingleInv
<1>1. storeOps # <<>> /\ UNCHANGED <<used, closed, crashes, applied, refused>>
  BY DEF StoreStep, answers
<1>2. /\ storeOps \in Seq([op : Op, pending : SUBSET Exec])
      /\ storeOps' \in Seq([op : Op, pending : SUBSET Exec])
      /\ Chain(storeOps, resume)
  BY <1>0 DEF ParkInv, Chain
<1>3. /\ o.op = "save" => o.pending # {}
      /\ o.op \in {"delete", "clear"} => o.pending = {}
      /\ o.op = "load" => resume = "loading"
      /\ o.op = "clear" => resume = "clearing"
      /\ o \in [op : Op, pending : SUBSET Exec]
  BY <1>1, <1>2, ChainTail
<1>4. /\ Len(rest) = Len(storeOps) - 1 /\ Len(storeOps) \in Nat /\ Len(storeOps) >= 1
      /\ o = storeOps[1]
      /\ \A n \in 1..Len(rest) : rest[n] = storeOps[n + 1]
  BY <1>1, <1>2
<1>5. ASSUME NEW t, Write(o) /\ o.pending = Stored => t = Stored, ~Write(o) => t = record
      PROVE  Leaves(rest, t, Stored)
  <2>1. Leaves(storeOps, record, Stored)
    BY <1>0 DEF Indexed
  <2> HIDE DEF o, rest
  <2>2. o = Head(storeOps) /\ rest = Tail(storeOps)
    BY DEF o, rest
  <2> QED BY <1>1, <1>2, <1>5, <2>1, <2>2, LeavesTail
<1>6. ASSUME NEW t PROVE Leaves(rest, t, Stored) \/ Leaves(rest, t, t)
  <2>1. Leaves(storeOps, record, Stored)
    BY <1>0 DEF Indexed
  <2> HIDE DEF o, rest
  <2>2. rest = Tail(storeOps)
    BY DEF rest
  <2> QED BY <1>1, <1>2, <2>1, <2>2, LeavesTailLost
<1> HIDE DEF o, rest
<1>7. dispatching = {} /\ storeOps' = rest /\ o.op # "lookup"
  <2>1. o.op # "lookup"
    BY <1>0, <1>4 DEF Resuming
  <2> QED BY <1>0, <1>1, <2>1 DEF Resuming, StoreStep, Saves, Removes, Loads, LooksUp, o, rest
<1>8. \A n \in 1..Len(rest) : /\ n + 1 \in 1..Len(storeOps) /\ rest[n] = storeOps[n + 1]
                              /\ n + 1 # 1 /\ 1 < n + 1
  BY <1>4
<1>9. Kept(o.pending) /\ \A n \in 1..Len(rest) : Kept(rest[n].pending)
  <2>1. 1 \in 1..Len(storeOps)
    BY <1>4
  <2> QED BY <1>0, <1>4, <1>8, <2>1 DEF Held
<1>10. \A n \in 1..Len(rest) : rest[n].op # "lookup" /\ rest[n].op # "save"
  BY <1>0, <1>8 DEF Resuming
<1>11. \A m, n \in 1..Len(rest) : rest[m].op = "load" /\ m < n => ~Write(rest[n])
  <2> SUFFICES ASSUME NEW m \in 1..Len(rest), NEW n \in 1..Len(rest), rest[m].op = "load", m < n
               PROVE  ~Write(rest[n])
    OBVIOUS
  <2>1. m + 1 \in 1..Len(storeOps) /\ n + 1 \in 1..Len(storeOps) /\ m + 1 < n + 1
        /\ rest[m] = storeOps[m + 1] /\ rest[n] = storeOps[n + 1]
    BY <1>8
  <2> QED BY <1>0, <2>1 DEF Resuming
<1>12. resume = "clearing" /\ o.op # "clear" => \E n \in 1..Len(rest) : rest[n].op = "clear"
  <2> SUFFICES ASSUME resume = "clearing", o.op # "clear"
               PROVE  \E n \in 1..Len(rest) : rest[n].op = "clear"
    OBVIOUS
  <2>1. PICK n \in 1..Len(storeOps) : storeOps[n].op = "clear"
    BY <1>0 DEF Resuming
  <2>2. n # 1
    BY <1>4, <2>1
  <2>3. n - 1 \in 1..Len(rest) /\ rest[n - 1] = storeOps[n]
    BY <1>4, <2>1, <2>2
  <2> QED BY <2>1, <2>3
<1>13. CASE Saves(o, rest)
  <2>1. /\ o.op = "save"
        /\ UNCHANGED <<status, turn, pending, owners, settled, timers, resume, loaded, calls,
                       dispatching, fresh, life>>
        /\ record' = o.pending \/ record' = record
    BY <1>13 DEF Saves, runner, index, waking
  <2>2. record = {} /\ resume # "building"
    BY <1>0, <1>4, <2>1 DEF Resuming, Write
  <2>3. PICK s : Leaves(storeOps', record', s) /\ s \in {Stored, {}}
    <3>1. CASE record' = o.pending
      BY <1>5, <1>7, <2>1, <3>1 DEF Write
    <3>2. CASE record' = record
      BY <1>6, <1>7, <2>2, <3>2
    <3> QED BY <2>1, <3>1, <3>2
  <2>4. Stored' = s /\ Leaves(storeOps, record, Stored)'
    BY <1>2, <2>3, StoredBecomes
  <2>5. Open' \subseteq Open
    BY <2>1, <2>3, <2>4 DEF Open
  <2>6. Simulated
    <3>1. Open \subseteq Exec
      BY <1>0, OpenIsIndexed DEF Held
    <3> QED BY <1>1, <2>5, <3>1, GivesUp
  <2>7. Held'
    BY <1>0, <1>1, <1>7, <1>9, <2>1 DEF Held, Kept
  <2>8. Resuming'
    BY <1>0, <1>1, <1>7, <1>10, <1>11, <1>12, <2>1, <2>2 DEF Resuming
  <2>9. Indexed'
    BY <1>0, <1>1, <2>1, <2>3, <2>4, <2>5 DEF Indexed, RefusedWasSettled, Live
  <2> QED BY <2>6, <2>7, <2>8, <2>9 DEF SingleInv
<1>14. CASE Removes(o, rest)
  <2>1. /\ o.op \in {"delete", "clear"} /\ record' = {}
        /\ resume' = IF o.op = "clear" THEN "woken" ELSE resume
        /\ UNCHANGED <<status, turn, pending, owners, settled, timers, loaded, calls,
                       dispatching, fresh, life>>
    BY <1>14 DEF SingleCall, Removes, runner, index
  <2>2. Stored' = Stored /\ Leaves(storeOps, record, Stored)'
    <3>1. Leaves(storeOps', record', Stored)
      BY <1>3, <1>5, <1>7, <2>1 DEF Write
    <3> QED BY <1>2, <3>1, StoredBecomes
  <2>3. Open' = Open
    BY <2>1, <2>2 DEF Open
  <2>4. resume # "building"
    BY <1>0, <1>4, <2>1 DEF Resuming, Write
  <2>5. Held'
    BY <1>0, <1>1, <1>7, <1>9, <2>1 DEF Held, Kept, One
  <2>6. Resuming'
    BY <1>0, <1>1, <1>3, <1>7, <1>10, <1>11, <1>12, <2>1, <2>4 DEF Resuming
  <2>7. Indexed'
    BY <1>0, <1>1, <2>1, <2>2, <2>3 DEF Indexed, RefusedWasSettled, Live
  <2> QED BY <1>1, <2>3, <2>5, <2>6, <2>7, Stutters DEF SingleInv
<1>15. CASE Loads(o, rest)
  <2>1. /\ o.op = "load" /\ record' = record /\ resume = "loading"
        /\ UNCHANGED <<status, turn, pending, dispatching, fresh, life>>
        /\ \/ /\ record # {} /\ resume' = "building" /\ loaded' = record
              /\ UNCHANGED <<owners, settled, timers, calls>>
           \/ /\ record = {} /\ resume' = "idle" /\ calls' = {} /\ loaded' = loaded
              /\ owners' = owners \ calls /\ settled' = settled \cup (calls \cap owners)
    BY <1>3, <1>15 DEF SingleCall, Loads, runner, index
  <2>2. \A n \in 1..Len(rest) : ~Write(rest[n])
    BY <1>0, <1>4, <1>8, <2>1 DEF Resuming
  <2>3. Leaves(storeOps', record', Stored) /\ Leaves(storeOps', record', record)
    BY <1>5, <1>7, <2>1, <2>2 DEF Leaves, Write
  <2>4. Stored' = Stored /\ Stored' = record /\ Leaves(storeOps, record, Stored)'
    BY <1>2, <2>3, StoredBecomes
  <2>5. status = "none" /\ Open' = Open /\ Open = record
    BY <1>0, <2>1, <2>4 DEF ParkInv, Alone, Open
  <2>6. Held'
    <3>1. owners' \subseteq owners
      BY <2>1
    <3>2. settled' \subseteq Deferred
      <4>1. CASE settled' = settled
        BY <1>0, <4>1 DEF Held
      <4>2. CASE settled' # settled
        <5>1. owners \subseteq Deferred
          BY <1>0 DEF Held
        <5> QED BY <1>0, <2>1, <5>1 DEF Held
      <4> QED BY <4>1, <4>2
    <3> QED BY <1>0, <1>1, <1>7, <1>9, <2>1, <3>1, <3>2 DEF Held, Kept
  <2>7. Resuming'
    BY <1>0, <1>1, <1>7, <1>10, <1>11, <2>1, <2>2 DEF Resuming
  <2>8. Indexed'
    <3>1. Stored' \subseteq owners' \/ status' # "none" \/ life' # "open"
      BY <1>0, <2>1, <2>4, <2>5 DEF Indexed
    <3>2. status' = "none" /\ life' = "open" => One(owners')
      BY <1>0, <2>1, <2>5 DEF Indexed, One
    <3>3. life' = "open" /\ ~closed' /\ ~RebuildMayFail =>
            Open' \cap Deferred \cap Deadlined \subseteq timers' \cup calls'
      BY <1>0, <1>1, <2>1, <2>5 DEF Indexed
    <3> QED BY <1>0, <1>1, <2>1, <2>4, <2>5, <3>1, <3>2, <3>3 DEF Indexed, RefusedWasSettled, Live
  <2> QED BY <1>1, <2>5, <2>6, <2>7, <2>8, Stutters DEF SingleInv
<1> QED BY <1>7, <1>13, <1>14, <1>15 DEF StoreStep, LooksUp, o, rest

(* A resume has read the snapshot: its runner takes the session over.      *)
LEMMA RebuildSingle ==
  ASSUME Parked, SingleCall, ParkInv', RebuildSucceeds
  PROVE  SingleInv' /\ Simulated
<1> DEFINE o == StoreOp("clear", {})
<1>0. ParkInv /\ Held /\ Resuming /\ Indexed
  BY DEF Parked, SingleInv
<1>1. o.op = "clear" /\ o.pending = {}
  BY DEF StoreOp
<1>2. /\ resume = "building" /\ status' = "parked" /\ turn' = FALSE /\ pending' = loaded
      /\ dispatching' = {} /\ fresh' = TRUE /\ resume' = "clearing" /\ loaded' = {}
      /\ storeOps' = Append(storeOps, o)
      /\ life' = IF life = "open" THEN "open" ELSE "revived"
      /\ UNCHANGED <<used, owners, settled, timers, closed, calls, record, crashes, applied, refused>>
  BY DEF RebuildSucceeds, Restored, index, answers
<1>3. storeOps \in Seq([op : Op, pending : SUBSET Exec])
      /\ storeOps' \in Seq([op : Op, pending : SUBSET Exec])
  BY <1>0 DEF ParkInv, Chain
<1>4. /\ Len(storeOps') = Len(storeOps) + 1 /\ Len(storeOps) \in Nat
      /\ storeOps'[Len(storeOps')] = o
      /\ \A n \in 1..Len(storeOps) : storeOps'[n] = storeOps[n]
      /\ \A n \in 1..Len(storeOps') : n = Len(storeOps') \/ n \in 1..Len(storeOps)
  BY <1>2, <1>3
<1> HIDE DEF o
<1>5. status = "none" /\ record = loaded /\ loaded # {} /\ Stored = loaded /\ Open = loaded
  <2>1. /\ status = "none" /\ record = loaded /\ loaded # {}
        /\ \A n \in 1..Len(storeOps) : ~Write(storeOps[n])
    BY <1>0, <1>2 DEF ParkInv, Alone, Resuming
  <2>2. Leaves(storeOps, record, record)
    BY <2>1 DEF Leaves
  <2> QED BY <1>0, <2>1, <2>2, StoredIs DEF Open
<1>6. life = "open" /\ owners = loaded
  <2>1. life = "open"
    BY <1>0, <1>5, OpenIsIndexed DEF Indexed
  <2>2. loaded \subseteq owners /\ One(owners)
    BY <1>0, <1>5, <2>1 DEF Indexed
  <2> QED BY <1>5, <2>1, <2>2 DEF One
<1>7. Leaves(storeOps', record', {})
  BY <1>1, <1>4 DEF Leaves, Write
<1>8. Stored' = {} /\ Leaves(storeOps, record, Stored)'
  BY <1>3, <1>7, StoredBecomes
<1>9. Open' = Open
  BY <1>2, <1>5 DEF Open
<1>10. Held'
  BY <1>0, <1>1, <1>2, <1>4 DEF Held, Kept, One
<1>11. Resuming'
  <2>1. \A n \in 1..Len(storeOps) : storeOps[n].op \notin {"load", "save", "lookup"}
    BY <1>0, <1>2 DEF ParkInv, Chain, Resuming, Write
  <2>2. Len(storeOps') \in 1..Len(storeOps') /\ storeOps'[Len(storeOps')].op = "clear"
    BY <1>1, <1>4
  <2>3. \A n \in 1..Len(storeOps') : storeOps'[n].op \notin {"load", "save", "lookup"}
    BY <1>1, <1>4, <2>1
  <2> QED BY <1>2, <2>2, <2>3 DEF Resuming
<1>12. Indexed'
  <2>1. loaded \subseteq Deferred
    BY <1>0 DEF Held, Kept
  <2>2. life' = "open" /\ ~closed' /\ ~RebuildMayFail =>
          Open' \cap Deferred \cap Deadlined \subseteq timers' \cup calls'
    BY <1>0, <1>2, <1>6, <1>9 DEF Indexed
  <2>3. RefusedWasSettled'
    BY <1>0, <1>2, <1>9 DEF Indexed, RefusedWasSettled
  <2> QED BY <1>2, <1>6, <1>8, <2>1, <2>2, <2>3 DEF Indexed
<1>13. Simulated
  BY <1>2, <1>9, Stutters
<1> QED BY <1>10, <1>11, <1>12, <1>13 DEF SingleInv

(* Nothing the index, the chain and the runner depend on changes.          *)
LEMMA AsideSingle ==
  ASSUME Parked, UNCHANGED <<pending, dispatching, used, owners, settled, storeOps, record,
                             life, crashes, applied, refused>>,
         loaded' = loaded \/ (loaded' = {} /\ resume' = "idle"),
         \/ status' = status /\ turn' = turn
         \/ status = "idle" /\ status' = "running",
         (resume' = resume /\ fresh' = fresh) \/ resume' = "idle",
         calls' \subseteq calls,
         Live => resume' = "idle" \/ UNCHANGED <<resume, fresh>>,
         closed' \/ RebuildMayFail \/ life = "ended" \/ (closed' = closed /\ Open \cap timers \subseteq timers'
                                                       /\ Open \cap calls \subseteq calls')
  PROVE  SingleInv' /\ Simulated
<1>0. ParkInv /\ Held /\ Resuming /\ Indexed
  BY DEF Parked, SingleInv
<1>1. Stored' = Stored /\ Leaves(storeOps, record, Stored)'
  BY <1>0, StoredStays DEF Indexed
<1>2. Open' = Open
  BY <1>1 DEF Open
<1>3. Held' /\ Resuming'
  BY <1>0 DEF Held, Kept, One, Resuming
<1>4. life' = "open" /\ ~closed' /\ ~RebuildMayFail =>
        Open' \cap Deferred \cap Deadlined \subseteq timers' \cup calls'
  <2>1. life = "open" /\ ~closed /\ ~RebuildMayFail =>
          Open \cap Deferred \cap Deadlined \subseteq timers \cup calls
    BY <1>0 DEF Indexed
  <2> QED BY <1>2, <2>1
<1>5. Indexed'
  BY <1>0, <1>1, <1>2, <1>4 DEF Indexed, RefusedWasSettled, Live
<1> QED BY <1>2, <1>3, <1>5, Stutters DEF SingleInv

LEMMA ResumeStepSingle ==
  ASSUME Parked, SingleCall, ParkInv', ResumeStep
  PROVE  SingleInv' /\ Simulated
<1>0. ParkInv /\ Held /\ Resuming /\ Indexed
  BY DEF Parked, SingleInv
<1>1. CASE RebuildFails
  <2>1. /\ RebuildMayFail /\ resume' = "idle" /\ loaded' = {} /\ calls' = {}
        /\ UNCHANGED <<runner, used, index, closed, storeOps, fresh, record, life, crashes, answers>>
    BY <1>1 DEF RebuildFails
  <2> QED BY <2>1, AsideSingle DEF runner, index, answers
<1>2. ASSUME NEW e \in calls, WakesCall(e) PROVE SingleInv' /\ Simulated
  <2>1. /\ resume = "woken" /\ e \in used /\ calls' = calls \ {e}
        /\ UNCHANGED <<used, closed, resume, loaded, record, life, crashes>>
    BY <1>0, <1>2 DEF WakesCall, Held
  <2>2. CASE fresh /\ Reaches(e)
    <3>1. status # "none"
      BY <1>0, <2>2 DEF ParkInv, Inert, Live
    <3> QED BY <2>1, <2>2, <3>1, ReachesSingle
  <2>3. CASE /\ ~fresh /\ timers' = timers \ {e} /\ refused' = refused \cup {e}
             /\ UNCHANGED <<runner, owners, settled, storeOps, detach, fresh, applied>>
    <3>1. life = "ended" /\ Open = {}
      BY <1>0, <2>1, <2>3, OpenIsIndexed DEF Resuming
    <3>2. Stored' = Stored /\ Leaves(storeOps, record, Stored)'
      BY <1>0, <2>1, <2>3, StoredStays DEF Indexed
    <3>3. Open' = {}
      BY <2>3, <3>1, <3>2 DEF Open, runner
    <3>4. Held' /\ Resuming'
      BY <1>0, <2>1, <2>3 DEF Held, Kept, Resuming, runner
    <3>5. Indexed'
      BY <1>0, <2>1, <2>3, <3>1, <3>2, <3>3 DEF Indexed, RefusedWasSettled, Live, runner
    <3>6. Simulated
      BY <2>1, <2>3, <3>1, <3>3, Stutters
    <3> QED BY <3>4, <3>5, <3>6 DEF SingleInv
  <2> QED BY <1>2, <2>2, <2>3 DEF WakesCall
<1>3. CASE WakesClient \/ ResumeOver
  <2>1. /\ UNCHANGED <<runner, used, index, closed, storeOps, loaded, calls, fresh, record, life,
                       crashes, answers>>
        /\ resume' = resume \/ resume' = "idle"
    BY <1>3 DEF WakesClient, ResumeOver
  <2> QED BY <2>1, AsideSingle DEF runner, index, answers
<1> QED BY <1>1, <1>2, <1>3, RebuildSingle DEF ResumeStep

LEMMA ClientStepSingle ==
  ASSUME Parked, SingleCall, ParkInv', ClientStep
  PROVE  SingleInv' /\ Simulated
<1>0. ParkInv /\ Held /\ Resuming /\ Indexed
  BY DEF Parked, SingleInv
<1>1. CASE Attach
  <2>1. CASE status # "none" /\ UNCHANGED <<resume, storeOps>>
    BY <1>1, <2>1, AsideSingle DEF Attach, runner, index, answers
  <2>2. CASE status = "none" /\ Joins
    <3>1. calls' \subseteq used /\ timers \subseteq timers' \cup calls' /\ calls \subseteq calls'
      BY <1>0, <1>1 DEF Attach, index, Held
    <3> QED BY <1>1, <2>2, <3>1, JoinsSingle DEF Attach, index, answers
  <2> QED BY <1>1, <2>1, <2>2 DEF Attach
<1>2. CASE Detach
  BY <1>2, AsideSingle DEF Detach, runner, index, waking, answers
<1>3. CASE Message
  <2>1. pending = {} /\ status = "idle" /\ status' = "running" /\ Live /\ Live'
    BY <1>0, <1>3 DEF Message, Indexed, Live
  <2> QED BY <1>3, <2>1, AsideSingle DEF Message, index, waking, answers
<1>4. CASE CloseSession
  <2>1. Live
    BY <1>0, <1>4 DEF CloseSession, ParkInv, Inert
  <2> QED BY <1>4, <2>1, EndsAsSingle DEF CloseSession, waking, answers
<1>5. ~Interrupt /\ ~DeleteSession
  BY DEF SingleCall, Interrupt, DeleteSession
<1> QED BY <1>1, <1>2, <1>3, <1>4, <1>5 DEF ClientStep

(* A crash takes the session back to its record.                           *)
LEMMA RestartSingle ==
  ASSUME Parked, ParkInv', Restart
  PROVE  SingleInv' /\ Simulated
<1>0. ParkInv /\ Held /\ Resuming /\ Indexed
  BY DEF Parked, SingleInv
<1>1. /\ status' = "none" /\ turn' = FALSE /\ pending' = {} /\ dispatching' = {}
      /\ owners' = record /\ settled' = {} /\ timers' = record \cap Deadlined
      /\ storeOps' = <<>> /\ resume' = "idle" /\ loaded' = {} /\ calls' = {} /\ fresh' = FALSE
      /\ life' = IF record = {} THEN "ended" ELSE "open"
      /\ applied' = applied \ record /\ refused' = {} /\ crashes' = crashes + 1
      /\ UNCHANGED <<used, record>>
  BY DEF Restart, Hydrated
<1>2. Len(storeOps') = 0 /\ storeOps' \in Seq([op : Op, pending : SUBSET Exec])
  BY <1>1
<1>3. Leaves(storeOps', record', record)
  BY <1>1, <1>2 DEF Leaves
<1>4. Stored' = record /\ Leaves(storeOps, record, Stored)'
  BY <1>2, <1>3, StoredBecomes
<1>5. Open' = record
  BY <1>1, <1>4 DEF Open
<1>6. Held' /\ Resuming'
  BY <1>0, <1>1, <1>2 DEF Held, Kept, One, Resuming
<1>7. Indexed'
  BY <1>0, <1>1, <1>4, <1>5 DEF Held, Kept, Indexed, RefusedWasSettled, Live
<1>8. Simulated
  <2>1. Promise!Crash(record)
    BY <1>0, <1>1, <1>5 DEF Promise!Crash, Held, Kept
  <2>2. record \in SUBSET Exec
    BY <1>0 DEF ParkInv
  <2> QED BY <2>1, <2>2 DEF Simulated, Promise!Next
<1> QED BY <1>6, <1>7, <1>8 DEF SingleInv

(* A store that removes what it is told to keeps nothing.                  *)
LEMMA KeptNever == ~AccessMayFail /\ ~kept /\ [Next]_vars => ~kept'
<1> SUFFICES ASSUME ~AccessMayFail, ~kept, [Next]_vars PROVE ~kept'
  OBVIOUS
<1>1. CASE RunnerStep
  BY <1>1 DEF RunnerStep, TurnRests, TurnEnds, HandedOver, DispatchSettles, AnnounceParked,
              BridgeAnswers
<1>2. CASE StoreStep
  BY <1>2 DEF StoreStep, Saves, Removes, Loads, LooksUp
<1>3. CASE ResumeStep
  BY <1>3 DEF ResumeStep, RebuildSucceeds, RebuildFails, WakesCall, WakesClient, ResumeOver
<1>4. CASE ClientStep
  BY <1>4 DEF ClientStep, Attach, Detach, Message, Interrupt, CloseSession, DeleteSession
<1>5. CASE (\E e \in Exec : Deliver(e) \/ WatchdogFires(e))
  BY <1>5 DEF Deliver, WatchdogFires
<1>6. CASE DetachTimerFires \/ JobDiscards \/ Shutdown \/ Restart
  BY <1>6 DEF DetachTimerFires, JobDiscards, Shutdown, Restart
<1>7. CASE UNCHANGED vars
  BY <1>7 DEF vars
<1> QED BY <1>1, <1>2, <1>3, <1>4, <1>5, <1>6, <1>7 DEF Next

LEMMA SingleNextKeeps ==
  ASSUME Parked, SingleCall, [Next]_vars
  PROVE  Parked' /\ Simulated
<1>1. ParkInv' /\ TimersAreOwned' /\ NobodyForgotten' /\ ~kept'
  BY ParkNextKeeps, OwnedNextKeeps, ForgottenNextKeeps, KeptNever DEF Parked, SingleCall
<1> SUFFICES SingleInv' /\ Simulated
  BY <1>1 DEF Parked
<1>2. ASSUME NEW e \in Exec, Deliver(e) PROVE SingleInv' /\ Simulated
  <2>1. e \in used /\ timers \ {e} \subseteq timers
    BY <1>2 DEF Deliver
  <2> QED BY <1>1, <1>2, <2>1, SubmitSingle DEF Deliver
<1>3. ASSUME NEW e \in Exec, WatchdogFires(e) PROVE SingleInv' /\ Simulated
  <2>1. e \in used
    BY <1>3 DEF WatchdogFires, Parked, SingleInv, Held
  <2> QED BY <1>1, <1>3, <2>1, SubmitSingle DEF WatchdogFires
<1>4. CASE DetachTimerFires
  <2>1. CASE GoesDown(owners, timers, {}) /\ UNCHANGED settled
    <3>1. storeOps = <<>> /\ resume # "woken"
      BY <1>4 DEF DetachTimerFires, StoreIsDone, SingleCall, Macrotask
    <3>2. Len(storeOps) = 0
      BY <3>1
    <3>3. resume # "clearing" /\ settled' \subseteq Deferred
      BY <2>1, <3>2 DEF Parked, SingleInv, Resuming, Held
    <3>4. owners \subseteq owners /\ timers \subseteq timers /\ {} \cap pending = {}
      OBVIOUS
    <3>5. UNCHANGED <<used, record, resume, loaded, life, closed, calls, applied, refused, crashes>>
      BY <1>4 DEF DetachTimerFires, waking, answers
    <3> QED BY <1>1, <2>1, <3>1, <3>3, <3>4, <3>5, GoesDownSingle
  <2>2. CASE UNCHANGED <<runner, index, storeOps, fresh>>
    <3>1. UNCHANGED <<runner, used, index, closed, storeOps, waking, fresh, record, life, crashes, answers>>
      BY <1>4, <2>2 DEF DetachTimerFires
    <3> QED BY <3>1, AsideSingle DEF runner, index, waking, answers
  <2> QED BY <1>4, <2>1, <2>2 DEF DetachTimerFires
<1>5. ~JobDiscards
  BY DEF JobDiscards, SingleCall
<1>6. CASE Shutdown
  <2>1. CASE Live /\ EndsAs("closed", storeOps)
    <3>1. UNCHANGED <<used, resume, loaded, calls, record, crashes, applied, refused>>
      BY <1>6 DEF Shutdown, waking, answers
    <3> QED BY <1>1, <2>1, <3>1, EndsAsSingle
  <2>2. CASE UNCHANGED <<runner, owners, settled, storeOps, fresh, client, life>>
    <3>1. /\ UNCHANGED <<runner, used, owners, settled, storeOps, waking, fresh, record, life, crashes, answers>>
          /\ closed'
      BY <1>6, <2>2 DEF Shutdown
    <3> QED BY <3>1, AsideSingle DEF runner, waking, answers
  <2> QED BY <1>6, <2>1, <2>2 DEF Shutdown
<1>7. CASE UNCHANGED vars
  <2>1. UNCHANGED <<runner, used, index, closed, storeOps, waking, fresh, record, life, crashes, answers>>
    BY <1>7 DEF vars
  <2> QED BY <2>1, AsideSingle DEF runner, index, waking, answers
<1> QED
  BY <1>1, <1>2, <1>3, <1>4, <1>5, <1>6, <1>7, RunnerStepSingle, StoreStepSingle,
     ResumeStepSingle, ClientStepSingle, RestartSingle DEF Next

LEMMA SingleInit == Init => Parked /\ Promise!Init
<1> SUFFICES ASSUME Init PROVE Parked /\ Promise!Init
  OBVIOUS
<1>1. storeOps = <<>> /\ record = {} /\ Len(storeOps) = 0
  BY DEF Init
<1>2. ParkInv /\ TimersAreOwned /\ NobodyForgotten /\ ~kept
  BY ParkInvInit DEF Init, NobodyForgotten
<1>3. Leaves(storeOps, record, {})
  BY <1>1 DEF Leaves
<1>4. Stored = {}
  BY <1>2, <1>3, StoredIs
<1>5. Open = {}
  BY DEF Init, Open
<1>6. Held /\ Resuming
  BY <1>1 DEF Init, Held, Kept, One, Resuming
<1>7. Indexed
  BY <1>3, <1>4, <1>5 DEF Init, Indexed, RefusedWasSettled, Live
<1>8. Promise!Init
  BY <1>5 DEF Init, Promise!Init
<1> QED BY <1>2, <1>6, <1>7, <1>8 DEF Parked, SingleInv

LEMMA ParkedHolds == SingleCall => (Spec => []Parked)
<1>1. SingleCall /\ Parked /\ [Next]_vars => Parked'
  BY SingleNextKeeps
<1>2. SUFFICES ASSUME SingleCall PROVE Spec => []Parked
  OBVIOUS
<1>3. Parked /\ [Next]_vars => Parked'
  BY <1>1, <1>2
<1>4. Init => Parked
  BY SingleInit
<1> QED BY <1>3, <1>4, PTL DEF Spec

(* Calls made one at a time: however often the session parks, wakes and    *)
(* crashes, no answer is refused while its call is still waited for        *)
(* (parking.ts submitResult).                                              *)
THEOREM RefusedWasSettledHolds == SingleCall => (Spec => []RefusedWasSettled)
<1> SUFFICES ASSUME SingleCall PROVE Spec => []RefusedWasSettled
  OBVIOUS
<1>1. Parked => RefusedWasSettled
  BY DEF Parked, SingleInv, Indexed
<1>2. Spec => []Parked
  BY ParkedHolds
<1> QED BY <1>1, <1>2, PTL

(* The index finds the session of every deferred call that is waited for,  *)
(* and a deadline keeps its watchdog or a delivery under way, as long as   *)
(* the engine can assemble the runner (parking.ts #owners, #timers).       *)
THEOREM CallsCanEndHolds == SingleCall /\ ~RebuildMayFail => (Spec => []CallsCanEnd)
<1> SUFFICES ASSUME SingleCall, ~RebuildMayFail PROVE Spec => []CallsCanEnd
  OBVIOUS
<1>1. Parked => CallsCanEnd
  BY OpenIsIndexed DEF Parked, SingleInv, Indexed, CallsCanEnd
<1>2. Spec => []Parked
  BY ParkedHolds
<1> QED BY <1>1, <1>2, PTL

(* The parking manager, the runner, the store and the server together      *)
(* implement what a backend of deferred calls relies on: an answer is      *)
(* accepted only while it is waited for, and taken back by a crash alone.  *)
THEOREM DeferredCallsImplemented == SingleCall => (Spec => ImplementsDeferredCalls)
<1> SUFFICES ASSUME SingleCall PROVE Spec => ImplementsDeferredCalls
  OBVIOUS
<1>1. Init => Promise!Init
  BY SingleInit
<1>2. Parked /\ [Next]_vars => [Promise!Next]_(Promise!calls)
  BY SingleNextKeeps DEF Simulated, Promise!calls
<1>3. Spec => []Parked
  BY ParkedHolds
<1> QED BY <1>1, <1>2, <1>3, PTL DEF Spec, ImplementsDeferredCalls, Promise!Spec

=============================================================================
