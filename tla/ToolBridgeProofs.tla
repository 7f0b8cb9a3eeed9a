-------------------------- MODULE ToolBridgeProofs --------------------------
(***************************************************************************)
(* Theorems about ToolBridge, for every finite set of calls and of tabs,   *)
(* whichever of them a tab's page can run, and any number of broken        *)
(* connections and of hosts set up again.                                  *)
(***************************************************************************)
EXTENDS ToolBridge, FiniteSetTheorems, SequenceTheorems, TLAPS

-----------------------------------------------------------------------------
(* The inductive invariant.                                                *)

TypeOK ==
  /\ awaited \subseteq Call /\ waiting \subseteq Call /\ early \subseteq Call
  /\ outcome \in [Call -> Outcome]
  /\ down \in [Tab -> Seq(Frame)]
  /\ up \in [Tab -> Seq(Call)] /\ outbox \in [Tab -> Seq(Call)]
  /\ inFlight \in [Tab -> SUBSET Call] /\ ran \in [Call -> Seq(Tab)]

(* Whatever is held, asked, run or answered is of a call that was made, so *)
(* a call that is made finds nothing of its own on the way.                *)
OnTheWayWasMade ==
  /\ waiting \subseteq Used /\ early \subseteq Used
  /\ \A t \in Tab :
       /\ inFlight[t] \subseteq Used
       /\ \A i \in 1..Len(down[t]) : down[t][i].id \in Used
       /\ \A i \in 1..Len(up[t]) : up[t][i] \in Used
       /\ \A i \in 1..Len(outbox[t]) : outbox[t][i] \in Used
  /\ \A c \in Call : ran[c] # <<>> => c \in Used

(* A request that is still on its way is for a call the registry holds, or *)
(* its cancellation follows it, or that was lost.                          *)
CancelFollows(d, i) ==
  \E j \in 1..Len(d) : i < j /\ d[j].type = "cancel" /\ d[j].id = d[i].id

RequestsAreHeld ==
  \A t \in Tab : \A i \in 1..Len(down[t]) :
    down[t][i].type = "request" =>
      \/ down[t][i].id \in waiting
      \/ CancelFollows(down[t], i)
      \/ <<t, down[t][i].id>> \in missed

(* A call is asked for in one place, and not where it has been run.        *)
AskedOnce ==
  /\ \A t, u \in Tab : \A i \in 1..Len(down[t]), j \in 1..Len(down[u]) :
       /\ down[t][i].type = "request" /\ down[u][j].type = "request"
       /\ down[t][i].id = down[u][j].id
       => t = u /\ i = j
  /\ \A t \in Tab : \A i \in 1..Len(down[t]) :
       down[t][i].type = "request" => ran[down[t][i].id] = <<>>
  /\ \A c \in Call : Len(ran[c]) <= 1

(* What runs was begun, and what was answered neither runs nor is asked.   *)
Quiet(c) ==
  \A t \in Tab :
    /\ c \notin inFlight[t]
    /\ \A i \in 1..Len(down[t]) : down[t][i].type = "request" => down[t][i].id # c

AnsweredIsDone ==
  /\ \A t \in Tab : \A c \in inFlight[t] : ran[c] = << t >>
  /\ \A t \in Tab :
       /\ \A i \in 1..Len(up[t]) : Quiet(up[t][i])
       /\ \A i \in 1..Len(outbox[t]) : Quiet(outbox[t][i])

(* AwaitedIsHeld, with the position of the cancellation.                   *)
Canceled(t, c) ==
  \E j \in 1..Len(down[t]) : down[t][j].type = "cancel" /\ down[t][j].id = c

SidesAgree ==
  /\ awaited \subseteq waiting \ early
  /\ \A t \in Tab : \A c \in inFlight[t] :
       c \in waiting \/ Canceled(t, c) \/ <<t, c>> \in missed

BridgeInv ==
  /\ TypeOK /\ OnTheWayWasMade /\ RequestsAreHeld /\ AskedOnce /\ AnsweredIsDone
  /\ SidesAgree

-----------------------------------------------------------------------------
(* A batch of frames behind those that are on their way.                   *)

LEMMA SetToSeqProperties ==
  ASSUME NEW S, IsFiniteSet(S)
  PROVE  /\ Cardinality(S) \in Nat
         /\ SetToSeq(S) \in [1..Cardinality(S) -> S]
         /\ IsInjective(SetToSeq(S))
         /\ \A x \in S : \E i \in 1..Cardinality(S) : SetToSeq(S)[i] = x
<1> DEFINE n == Cardinality(S)
           f == SetToSeq(S)
<1>1. n \in Nat /\ ExistsBijection(1..n, S)
  BY FS_CardinalityType
<1>2. PICK g : g \in Bijection(1..n, S)
  BY <1>1 DEF ExistsBijection
<1>3. g \in [1..n -> S] /\ IsInjective(g)
  BY <1>2 DEF Bijection, Injection
<1>4. f \in [1..n -> S] /\ IsInjective(f)
  BY <1>3 DEF SetToSeq
<1>5. f \in Injection(1..n, S)
  BY <1>4 DEF Injection
<1>6. Cardinality(1..n) = n
  BY <1>1, FS_Interval
<1>7. f \in Surjection(1..n, S)
  BY <1>5, <1>6, FS_Injection
<1>8. \A x \in S : \E i \in 1..n : f[i] = x
  BY <1>7 DEF Surjection
<1> QED BY <1>1, <1>4, <1>8

(* e is d with frames of the calls in S behind it.                         *)
Extends(e, d, S) ==
  /\ e \in Seq(Frame) /\ Len(d) <= Len(e)
  /\ \A i \in 1..Len(d) : e[i] = d[i]
  /\ \A i \in (Len(d) + 1)..Len(e) : e[i].id \in S

LEMMA FunctionIsSeq ==
  ASSUME NEW S, NEW n \in Nat, NEW q \in [1..n -> S]
  PROVE  q \in Seq(S) /\ Len(q) = n
OBVIOUS

(* The frames of a batch, one for each call.                               *)
Batch(type, S) ==
  [i \in 1..Cardinality(S) |-> [type |-> type, id |-> SetToSeq(S)[i]]]

Behind(e, d, type, S) ==
  /\ Extends(e, d, S)
  /\ \A i \in (Len(d) + 1)..Len(e) : e[i].type = type
  /\ \A c \in S : \E i \in (Len(d) + 1)..Len(e) : e[i].type = type /\ e[i].id = c
  /\ \A i, j \in (Len(d) + 1)..Len(e) : e[i].id = e[j].id => i = j

LEMMA BatchIsBehind ==
  ASSUME NEW S \in SUBSET Call, NEW d \in Seq(Frame),
         NEW type \in {"request", "cancel"}, NEW e, e = d \o Batch(type, S)
  PROVE  Behind(e, d, type, S)
<1> DEFINE n == Cardinality(S)
           f == SetToSeq(S)
           q == [i \in 1..n |-> [type |-> type, id |-> f[i]]]
<1>1. IsFiniteSet(S)
  BY FS_Subset, BridgeAssumption
<1>2. n \in Nat /\ f \in [1..n -> S] /\ IsInjective(f)
  BY <1>1, SetToSeqProperties
<1>3. \A x \in S : \E i \in 1..n : f[i] = x
  BY <1>1, SetToSeqProperties
<1>4. e = d \o q
  BY DEF Batch
<1> HIDE DEF n, f
<1>5. /\ q \in [1..n -> Frame]
      /\ \A i \in 1..n : q[i].type = type /\ q[i].id = f[i]
  BY <1>2 DEF Frame
<1> HIDE DEF q
<1>6. q \in Seq(Frame) /\ Len(q) = n
  BY <1>2, <1>5, FunctionIsSeq
<1>7. e \in Seq(Frame) /\ Len(e) = Len(d) + n /\ Len(d) \in Nat
  <2>1. q \in Seq(Frame)
    BY <1>6
  <2>2. e \in Seq(Frame) /\ Len(e) = Len(d) + Len(q) /\ Len(d) \in Nat
    BY ONLY <1>4, <2>1, d \in Seq(Frame)
  <2> QED BY ONLY <1>6, <2>2
<1>8. \A i \in 1..Len(d) : e[i] = d[i]
  BY ONLY <1>4, <1>6, d \in Seq(Frame)
<1>9. \A i \in (Len(d) + 1)..Len(e) : e[i] = q[i - Len(d)]
  BY ONLY <1>4, <1>6, d \in Seq(Frame)
<1>10. \A i \in (Len(d) + 1)..Len(e) : i - Len(d) \in 1..n
  BY ONLY <1>2, <1>7
<1>11. \A i \in (Len(d) + 1)..Len(e) : e[i].type = type /\ e[i].id = f[i - Len(d)]
  BY ONLY <1>5, <1>7, <1>9, <1>10
<1>12. \A i \in (Len(d) + 1)..Len(e) : e[i].id \in S
  BY ONLY <1>2, <1>7, <1>10, <1>11
<1>13. ASSUME NEW c \in S
       PROVE  \E i \in (Len(d) + 1)..Len(e) : e[i].id = c
  <2>1. PICK i \in 1..n : f[i] = c
    BY <1>3
  <2>2. /\ i + Len(d) \in (Len(d) + 1)..Len(e)
        /\ (i + Len(d)) - Len(d) = i
    BY ONLY <1>2, <1>7, i \in 1..n
  <2> QED BY <1>11, <2>1, <2>2
<1>14. ASSUME NEW i \in (Len(d) + 1)..Len(e), NEW j \in (Len(d) + 1)..Len(e),
              e[i].id = e[j].id
       PROVE  i = j
  <2>1. f[i - Len(d)] = f[j - Len(d)]
    BY ONLY <1>11, <1>14
  <2>2. i - Len(d) = j - Len(d)
    BY <1>2, <1>10, <2>1 DEF IsInjective
  <2> QED BY ONLY <1>7, <1>14, <2>2
<1>15. \A c \in S : \E i \in (Len(d) + 1)..Len(e) : e[i].type = type /\ e[i].id = c
  BY ONLY <1>11, <1>13
<1> QED BY <1>7, <1>8, <1>11, <1>12, <1>14, <1>15 DEF Extends, Behind

-----------------------------------------------------------------------------
(* What several actions share.                                             *)

LEMMA CancelEverywhereDoes ==
  ASSUME TypeOK, NEW S \in SUBSET Call, CancelEverywhere(S)
  PROVE  /\ missed \subseteq missed'
         /\ down' = [t \in Tab |-> down'[t]]
         /\ \A t \in Tab :
              /\ Extends(down'[t], down[t], S)
              /\ \A i \in (Len(down[t]) + 1)..Len(down'[t]) : down'[t][i].type = "cancel"
              /\ \A c \in S :
                   \/ <<t, c>> \in missed'
                   \/ \E i \in (Len(down[t]) + 1)..Len(down'[t]) :
                        down'[t][i].type = "cancel" /\ down'[t][i].id = c
<1>1. missed \subseteq missed' /\ down' = [t \in Tab |-> down'[t]]
  BY DEF CancelEverywhere
<1>2. ASSUME NEW t \in Tab, t \in Reached
      PROVE  /\ Extends(down'[t], down[t], S)
             /\ \A i \in (Len(down[t]) + 1)..Len(down'[t]) : down'[t][i].type = "cancel"
             /\ \A c \in S :
                  \E i \in (Len(down[t]) + 1)..Len(down'[t]) :
                    down'[t][i].type = "cancel" /\ down'[t][i].id = c
  <2>1. down'[t] = down[t] \o Batch("cancel", S)
    BY <1>2 DEF CancelEverywhere, Batch, Cancel
  <2>2. down[t] \in Seq(Frame)
    BY DEF TypeOK
  <2>3. Behind(down'[t], down[t], "cancel", S)
    BY <2>1, <2>2, BatchIsBehind
  <2> QED BY <2>3 DEF Behind
<1>3. ASSUME NEW t \in Tab, t \notin Reached
      PROVE  /\ Extends(down'[t], down[t], S)
             /\ \A i \in (Len(down[t]) + 1)..Len(down'[t]) : down'[t][i].type = "cancel"
             /\ \A c \in S : <<t, c>> \in missed'
  <2>1. down'[t] = down[t] /\ \A c \in S : <<t, c>> \in missed'
    BY <1>3 DEF CancelEverywhere
  <2>2. down[t] \in Seq(Frame)
    BY DEF TypeOK
  <2> QED BY <2>1, <2>2 DEF Extends
<1> QED BY <1>1, <1>2, <1>3

(* Calls leave the registry and are cancelled wherever they may be.        *)
LEMMA CancelStep ==
  ASSUME BridgeInv, NEW S \in SUBSET Call, CancelEverywhere(S),
         waiting' = waiting \ S, early' = early, awaited' \subseteq awaited \ S,
         outcome' \in [Call -> Outcome], Used \subseteq Used',
         UNCHANGED <<up, outbox, inFlight, ran>>, S \subseteq waiting
  PROVE  BridgeInv'
<1>i. TypeOK /\ OnTheWayWasMade /\ RequestsAreHeld /\ AskedOnce /\ AnsweredIsDone /\ SidesAgree
  BY DEF BridgeInv
<1>m. missed \subseteq missed'
  BY <1>i, CancelEverywhereDoes
<1>d. ASSUME NEW t \in Tab
      PROVE  /\ down[t] \in Seq(Frame) /\ down'[t] \in Seq(Frame)
             /\ Len(down[t]) \in Nat /\ Len(down'[t]) \in Nat /\ Len(down[t]) <= Len(down'[t])
             /\ \A i \in 1..Len(down[t]) : down'[t][i] = down[t][i]
             /\ \A i \in (Len(down[t]) + 1)..Len(down'[t]) :
                  down'[t][i].type = "cancel" /\ down'[t][i].id \in S
             /\ \A c \in S :
                  \/ <<t, c>> \in missed'
                  \/ \E i \in (Len(down[t]) + 1)..Len(down'[t]) :
                       down'[t][i].type = "cancel" /\ down'[t][i].id = c
  <2>1. down[t] \in Seq(Frame)
    BY <1>i DEF TypeOK
  <2> QED BY <1>i, <2>1, CancelEverywhereDoes DEF Extends
<1>p. ASSUME NEW t \in Tab, NEW i \in 1..Len(down'[t])
      PROVE  i \in 1..Len(down[t]) \/ i \in (Len(down[t]) + 1)..Len(down'[t])
  BY <1>d
<1>r. ASSUME NEW t \in Tab, NEW i \in 1..Len(down'[t]), down'[t][i].type = "request"
      PROVE  i \in 1..Len(down[t]) /\ down'[t][i] = down[t][i]
  BY <1>d, <1>p, <1>r
<1>1. TypeOK'
  <2>1. down' \in [Tab -> Seq(Frame)]
    BY <1>i, <1>d, CancelEverywhereDoes
  <2> QED BY <1>i, <2>1 DEF TypeOK
<1>2. OnTheWayWasMade'
  <2>1. ASSUME NEW t \in Tab, NEW i \in 1..Len(down'[t])
        PROVE  down'[t][i].id \in Used'
    BY <1>i, <1>d, <1>p DEF OnTheWayWasMade
  <2> QED BY <1>i, <2>1 DEF OnTheWayWasMade
<1>3. RequestsAreHeld'
  <2> SUFFICES ASSUME NEW t \in Tab, NEW i \in 1..Len(down'[t]), down'[t][i].type = "request"
               PROVE  \/ down'[t][i].id \in waiting'
                      \/ CancelFollows(down'[t], i)
                      \/ <<t, down'[t][i].id>> \in missed'
    BY DEF RequestsAreHeld, CancelFollows
  <2>1. i \in 1..Len(down[t]) /\ down'[t][i] = down[t][i]
    BY <1>r
  <2>2. CASE down[t][i].id \in S
    <3>1. CASE <<t, down[t][i].id>> \in missed'
      BY <2>1, <3>1
    <3>2. CASE \E j \in (Len(down[t]) + 1)..Len(down'[t]) :
                 down'[t][j].type = "cancel" /\ down'[t][j].id = down[t][i].id
      BY <1>d, <2>1, <3>2 DEF CancelFollows
    <3> QED BY <1>d, <2>2, <3>1, <3>2
  <2>3. CASE CancelFollows(down[t], i)
    BY <1>d, <2>1, <2>3 DEF CancelFollows
  <2> QED BY <1>i, <1>m, <2>1, <2>2, <2>3 DEF RequestsAreHeld
<1>4. AskedOnce'
  <2>1. ASSUME NEW t \in Tab, NEW u \in Tab,
               NEW i \in 1..Len(down'[t]), NEW j \in 1..Len(down'[u]),
               down'[t][i].type = "request", down'[u][j].type = "request",
               down'[t][i].id = down'[u][j].id
        PROVE  t = u /\ i = j
    <3>1. /\ i \in 1..Len(down[t]) /\ down'[t][i] = down[t][i]
          /\ j \in 1..Len(down[u]) /\ down'[u][j] = down[u][j]
      BY <1>r, <2>1
    <3> QED BY <1>i, <2>1, <3>1 DEF AskedOnce
  <2>2. ASSUME NEW t \in Tab, NEW i \in 1..Len(down'[t]), down'[t][i].type = "request"
        PROVE  ran[down'[t][i].id] = <<>>
    BY <1>i, <1>r, <2>2 DEF AskedOnce
  <2> QED BY <1>i, <2>1, <2>2 DEF AskedOnce
<1>5. AnsweredIsDone'
  <2>1. ASSUME NEW x, Quiet(x) PROVE Quiet(x)'
    <3>1. ASSUME NEW t \in Tab, NEW i \in 1..Len(down'[t]), down'[t][i].type = "request"
          PROVE  down'[t][i].id # x
      <4>1. i \in 1..Len(down[t]) /\ down'[t][i] = down[t][i]
        BY <1>r, <3>1
      <4> QED BY <2>1, <3>1, <4>1 DEF Quiet
    <3> QED BY <2>1, <3>1 DEF Quiet
  <2>2. \A t \in Tab : \A c \in inFlight'[t] : ran'[c] = << t >>
    BY <1>i DEF AnsweredIsDone
  <2>3. \A t \in Tab : /\ \A i \in 1..Len(up'[t]) : Quiet(up'[t][i])
                       /\ \A i \in 1..Len(outbox'[t]) : Quiet(outbox'[t][i])
    BY <1>i DEF AnsweredIsDone
  <2> QED BY <2>1, <2>2, <2>3 DEF AnsweredIsDone
<1>6. SidesAgree'
  <2>1. awaited' \subseteq waiting' \ early'
    BY <1>i DEF SidesAgree
  <2>2. ASSUME NEW t \in Tab, NEW c \in inFlight'[t]
        PROVE  c \in waiting' \/ Canceled(t, c)' \/ <<t, c>> \in missed'
    <3>1. CASE c \in S
      BY <1>d, <3>1 DEF Canceled
    <3>2. CASE Canceled(t, c)
      BY <1>d, <3>2 DEF Canceled
    <3> QED BY <1>i, <1>m, <3>1, <3>2 DEF SidesAgree
  <2> QED BY <2>1, <2>2 DEF SidesAgree
<1> QED BY <1>1, <1>2, <1>3, <1>4, <1>5, <1>6 DEF BridgeInv

(* Steps that concern neither what is asked nor what runs. An answer may   *)
(* move between the wire and the outbox, or be taken.                      *)
LEMMA AsideStep ==
  ASSUME BridgeInv, UNCHANGED <<waiting, down, inFlight, ran, missed>>, TypeOK',
         awaited' \subseteq awaited, early' \subseteq early, Used \subseteq Used',
         \A t \in Tab :
           /\ \A i \in 1..Len(up'[t]) :
                \/ \E j \in 1..Len(up[t]) : up'[t][i] = up[t][j]
                \/ \E j \in 1..Len(outbox[t]) : up'[t][i] = outbox[t][j]
           /\ \A i \in 1..Len(outbox'[t]) :
                \E j \in 1..Len(outbox[t]) : outbox'[t][i] = outbox[t][j]
  PROVE  BridgeInv'
<1>i. TypeOK /\ OnTheWayWasMade /\ RequestsAreHeld /\ AskedOnce /\ AnsweredIsDone /\ SidesAgree
  BY DEF BridgeInv
<1>1. OnTheWayWasMade'
  <2>1. ASSUME NEW t \in Tab
        PROVE  /\ \A i \in 1..Len(up'[t]) : up'[t][i] \in Used'
               /\ \A i \in 1..Len(outbox'[t]) : outbox'[t][i] \in Used'
    <3>1. /\ \A i \in 1..Len(up[t]) : up[t][i] \in Used
          /\ \A i \in 1..Len(outbox[t]) : outbox[t][i] \in Used
      BY <1>i DEF OnTheWayWasMade
    <3> QED BY <3>1
  <2> QED BY <1>i, <2>1 DEF OnTheWayWasMade
<1>2. RequestsAreHeld'
  BY <1>i DEF RequestsAreHeld, CancelFollows
<1>3. AskedOnce'
  BY <1>i DEF AskedOnce
<1>4. AnsweredIsDone'
  <2>1. ASSUME NEW c, Quiet(c) PROVE Quiet(c)'
    BY <2>1 DEF Quiet
  <2>2. ASSUME NEW t \in Tab
        PROVE  /\ \A i \in 1..Len(up'[t]) : Quiet(up'[t][i])
               /\ \A i \in 1..Len(outbox'[t]) : Quiet(outbox'[t][i])
    <3>1. /\ \A i \in 1..Len(up[t]) : Quiet(up[t][i])
          /\ \A i \in 1..Len(outbox[t]) : Quiet(outbox[t][i])
      BY <1>i DEF AnsweredIsDone
    <3> QED BY <3>1
  <2> QED BY <1>i, <2>1, <2>2 DEF AnsweredIsDone
<1>5. SidesAgree'
  BY <1>i DEF SidesAgree, Canceled
<1> QED BY <1>1, <1>2, <1>3, <1>4, <1>5 DEF BridgeInv

-----------------------------------------------------------------------------
(* The server's steps.                                                     *)

LEMMA BridgeInit == Init => BridgeInv
<1> SUFFICES ASSUME Init PROVE BridgeInv
  OBVIOUS
<1>1. TypeOK
  BY DEF Init, TypeOK, Outcome
<1>2. \A t \in Tab : Len(down[t]) = 0 /\ Len(up[t]) = 0 /\ Len(outbox[t]) = 0
  BY DEF Init
<1>3. OnTheWayWasMade /\ RequestsAreHeld /\ AskedOnce /\ AnsweredIsDone /\ SidesAgree
  BY <1>2 DEF Init, OnTheWayWasMade, RequestsAreHeld, AskedOnce, AnsweredIsDone, SidesAgree
<1> QED BY <1>1, <1>3 DEF BridgeInv

(* A batch is of calls never made before, so nothing of them is around.    *)
LEMMA DispatchStep ==
  ASSUME BridgeInv, NEW calls \in SUBSET Call, Dispatch(calls)
  PROVE  BridgeInv'
<1>i. TypeOK /\ OnTheWayWasMade /\ RequestsAreHeld /\ AskedOnce /\ AnsweredIsDone /\ SidesAgree
  BY DEF BridgeInv
<1>n. /\ awaited = {} /\ \A c \in calls : c \notin Used
      /\ UNCHANGED <<up, outbox, inFlight, ran, missed>>
  BY DEF Dispatch, pages
<1>e. calls \cap early = {} /\ calls \cap waiting = {}
  BY <1>i, <1>n DEF OnTheWayWasMade
<1>1. CASE sockets = <<>>
  <2>1. /\ UNCHANGED <<awaited, waiting, early, down>>
        /\ outcome' = [c \in Call |-> IF c \in calls THEN "no_client" ELSE outcome[c]]
    BY <1>1 DEF Dispatch, registry
  <2>2. TypeOK'
    BY <1>i, <1>n, <2>1 DEF TypeOK, Outcome
  <2>3. Used \subseteq Used'
    BY <2>1 DEF Used
  <2> QED BY <1>i, <1>n, <2>1, <2>2, <2>3, AsideStep DEF TypeOK
<1>2. CASE sockets # <<>>
  <2> DEFINE h == Head(sockets).tab
             asked == down[h] \o Batch("request", calls)
  <2>1. /\ awaited' = calls /\ waiting' = waiting \cup calls /\ early' = early
        /\ outcome' = [c \in Call |-> outcome[c]]
    BY <1>2, <1>e DEF Dispatch
  <2>2. down' = [down EXCEPT ![h] = asked] \/ down' = down
    BY <1>2 DEF Dispatch, Batch, Request
  <2> HIDE DEF h, asked
  <2>3. Used' = Used \cup calls
    BY <1>i, <1>n, <2>1 DEF Used, TypeOK
  <2>4. ASSUME NEW t \in Tab
        PROVE  \/ down'[t] = down[t]
               \/ t = h /\ Behind(down'[t], down[t], "request", calls)
    <3>1. down[t] \in Seq(Frame) /\ DOMAIN down = Tab
      BY <1>i DEF TypeOK
    <3>2. down'[t] = down[t] \/ (t = h /\ down'[t] = asked)
      BY <2>2, <3>1
    <3> QED BY <3>1, <3>2, BatchIsBehind DEF asked
  <2>5. ASSUME NEW t \in Tab
        PROVE  /\ down[t] \in Seq(Frame) /\ down'[t] \in Seq(Frame)
               /\ Len(down[t]) \in Nat /\ Len(down'[t]) \in Nat /\ Len(down[t]) <= Len(down'[t])
               /\ \A i \in 1..Len(down[t]) : down'[t][i] = down[t][i]
    <3>1. down[t] \in Seq(Frame)
      BY <1>i DEF TypeOK
    <3> QED BY <2>4, <3>1 DEF Behind, Extends
  <2>6. ASSUME NEW t \in Tab, NEW i \in 1..Len(down'[t])
        PROVE  \/ i \in 1..Len(down[t])
               \/ t = h /\ i \in (Len(down[t]) + 1)..Len(down'[t]) /\ down'[t][i].id \in calls
    BY <2>4, <2>5 DEF Behind, Extends
  <2>7. down' \in [Tab -> Seq(Frame)]
    <3>1. DOMAIN down' = Tab /\ down' = [t \in Tab |-> down'[t]]
      BY <1>i, <2>2 DEF TypeOK
    <3> QED BY <2>5, <3>1
  <2>8. TypeOK'
    BY <1>i, <1>n, <2>1, <2>7 DEF TypeOK
  <2>9. OnTheWayWasMade'
    <3>1. ASSUME NEW t \in Tab, NEW i \in 1..Len(down'[t])
          PROVE  down'[t][i].id \in Used'
      BY <1>i, <2>3, <2>5, <2>6 DEF OnTheWayWasMade
    <3>2. waiting' \subseteq Used'
      BY <1>i, <2>1, <2>3 DEF OnTheWayWasMade
    <3> QED BY <1>i, <1>n, <2>1, <2>3, <3>1, <3>2 DEF OnTheWayWasMade
  <2>10. RequestsAreHeld'
    <3> SUFFICES ASSUME NEW t \in Tab, NEW i \in 1..Len(down'[t]), down'[t][i].type = "request"
                 PROVE  \/ down'[t][i].id \in waiting'
                        \/ CancelFollows(down'[t], i)
                        \/ <<t, down'[t][i].id>> \in missed'
      BY DEF RequestsAreHeld, CancelFollows
    <3>1. CASE down'[t][i].id \in calls
      BY <2>1, <3>1
    <3>2. CASE i \in 1..Len(down[t])
      <4>1. CASE CancelFollows(down[t], i)
        BY <2>5, <3>2, <4>1 DEF CancelFollows
      <4> QED BY <1>i, <1>n, <2>1, <2>5, <3>2, <4>1 DEF RequestsAreHeld
    <3> QED BY <2>6, <3>1, <3>2
  <2>11. AskedOnce'
    <3>1. ASSUME NEW t \in Tab, NEW i \in 1..Len(down[t])
          PROVE  down[t][i].id \notin calls
      BY <1>i, <1>n DEF OnTheWayWasMade
    <3>2. ASSUME NEW t \in Tab, NEW u \in Tab,
                 NEW i \in 1..Len(down'[t]), NEW j \in 1..Len(down'[u]),
                 down'[t][i].type = "request", down'[u][j].type = "request",
                 down'[t][i].id = down'[u][j].id
          PROVE  t = u /\ i = j
      <4>1. CASE i \in 1..Len(down[t]) /\ j \in 1..Len(down[u])
        <5>1. down'[t][i] = down[t][i] /\ down'[u][j] = down[u][j]
          BY <2>5, <4>1
        <5> QED BY <1>i, <3>2, <4>1, <5>1 DEF AskedOnce
      <4>2. CASE /\ t = h /\ i \in (Len(down[t]) + 1)..Len(down'[t])
                 /\ u = h /\ j \in (Len(down[u]) + 1)..Len(down'[u])
        <5>1. down'[t] # down[t]
          BY <2>5, <4>2
        <5> QED BY <2>4, <3>2, <4>2, <5>1 DEF Behind
      <4>3. CASE i \in 1..Len(down[t]) /\ down'[u][j].id \in calls
        BY <2>5, <3>1, <3>2, <4>3
      <4>4. CASE j \in 1..Len(down[u]) /\ down'[t][i].id \in calls
        BY <2>5, <3>1, <3>2, <4>4
      <4> QED BY <2>6, <4>1, <4>2, <4>3, <4>4
    <3>3. ASSUME NEW t \in Tab, NEW i \in 1..Len(down'[t]), down'[t][i].type = "request"
          PROVE  ran[down'[t][i].id] = <<>>
      <4>1. CASE i \in 1..Len(down[t])
        <5>1. down'[t][i] = down[t][i]
          BY <2>5, <4>1
        <5> QED BY <1>i, <3>3, <4>1, <5>1 DEF AskedOnce
      <4>2. CASE down'[t][i].id \in calls
        BY <1>i, <1>n, <4>2 DEF OnTheWayWasMade
      <4> QED BY <2>6, <4>1, <4>2
    <3> QED BY <1>i, <1>n, <3>2, <3>3 DEF AskedOnce
  <2>12. AnsweredIsDone'
    <3>1. ASSUME NEW c \in Used, Quiet(c) PROVE Quiet(c)'
      BY <1>n, <2>5, <2>6, <3>1 DEF Quiet
    <3> QED BY <1>i, <1>n, <3>1 DEF AnsweredIsDone, OnTheWayWasMade
  <2>13. SidesAgree'
    <3>1. ASSUME NEW t \in Tab, NEW c, Canceled(t, c) PROVE Canceled(t, c)'
      BY <2>5, <3>1 DEF Canceled
    <3>2. awaited' \subseteq waiting' \ early'
      BY <1>e, <2>1
    <3> QED BY <1>i, <1>n, <2>1, <3>1, <3>2 DEF SidesAgree
  <2> QED BY <2>8, <2>9, <2>10, <2>11, <2>12, <2>13 DEF BridgeInv
<1> QED BY <1>1, <1>2

(* An answer settles its call, or is held for a call that is settled.      *)
LEMMA AnswerArrivesStep ==
  ASSUME BridgeInv, NEW t \in Tab, AnswerArrives(t)
  PROVE  BridgeInv'
<1>i. TypeOK /\ OnTheWayWasMade /\ RequestsAreHeld /\ AskedOnce /\ AnsweredIsDone /\ SidesAgree
  BY DEF BridgeInv
<1> DEFINE c == Head(up[t])
<1>1. UNCHANGED <<down, outbox, inFlight, ran, missed>>
  BY DEF AnswerArrives, pages
<1>2. /\ up[t] \in Seq(Call) /\ up[t] # <<>> /\ up' = [up EXCEPT ![t] = Tail(up[t])]
  BY <1>i DEF TypeOK, AnswerArrives
<1>3. /\ c \in Call /\ c = up[t][1] /\ 1 \in 1..Len(up[t])
      /\ Tail(up[t]) \in Seq(Call)
      /\ \A i \in 1..Len(Tail(up[t])) :
           i + 1 \in 1..Len(up[t]) /\ Tail(up[t])[i] = up[t][i + 1]
  BY <1>2
<1>4. c \in Used /\ Quiet(c)
  BY <1>i, <1>3 DEF OnTheWayWasMade, AnsweredIsDone
<1>5. up' \in [Tab -> Seq(Call)]
  BY <1>i, <1>2, <1>3 DEF TypeOK
<1>6. ASSUME NEW u \in Tab, NEW i \in 1..Len(up'[u])
      PROVE  \E j \in 1..Len(up[u]) : up'[u][i] = up[u][j]
  <2>1. CASE u = t
    <3>1. up'[u] = Tail(up[t])
      BY <1>i, <1>2, <2>1 DEF TypeOK
    <3> QED BY <1>3, <2>1, <3>1
  <2>2. CASE u # t
    BY <1>i, <1>2, <2>2 DEF TypeOK
  <2> QED BY <2>1, <2>2
<1> HIDE DEF c
<1>7. CASE UNCHANGED <<session, registry>>
  <2>1. TypeOK' /\ Used' = Used
    BY <1>i, <1>1, <1>5, <1>7 DEF TypeOK, Used, session, registry
  <2>2. UNCHANGED <<waiting, awaited, early>>
    BY <1>7 DEF session, registry
  <2> QED BY <1>1, <1>6, <2>1, <2>2, AsideStep
<1>8. CASE early' = early \cup {c} /\ UNCHANGED <<session, waiting>> /\ c \notin waiting
  <2>1. TypeOK' /\ Used' = Used
    BY <1>i, <1>1, <1>3, <1>5, <1>8 DEF TypeOK, Used, session, c
  <2>2. OnTheWayWasMade'
    <3>1. ASSUME NEW u \in Tab, NEW i \in 1..Len(up'[u]) PROVE up'[u][i] \in Used
      BY <1>i, <1>6 DEF OnTheWayWasMade
    <3> QED BY <1>i, <1>1, <1>4, <1>8, <2>1, <3>1 DEF OnTheWayWasMade
  <2>3. RequestsAreHeld' /\ AskedOnce'
    BY <1>i, <1>1, <1>8 DEF RequestsAreHeld, AskedOnce, CancelFollows
  <2>4. AnsweredIsDone'
    <3>1. ASSUME NEW x, Quiet(x) PROVE Quiet(x)'
      BY <1>1, <3>1 DEF Quiet
    <3>2. ASSUME NEW u \in Tab, NEW i \in 1..Len(up'[u]) PROVE Quiet(up'[u][i])
      BY <1>i, <1>6 DEF AnsweredIsDone
    <3> QED BY <1>i, <1>1, <3>1, <3>2 DEF AnsweredIsDone
  <2>5. SidesAgree'
    BY <1>i, <1>1, <1>8 DEF SidesAgree, Canceled, session
  <2> QED BY <2>1, <2>2, <2>3, <2>4, <2>5 DEF BridgeInv
<1>9. CASE c \in waiting /\ Settle({c}, "client") /\ UNCHANGED early
  <2>1. /\ waiting' = waiting \ {c} /\ awaited' = awaited \ {c}
        /\ outcome' = [x \in Call |-> IF x \in {c} \cap awaited THEN "client" ELSE outcome[x]]
    BY <1>9 DEF Settle
  <2>2. TypeOK'
    BY <1>i, <1>1, <1>5, <1>9, <2>1 DEF TypeOK, Outcome
  <2>3. Used \subseteq Used'
    BY <1>i, <2>1 DEF Used, TypeOK
  <2>4. OnTheWayWasMade'
    <3>1. ASSUME NEW u \in Tab, NEW i \in 1..Len(up'[u]) PROVE up'[u][i] \in Used
      BY <1>i, <1>6 DEF OnTheWayWasMade
    <3> QED BY <1>i, <1>1, <1>9, <2>1, <2>3, <3>1 DEF OnTheWayWasMade
  <2>5. RequestsAreHeld'
    BY <1>i, <1>1, <1>4, <2>1 DEF RequestsAreHeld, CancelFollows, Quiet
  <2>6. AskedOnce'
    BY <1>i, <1>1 DEF AskedOnce
  <2>7. AnsweredIsDone'
    <3>1. ASSUME NEW x, Quiet(x) PROVE Quiet(x)'
      BY <1>1, <3>1 DEF Quiet
    <3>2. ASSUME NEW u \in Tab, NEW i \in 1..Len(up'[u]) PROVE Quiet(up'[u][i])
      BY <1>i, <1>6 DEF AnsweredIsDone
    <3> QED BY <1>i, <1>1, <3>1, <3>2 DEF AnsweredIsDone
  <2>8. SidesAgree'
    BY <1>i, <1>1, <1>4, <1>9, <2>1 DEF SidesAgree, Canceled, Quiet
  <2> QED BY <2>2, <2>4, <2>5, <2>6, <2>7, <2>8 DEF BridgeInv
<1> QED BY <1>7, <1>8, <1>9 DEF AnswerArrives, c

(* What ends a call in the runner alone, and a timer of an early answer.   *)
LEMMA RunnerEndsStep ==
  ASSUME BridgeInv,
         \/ \E c \in Call : EarlyExpires(c)
         \/ Interrupt
         \/ Close
  PROVE  BridgeInv'
<1>i. TypeOK
  BY DEF BridgeInv
<1>1. UNCHANGED <<waiting, down, up, outbox, inFlight, ran, missed>>
  BY DEF EarlyExpires, Interrupt, Close, registry, wire, pages
<1>2. /\ early' \subseteq early /\ awaited' \subseteq awaited
      /\ \/ UNCHANGED <<awaited, outcome>>
         \/ /\ awaited' = {}
            /\ outcome' = [c \in Call |-> IF c \in awaited THEN "interrupted" ELSE outcome[c]]
  BY DEF EarlyExpires, Interrupt, Close, registry, session
<1>3. TypeOK'
  BY <1>i, <1>1, <1>2 DEF TypeOK, Outcome
<1>4. Used \subseteq Used'
  BY <1>i, <1>2 DEF TypeOK, Used
<1> QED BY <1>1, <1>2, <1>3, <1>4, AsideStep

(* A timer, and the end of the session: the tabs are told.                 *)
LEMMA TimeoutStep ==
  ASSUME BridgeInv, NEW c \in Call, Timeout(c)
  PROVE  BridgeInv'
<1>i. TypeOK
  BY DEF BridgeInv
<1>1. /\ c \in waiting /\ waiting' = waiting \ {c} /\ awaited' = awaited \ {c}
      /\ outcome' = [x \in Call |-> IF x \in {c} \cap awaited THEN "timeout" ELSE outcome[x]]
      /\ CancelEverywhere({c}) /\ UNCHANGED <<early, up, outbox, inFlight, ran>>
  BY DEF Timeout, Settle, pages
<1>2. outcome' \in [Call -> Outcome] /\ Used \subseteq Used'
  BY <1>i, <1>1 DEF TypeOK, Used, Outcome
<1>3. {c} \in SUBSET Call /\ {c} \subseteq waiting
  BY <1>1
<1> HIDE DEF CancelEverywhere
<1> QED BY <1>1, <1>2, <1>3, CancelStep

LEMMA DeleteStep ==
  ASSUME BridgeInv, Delete
  PROVE  BridgeInv'
<1>i. TypeOK
  BY DEF BridgeInv
<1>1. /\ waiting' = waiting \ waiting /\ awaited' = {}
      /\ outcome' = [c \in Call |-> IF c \in awaited THEN "interrupted" ELSE outcome[c]]
      /\ CancelEverywhere(waiting) /\ UNCHANGED <<early, up, outbox, inFlight, ran>>
  BY DEF Delete, pages
<1>2. outcome' \in [Call -> Outcome] /\ Used \subseteq Used'
  BY <1>i, <1>1 DEF TypeOK, Used, Outcome
<1>3. waiting \in SUBSET Call /\ waiting \subseteq waiting /\ awaited' \subseteq awaited \ waiting
  BY <1>i, <1>1 DEF TypeOK
<1> QED BY <1>1, <1>2, <1>3, CancelStep

-----------------------------------------------------------------------------
(* Connections and tabs.                                                   *)

(* A tab that attaches sends what waited for it.                           *)
LEMMA AttachStep ==
  ASSUME BridgeInv, NEW t \in Tab, Attach(t)
  PROVE  BridgeInv'
<1>i. TypeOK
  BY DEF BridgeInv
<1>1. /\ UNCHANGED <<waiting, down, inFlight, ran, missed, awaited, early, outcome>>
      /\ up' = [up EXCEPT ![t] = outbox[t]] /\ outbox' = [outbox EXCEPT ![t] = <<>>]
  BY DEF Attach, session, registry, pages
<1>2. TypeOK'
  BY <1>i, <1>1 DEF TypeOK
<1>3. Used' = Used
  BY <1>1 DEF Used
<1>4. ASSUME NEW u \in Tab
      PROVE  /\ \A i \in 1..Len(up'[u]) :
                  \/ \E j \in 1..Len(up[u]) : up'[u][i] = up[u][j]
                  \/ \E j \in 1..Len(outbox[u]) : up'[u][i] = outbox[u][j]
             /\ \A i \in 1..Len(outbox'[u]) :
                  \E j \in 1..Len(outbox[u]) : outbox'[u][i] = outbox[u][j]
  <2>1. CASE u = t
    <3>1. up'[u] = outbox[u] /\ outbox'[u] = <<>> /\ Len(<<>>) = 0
      BY <1>i, <1>1, <2>1 DEF TypeOK
    <3> QED BY <3>1
  <2>2. CASE u # t
    BY <1>i, <1>1, <2>2 DEF TypeOK
  <2> QED BY <2>1, <2>2
<1> QED BY <1>1, <1>2, <1>3, <1>4, AsideStep

(* A closed socket is dropped; a page sets its host up.                    *)
LEMMA NoticeOrSetUpStep ==
  ASSUME BridgeInv, Notice \/ \E t \in Tab : SetUp(t)
  PROVE  BridgeInv'
<1>1. /\ UNCHANGED <<waiting, down, inFlight, ran, missed, awaited, early, outcome>>
      /\ UNCHANGED <<up, outbox>>
  BY DEF Notice, SetUp, session, registry, wire, pages
<1>2. TypeOK' /\ Used' = Used
  BY <1>1 DEF BridgeInv, TypeOK, Used
<1> QED BY <1>1, <1>2, AsideStep

(* What a broken connection loses: the requests, which nobody will run,    *)
(* and the cancellations, which are missed.                                *)
LEMMA BreakStep ==
  ASSUME BridgeInv, NEW t \in Tab, Break(t)
  PROVE  BridgeInv'
<1>i. TypeOK /\ OnTheWayWasMade /\ RequestsAreHeld /\ AskedOnce /\ AnsweredIsDone /\ SidesAgree
  BY DEF BridgeInv
<1>1. /\ UNCHANGED <<awaited, outcome, waiting, early, outbox, inFlight, ran>>
      /\ down' = [down EXCEPT ![t] = <<>>] /\ up' = [up EXCEPT ![t] = <<>>]
      /\ missed' = missed \cup {<<t, f.id>> : f \in {x \in ToSet(down[t]) : x.type = "cancel"}}
  BY DEF Break, session, registry, pages
<1>2. ASSUME NEW u \in Tab
      PROVE  /\ u # t => down'[u] = down[u] /\ up'[u] = up[u]
             /\ u = t => Len(down'[u]) = 0 /\ Len(up'[u]) = 0
  BY <1>i, <1>1 DEF TypeOK
<1>3. TypeOK' /\ Used' = Used
  BY <1>i, <1>1 DEF TypeOK, Used
<1>4. ASSUME NEW c, Canceled(t, c) PROVE <<t, c>> \in missed'
  <2>1. PICK j \in 1..Len(down[t]) : down[t][j].type = "cancel" /\ down[t][j].id = c
    BY <1>4 DEF Canceled
  <2>2. down[t][j] \in ToSet(down[t])
    BY <1>i DEF TypeOK, ToSet
  <2> QED BY <1>1, <2>1, <2>2
<1>5. OnTheWayWasMade'
  BY <1>i, <1>1, <1>2, <1>3 DEF OnTheWayWasMade
<1>6. RequestsAreHeld'
  BY <1>i, <1>1, <1>2 DEF RequestsAreHeld, CancelFollows
<1>7. AskedOnce'
  BY <1>i, <1>1, <1>2 DEF AskedOnce
<1>8. AnsweredIsDone'
  <2>1. ASSUME NEW c, Quiet(c) PROVE Quiet(c)'
    BY <1>1, <1>2, <2>1 DEF Quiet
  <2> QED BY <1>i, <1>1, <1>2, <2>1 DEF AnsweredIsDone
<1>9. SidesAgree'
  <2>1. ASSUME NEW u \in Tab, NEW c \in inFlight'[u]
        PROVE  c \in waiting' \/ Canceled(u, c)' \/ <<u, c>> \in missed'
    <3>1. c \in waiting \/ Canceled(u, c) \/ <<u, c>> \in missed
      BY <1>i, <1>1 DEF SidesAgree
    <3>2. CASE u # t /\ Canceled(u, c)
      BY <1>2, <3>2 DEF Canceled
    <3> QED BY <1>1, <1>4, <3>1, <3>2
  <2> QED BY <1>i, <1>1, <2>1 DEF SidesAgree
<1> QED BY <1>3, <1>5, <1>6, <1>7, <1>8, <1>9 DEF BridgeInv

LEMMA DisposeStep ==
  ASSUME BridgeInv, NEW t \in Tab, Dispose(t)
  PROVE  BridgeInv'
<1>i. TypeOK /\ OnTheWayWasMade /\ RequestsAreHeld /\ AskedOnce /\ AnsweredIsDone /\ SidesAgree
  BY DEF BridgeInv
<1>1. /\ UNCHANGED <<awaited, outcome, waiting, early, down, up, outbox, ran, missed>>
      /\ inFlight' = [inFlight EXCEPT ![t] = {}]
  BY DEF Dispose, session, registry, wire
<1>2. ASSUME NEW u \in Tab PROVE inFlight'[u] \subseteq inFlight[u]
  BY <1>i, <1>1 DEF TypeOK
<1>3. TypeOK' /\ Used' = Used
  BY <1>i, <1>1 DEF TypeOK, Used
<1>4. OnTheWayWasMade'
  BY <1>i, <1>1, <1>2, <1>3 DEF OnTheWayWasMade
<1>5. RequestsAreHeld' /\ AskedOnce'
  BY <1>i, <1>1 DEF RequestsAreHeld, CancelFollows, AskedOnce
<1>6. AnsweredIsDone'
  <2>1. ASSUME NEW c, Quiet(c) PROVE Quiet(c)'
    BY <1>1, <1>2, <2>1 DEF Quiet
  <2> QED BY <1>i, <1>1, <1>2, <2>1 DEF AnsweredIsDone
<1>7. SidesAgree'
  BY <1>i, <1>1, <1>2 DEF SidesAgree, Canceled
<1> QED BY <1>3, <1>4, <1>5, <1>6, <1>7 DEF BridgeInv

(* An answer of a call that is quiet now goes out or into the outbox.      *)
AnswerIsLast(after, before, c) ==
  \A i \in 1..Len(after) : after[i] = c \/ \E j \in 1..Len(before) : after[i] = before[j]

LEMMA AnswerDoes ==
  ASSUME TypeOK, NEW t \in Tab, NEW c \in Call, Answer(t, c)
  PROVE  /\ up' \in [Tab -> Seq(Call)] /\ outbox' \in [Tab -> Seq(Call)]
         /\ \A u \in Tab : /\ AnswerIsLast(up'[u], up[u], c)
                           /\ AnswerIsLast(outbox'[u], outbox[u], c)
<1>1. ASSUME NEW q \in [Tab -> Seq(Call)], NEW u \in Tab
      PROVE  AnswerIsLast([q EXCEPT ![t] = Append(@, c)][u], q[u], c)
  <2>1. CASE u = t
    <3>1. [q EXCEPT ![t] = Append(@, c)][u] = Append(q[t], c)
      BY <2>1
    <3>2. q[t] \in Seq(Call)
      OBVIOUS
    <3>3. ASSUME NEW i \in 1..Len(Append(q[t], c))
          PROVE  Append(q[t], c)[i] = c \/ \E j \in 1..Len(q[t]) : Append(q[t], c)[i] = q[t][j]
      <4>1. i \in 1..Len(q[t]) \/ i = Len(q[t]) + 1
        BY <3>2
      <4>2. CASE i \in 1..Len(q[t])
        BY <3>2, <4>2
      <4>3. CASE i = Len(q[t]) + 1
        BY <3>2, <4>3
      <4> QED BY <4>1, <4>2, <4>3
    <3> QED BY <2>1, <3>1, <3>3 DEF AnswerIsLast
  <2>2. CASE u # t
    BY <2>2 DEF AnswerIsLast
  <2> QED BY <2>1, <2>2
<1>2. ASSUME NEW q \in [Tab -> Seq(Call)], NEW u \in Tab PROVE AnswerIsLast(q[u], q[u], c)
  BY DEF AnswerIsLast
<1>3. up \in [Tab -> Seq(Call)] /\ outbox \in [Tab -> Seq(Call)]
  BY DEF TypeOK
<1>4. ASSUME NEW q \in [Tab -> Seq(Call)]
      PROVE  [q EXCEPT ![t] = Append(@, c)] \in [Tab -> Seq(Call)]
  OBVIOUS
<1>5. CASE t \in linked
  <2>1. up' = [up EXCEPT ![t] = Append(@, c)] /\ outbox' = outbox
    BY <1>5 DEF Answer
  <2>2. \A u \in Tab : AnswerIsLast(up'[u], up[u], c)
    BY <1>1, <1>3, <2>1
  <2> QED BY <1>2, <1>3, <1>4, <2>1, <2>2
<1>6. CASE t \notin linked
  <2>1. outbox' = [outbox EXCEPT ![t] = Append(@, c)] /\ up' = up
    BY <1>6 DEF Answer
  <2>2. \A u \in Tab : AnswerIsLast(outbox'[u], outbox[u], c)
    BY <1>1, <1>3, <2>1
  <2> QED BY <1>2, <1>3, <1>4, <2>1, <2>2
<1> QED BY <1>5, <1>6

LEMMA FinishesStep ==
  ASSUME BridgeInv, NEW t \in Tab, NEW c \in Call, Finishes(t, c)
  PROVE  BridgeInv'
<1>i. TypeOK /\ OnTheWayWasMade /\ RequestsAreHeld /\ AskedOnce /\ AnsweredIsDone /\ SidesAgree
  BY DEF BridgeInv
<1>1. /\ UNCHANGED <<awaited, outcome, waiting, early, down, ran, missed>>
      /\ c \in inFlight[t] /\ inFlight' = [inFlight EXCEPT ![t] = @ \ {c}] /\ Answer(t, c)
  BY DEF Finishes, session, registry
<1>2. /\ \A u \in Tab : inFlight'[u] \subseteq inFlight[u]
      /\ c \notin inFlight'[t]
  BY <1>i, <1>1 DEF TypeOK
<1>3. c \in Used /\ ran[c] = << t >>
  BY <1>i, <1>1 DEF OnTheWayWasMade, AnsweredIsDone
<1>4. Quiet(c)'
  <2>1. ASSUME NEW u \in Tab PROVE c \notin inFlight'[u]
    BY <1>i, <1>2, <1>3 DEF AskedOnce, AnsweredIsDone
  <2>2. ASSUME NEW u \in Tab, NEW i \in 1..Len(down'[u]), down'[u][i].type = "request"
        PROVE  down'[u][i].id # c
    BY <1>i, <1>1, <1>3, <2>2 DEF AskedOnce
  <2> QED BY <2>1, <2>2 DEF Quiet
<1>5. /\ up' \in [Tab -> Seq(Call)] /\ outbox' \in [Tab -> Seq(Call)]
      /\ \A u \in Tab : /\ AnswerIsLast(up'[u], up[u], c)
                        /\ AnswerIsLast(outbox'[u], outbox[u], c)
  BY <1>i, <1>1, AnswerDoes
<1>6. TypeOK' /\ Used' = Used
  BY <1>i, <1>1, <1>5 DEF TypeOK, Used
<1>7. OnTheWayWasMade'
  <2>1. ASSUME NEW u \in Tab
        PROVE  /\ \A i \in 1..Len(up'[u]) : up'[u][i] \in Used
               /\ \A i \in 1..Len(outbox'[u]) : outbox'[u][i] \in Used
    <3>1. /\ \A i \in 1..Len(up[u]) : up[u][i] \in Used
          /\ \A i \in 1..Len(outbox[u]) : outbox[u][i] \in Used
      BY <1>i DEF OnTheWayWasMade
    <3>2. AnswerIsLast(up'[u], up[u], c) /\ AnswerIsLast(outbox'[u], outbox[u], c)
      BY <1>5
    <3> QED BY <1>3, <3>1, <3>2 DEF AnswerIsLast
  <2> QED BY <1>i, <1>1, <1>2, <1>6, <2>1 DEF OnTheWayWasMade
<1>8. RequestsAreHeld' /\ AskedOnce'
  BY <1>i, <1>1 DEF RequestsAreHeld, CancelFollows, AskedOnce
<1>9. AnsweredIsDone'
  <2>1. ASSUME NEW x, Quiet(x) PROVE Quiet(x)'
    BY <1>1, <1>2, <2>1 DEF Quiet
  <2>2. ASSUME NEW u \in Tab
        PROVE  /\ \A i \in 1..Len(up'[u]) : up'[u][i] = c \/ Quiet(up'[u][i])
               /\ \A i \in 1..Len(outbox'[u]) : outbox'[u][i] = c \/ Quiet(outbox'[u][i])
    BY <1>i, <1>5 DEF AnsweredIsDone, AnswerIsLast
  <2> QED BY <1>i, <1>1, <1>2, <1>4, <2>1, <2>2 DEF AnsweredIsDone
<1>10. SidesAgree'
  BY <1>i, <1>1, <1>2 DEF SidesAgree, Canceled
<1> QED BY <1>6, <1>7, <1>8, <1>9, <1>10 DEF BridgeInv

(* A frame is taken: what is behind it moves up one place.                 *)
Taken(after, before) ==
  /\ after \in Seq(Frame) /\ Len(after) = Len(before) - 1
  /\ Len(before) \in Nat /\ 1 <= Len(before)
  /\ \A i \in 1..Len(after) : i + 1 \in 1..Len(before) /\ after[i] = before[i + 1]

LEMMA TakenFrame ==
  ASSUME NEW q \in Seq(Frame), q # <<>>
  PROVE  Taken(Tail(q), q) /\ Head(q) = q[1] /\ Head(q) \in Frame
BY DEF Taken

LEMMA FrameArrivesStep ==
  ASSUME BridgeInv, NEW t \in Tab, FrameArrives(t)
  PROVE  BridgeInv'
<1>i. TypeOK /\ OnTheWayWasMade /\ RequestsAreHeld /\ AskedOnce /\ AnsweredIsDone /\ SidesAgree
  BY DEF BridgeInv
<1> DEFINE f == Head(down[t])
<1>1. /\ UNCHANGED <<awaited, outcome, waiting, early, missed>>
      /\ down[t] # <<>> /\ down' = [down EXCEPT ![t] = Tail(@)]
      /\ \/ /\ f.type = "request"
            /\ inFlight' = [inFlight EXCEPT ![t] = @ \cup {f.id}]
            /\ ran' = [ran EXCEPT ![f.id] = Append(@, t)]
            /\ UNCHANGED <<up, outbox>>
         \/ f.type = "request" /\ Answer(t, f.id) /\ UNCHANGED <<inFlight, ran>>
         \/ /\ f.type = "cancel"
            /\ inFlight' = [inFlight EXCEPT ![t] = @ \ {f.id}]
            /\ UNCHANGED <<up, outbox, ran>>
         \/ f.type = "request" /\ UNCHANGED <<up, outbox, inFlight, ran>>
  <2>2. /\ UNCHANGED <<awaited, outcome, waiting, early, missed>>
        /\ down[t] # <<>> /\ down' = [down EXCEPT ![t] = Tail(@)]
    BY DEF FrameArrives, session, registry
  <2>1. f.type \in {"request", "cancel"}
    <3>1. down[t] \in Seq(Frame) /\ down[t] # <<>>
      BY <1>i, <2>2 DEF TypeOK
    <3>2. f \in Frame
      BY <3>1, TakenFrame
    <3> QED BY <3>2 DEF Frame
  <2> HIDE DEF f
  <2> QED BY <2>1, <2>2 DEF FrameArrives, f
<1>2. /\ Taken(down'[t], down[t]) /\ f = down[t][1] /\ f.id \in Call /\ 1 \in 1..Len(down[t])
      /\ down' \in [Tab -> Seq(Frame)]
      /\ \A u \in Tab : u # t => down'[u] = down[u]
  <2>1. down[t] \in Seq(Frame) /\ down[t] # <<>>
    BY <1>i, <1>1 DEF TypeOK
  <2>2. down'[t] = Tail(down[t]) /\ \A u \in Tab : u # t => down'[u] = down[u]
    BY <1>i, <1>1 DEF TypeOK
  <2>3. Taken(Tail(down[t]), down[t]) /\ f = down[t][1] /\ f \in Frame
    BY <2>1, TakenFrame
  <2>4. f.id \in Call
    BY <2>3 DEF Frame
  <2>5. down' \in [Tab -> Seq(Frame)]
    BY <1>i, <1>1, <2>2, <2>3 DEF TypeOK, Taken
  <2> QED BY <2>2, <2>3, <2>4, <2>5 DEF Taken
<1> HIDE DEF f
<1>3. ASSUME NEW u \in Tab, NEW i \in 1..Len(down'[u])
      PROVE  \E j \in 1..Len(down[u]) :
               /\ down'[u][i] = down[u][j]
               /\ j = IF u = t THEN i + 1 ELSE i
  BY <1>2 DEF Taken
<1>4. ASSUME NEW u \in Tab, NEW c, Canceled(u, c)
      PROVE  Canceled(u, c)' \/ (u = t /\ f.type = "cancel" /\ f.id = c)
  <2>1. PICK j \in 1..Len(down[u]) : down[u][j].type = "cancel" /\ down[u][j].id = c
    BY <1>4 DEF Canceled
  <2>2. CASE u # t
    BY <1>2, <2>1, <2>2 DEF Canceled
  <2>3. CASE u = t /\ j = 1
    BY <1>2, <2>1, <2>3
  <2>4. CASE u = t /\ j # 1
    <3>1. j - 1 \in 1..Len(down'[u]) /\ down'[u][j - 1] = down[u][j]
      BY <1>2, <2>4 DEF Taken
    <3> QED BY <2>1, <3>1 DEF Canceled
  <2> QED BY <2>2, <2>3, <2>4
<1>5. RequestsAreHeld'
  <2> SUFFICES ASSUME NEW u \in Tab, NEW i \in 1..Len(down'[u]), down'[u][i].type = "request"
               PROVE  \/ down'[u][i].id \in waiting'
                      \/ CancelFollows(down'[u], i)
                      \/ <<u, down'[u][i].id>> \in missed'
    BY DEF RequestsAreHeld, CancelFollows
  <2>1. PICK j \in 1..Len(down[u]) :
          down'[u][i] = down[u][j] /\ j = IF u = t THEN i + 1 ELSE i
    BY <1>3
  <2>2. CASE CancelFollows(down[u], j)
    <3>1. PICK k \in 1..Len(down[u]) :
            j < k /\ down[u][k].type = "cancel" /\ down[u][k].id = down[u][j].id
      BY <2>2 DEF CancelFollows
    <3>2. CASE u = t
      <4>1. k - 1 \in 1..Len(down'[u]) /\ down'[u][k - 1] = down[u][k] /\ i < k - 1
        BY <1>2, <2>1, <3>1, <3>2 DEF Taken
      <4> QED BY <2>1, <3>1, <4>1 DEF CancelFollows
    <3>3. CASE u # t
      BY <1>2, <2>1, <2>2, <3>3
    <3> QED BY <3>2, <3>3
  <2>3. UNCHANGED <<waiting, missed>>
    BY <1>1
  <2>4. \/ down[u][j].id \in waiting
        \/ CancelFollows(down[u], j)
        \/ <<u, down[u][j].id>> \in missed
    BY <1>i, <2>1 DEF RequestsAreHeld
  <2> QED BY <2>1, <2>2, <2>3, <2>4
<1>6. ASSUME NEW u \in Tab, NEW v \in Tab,
             NEW i \in 1..Len(down'[u]), NEW j \in 1..Len(down'[v]),
             down'[u][i].type = "request", down'[v][j].type = "request",
             down'[u][i].id = down'[v][j].id
      PROVE  u = v /\ i = j
  <2>1. PICK k \in 1..Len(down[u]) :
          down'[u][i] = down[u][k] /\ k = IF u = t THEN i + 1 ELSE i
    BY <1>3
  <2>2. PICK l \in 1..Len(down[v]) :
          down'[v][j] = down[v][l] /\ l = IF v = t THEN j + 1 ELSE j
    BY <1>3
  <2>3. u = v /\ k = l
    BY <1>i, <1>6, <2>1, <2>2 DEF AskedOnce
  <2>4. i \in Int /\ j \in Int
    OBVIOUS
  <2> QED BY <2>1, <2>2, <2>3, <2>4
<1>7. f.type = "request" =>
        /\ ran[f.id] = <<>>
        /\ \A u \in Tab : f.id \notin inFlight[u]
        /\ \A u \in Tab : \A i \in 1..Len(down'[u]) :
             down'[u][i].type = "request" => down'[u][i].id # f.id
  <2> SUFFICES ASSUME f.type = "request"
               PROVE  /\ ran[f.id] = <<>>
                      /\ \A u \in Tab : f.id \notin inFlight[u]
                      /\ \A u \in Tab : \A i \in 1..Len(down'[u]) :
                           down'[u][i].type = "request" => down'[u][i].id # f.id
    OBVIOUS
  <2>1. ran[f.id] = <<>>
    BY <1>i, <1>2 DEF AskedOnce
  <2>2. ASSUME NEW u \in Tab PROVE f.id \notin inFlight[u]
    <3>1. << u >> # <<>>
      OBVIOUS
    <3>2. f.id \in inFlight[u] => ran[f.id] = << u >>
      BY <1>i DEF AnsweredIsDone
    <3> QED BY <2>1, <3>1, <3>2
  <2>3. ASSUME NEW u \in Tab, NEW i \in 1..Len(down'[u]),
               down'[u][i].type = "request", down'[u][i].id = f.id
        PROVE  FALSE
    <3>1. PICK k \in 1..Len(down[u]) :
            down'[u][i] = down[u][k] /\ k = IF u = t THEN i + 1 ELSE i
      BY <1>3
    <3>2. u = t /\ k = 1
      BY <1>i, <1>2, <2>3, <3>1 DEF AskedOnce
    <3>3. i \in Int /\ i >= 1
      OBVIOUS
    <3> QED BY <3>1, <3>2, <3>3
  <2> QED BY <2>1, <2>2, <2>3
<1>8. Used' = Used /\ f.id \in Used
  BY <1>i, <1>1, <1>2 DEF Used, OnTheWayWasMade
<1>9. \A u \in Tab : \A i \in 1..Len(down'[u]) : down'[u][i].id \in Used
  BY <1>i, <1>3 DEF OnTheWayWasMade
<1>10. ASSUME NEW x, Quiet(x), \A u \in Tab : x \notin inFlight'[u]
       PROVE  Quiet(x)'
  <2>1. ASSUME NEW u \in Tab, NEW i \in 1..Len(down'[u]), down'[u][i].type = "request"
        PROVE  down'[u][i].id # x
    <3>1. PICK j \in 1..Len(down[u]) : down'[u][i] = down[u][j]
      BY <1>3
    <3> QED BY <1>10, <2>1, <3>1 DEF Quiet
  <2> QED BY <1>10, <2>1 DEF Quiet
<1>11. CASE /\ f.type = "request"
            /\ inFlight' = [inFlight EXCEPT ![t] = @ \cup {f.id}]
            /\ ran' = [ran EXCEPT ![f.id] = Append(@, t)]
            /\ UNCHANGED <<up, outbox>>
  <2>1. /\ \A u \in Tab : inFlight'[u] = IF u = t THEN inFlight[u] \cup {f.id} ELSE inFlight[u]
        /\ \A c \in Call : ran'[c] = IF c = f.id THEN << t >> ELSE ran[c]
    <3>1. Append(ran[f.id], t) = << t >>
      <4>1. ran[f.id] = <<>>
        BY <1>7, <1>11
      <4>2. Append(<<>>, t) = << t >>
        OBVIOUS
      <4> QED BY <4>1, <4>2
    <3>2. \A u \in Tab : inFlight'[u] = IF u = t THEN inFlight[u] \cup {f.id} ELSE inFlight[u]
      BY <1>i, <1>11 DEF TypeOK
    <3>3. ran' = [ran EXCEPT ![f.id] = << t >>]
      BY <1>11, <3>1
    <3> QED BY <1>i, <3>2, <3>3 DEF TypeOK
  <2>2. TypeOK'
    BY <1>i, <1>1, <1>2, <1>11 DEF TypeOK
  <2>3. OnTheWayWasMade'
    BY <1>i, <1>1, <1>8, <1>9, <1>11, <2>1 DEF OnTheWayWasMade
  <2>4. AskedOnce'
    <3>1. ASSUME NEW u \in Tab, NEW i \in 1..Len(down'[u]), down'[u][i].type = "request"
          PROVE  ran'[down'[u][i].id] = <<>>
      <4>1. down'[u][i].id \in Used /\ down'[u][i].id # f.id
        BY <1>7, <1>9, <1>11, <3>1
      <4>2. down'[u][i].id \in Call
        BY <1>i, <4>1 DEF Used, TypeOK
      <4>3. PICK j \in 1..Len(down[u]) : down'[u][i] = down[u][j]
        BY <1>3
      <4>4. ran[down[u][j].id] = <<>>
        BY <1>i, <3>1, <4>3 DEF AskedOnce
      <4> QED BY <2>1, <4>1, <4>2, <4>3, <4>4
    <3>2. ASSUME NEW c \in Call PROVE Len(ran'[c]) <= 1
      <4>1. Len(<< t >>) <= 1
        OBVIOUS
      <4>2. Len(ran[c]) <= 1
        BY <1>i DEF AskedOnce
      <4>3. ran'[c] = << t >> \/ ran'[c] = ran[c]
        BY <2>1
      <4> QED BY <4>1, <4>2, <4>3
    <3> QED BY <1>6, <3>1, <3>2 DEF AskedOnce
  <2>5. AnsweredIsDone'
    <3>1. ASSUME NEW u \in Tab, NEW c \in inFlight'[u] PROVE ran'[c] = << u >>
      BY <1>i, <1>2, <1>7, <1>11, <2>1 DEF AnsweredIsDone, TypeOK
    <3>2. ~Quiet(f.id)
      BY <1>2, <1>11 DEF Quiet
    <3>3. ASSUME NEW x, Quiet(x) PROVE Quiet(x)'
      <4>1. x # f.id
        BY <3>2, <3>3
      <4>2. \A u \in Tab : x \notin inFlight'[u]
        BY <2>1, <3>3, <4>1 DEF Quiet
      <4> QED BY <1>10, <3>3, <4>2
    <3> QED BY <1>i, <1>11, <3>1, <3>3 DEF AnsweredIsDone
  <2>6. SidesAgree'
    <3>1. ASSUME NEW u \in Tab, NEW c \in inFlight'[u]
          PROVE  c \in waiting' \/ Canceled(u, c)' \/ <<u, c>> \in missed'
      <4>1. CASE c \in inFlight[u]
        BY <1>i, <1>1, <1>4, <1>11, <4>1 DEF SidesAgree
      <4>2. CASE u = t /\ c = f.id
        <5>1. \/ c \in waiting \/ CancelFollows(down[t], 1) \/ <<u, c>> \in missed
          BY <1>i, <1>2, <1>11, <4>2 DEF RequestsAreHeld
        <5>2. CASE CancelFollows(down[t], 1)
          <6>1. Canceled(t, c)
            BY <1>2, <4>2, <5>2 DEF CancelFollows, Canceled
          <6> QED BY <1>4, <1>11, <4>2, <6>1
        <5> QED BY <1>1, <5>1, <5>2
      <4> QED BY <2>1, <4>1, <4>2
    <3> QED BY <1>i, <1>1, <3>1 DEF SidesAgree
  <2> QED BY <1>5, <2>2, <2>3, <2>4, <2>5, <2>6 DEF BridgeInv
<1>12. ASSUME UNCHANGED ran, \A u \in Tab : inFlight'[u] \subseteq inFlight[u]
       PROVE  AskedOnce'
  <2>1. ASSUME NEW u \in Tab, NEW i \in 1..Len(down'[u]), down'[u][i].type = "request"
        PROVE  ran'[down'[u][i].id] = <<>>
    <3>1. PICK j \in 1..Len(down[u]) : down'[u][i] = down[u][j]
      BY <1>3
    <3>2. ran[down[u][j].id] = <<>>
      BY <1>i, <2>1, <3>1 DEF AskedOnce
    <3> QED BY <1>12, <3>1, <3>2
  <2> QED BY <1>i, <1>6, <1>12, <2>1 DEF AskedOnce
<1>13. CASE f.type = "request" /\ Answer(t, f.id) /\ UNCHANGED <<inFlight, ran>>
  <2>1. /\ up' \in [Tab -> Seq(Call)] /\ outbox' \in [Tab -> Seq(Call)]
        /\ \A u \in Tab : /\ AnswerIsLast(up'[u], up[u], f.id)
                          /\ AnswerIsLast(outbox'[u], outbox[u], f.id)
    BY <1>i, <1>2, <1>13, AnswerDoes
  <2>2. TypeOK'
    BY <1>i, <1>1, <1>2, <1>13, <2>1 DEF TypeOK
  <2>3. OnTheWayWasMade'
    <3>1. ASSUME NEW u \in Tab
          PROVE  /\ \A i \in 1..Len(up'[u]) : up'[u][i] \in Used
                 /\ \A i \in 1..Len(outbox'[u]) : outbox'[u][i] \in Used
      <4>1. /\ \A i \in 1..Len(up[u]) : up[u][i] \in Used
            /\ \A i \in 1..Len(outbox[u]) : outbox[u][i] \in Used
        BY <1>i DEF OnTheWayWasMade
      <4>2. AnswerIsLast(up'[u], up[u], f.id) /\ AnswerIsLast(outbox'[u], outbox[u], f.id)
        BY <2>1
      <4> QED BY <1>8, <4>1, <4>2 DEF AnswerIsLast
    <3> QED BY <1>i, <1>1, <1>8, <1>9, <1>13, <3>1 DEF OnTheWayWasMade
  <2>4. AskedOnce'
    BY <1>12, <1>13
  <2>5. AnsweredIsDone'
    <3>1. ASSUME NEW x, x = f.id PROVE Quiet(x)'
      <4>1. /\ \A u \in Tab : x \notin inFlight'[u]
            /\ \A u \in Tab : \A i \in 1..Len(down'[u]) :
                 down'[u][i].type = "request" => down'[u][i].id # x
        BY <1>7, <1>13, <3>1
      <4> QED BY <4>1 DEF Quiet
    <3>2. ASSUME NEW x, Quiet(x) PROVE Quiet(x)'
      <4>1. \A u \in Tab : x \notin inFlight'[u]
        BY <1>13, <3>2 DEF Quiet
      <4> QED BY <1>10, <3>2, <4>1
    <3>3. ASSUME NEW u \in Tab
          PROVE  /\ \A i \in 1..Len(up'[u]) : up'[u][i] = f.id \/ Quiet(up'[u][i])
                 /\ \A i \in 1..Len(outbox'[u]) : outbox'[u][i] = f.id \/ Quiet(outbox'[u][i])
      <4>1. /\ \A i \in 1..Len(up[u]) : Quiet(up[u][i])
            /\ \A i \in 1..Len(outbox[u]) : Quiet(outbox[u][i])
        BY <1>i DEF AnsweredIsDone
      <4>2. AnswerIsLast(up'[u], up[u], f.id) /\ AnswerIsLast(outbox'[u], outbox[u], f.id)
        BY <2>1
      <4> QED BY <4>1, <4>2 DEF AnswerIsLast
    <3> QED BY <1>i, <1>13, <3>1, <3>2, <3>3 DEF AnsweredIsDone
  <2>6. SidesAgree'
    BY <1>i, <1>1, <1>4, <1>13 DEF SidesAgree
  <2> QED BY <1>5, <2>2, <2>3, <2>4, <2>5, <2>6 DEF BridgeInv
<1>14. CASE \/ /\ f.type = "cancel"
               /\ inFlight' = [inFlight EXCEPT ![t] = @ \ {f.id}]
               /\ UNCHANGED <<up, outbox, ran>>
            \/ f.type = "request" /\ UNCHANGED <<up, outbox, inFlight, ran>>
  <2>1. /\ \A u \in Tab : inFlight'[u] \subseteq inFlight[u]
        /\ f.type = "cancel" => f.id \notin inFlight'[t]
        /\ UNCHANGED <<up, outbox, ran>>
    BY <1>i, <1>14 DEF TypeOK
  <2>2. TypeOK'
    BY <1>i, <1>1, <1>2, <1>14 DEF TypeOK
  <2>3. OnTheWayWasMade'
    BY <1>i, <1>1, <1>8, <1>9, <2>1 DEF OnTheWayWasMade
  <2>4. AskedOnce'
    BY <1>12, <2>1
  <2>5. AnsweredIsDone'
    <3>1. ASSUME NEW x, Quiet(x) PROVE Quiet(x)'
      BY <1>10, <2>1, <3>1 DEF Quiet
    <3> QED BY <1>i, <2>1, <3>1 DEF AnsweredIsDone
  <2>6. SidesAgree'
    BY <1>i, <1>1, <1>4, <2>1 DEF SidesAgree
  <2> QED BY <1>5, <2>2, <2>3, <2>4, <2>5, <2>6 DEF BridgeInv
<1> QED BY <1>1, <1>11, <1>13, <1>14

LEMMA BridgeNextKeeps ==
  ASSUME BridgeInv, [Next]_vars
  PROVE  BridgeInv'
<1>1. ASSUME NEW calls \in SUBSET Call, Dispatch(calls) PROVE BridgeInv'
  BY <1>1, DispatchStep
<1>2. ASSUME NEW c \in Call, EarlyExpires(c) PROVE BridgeInv'
  BY <1>2, RunnerEndsStep
<1>3. ASSUME NEW c \in Call, Timeout(c) PROVE BridgeInv'
  BY <1>3, TimeoutStep
<1>4. CASE Interrupt \/ Close
  BY <1>4, RunnerEndsStep
<1>5. CASE Delete
  BY <1>5, DeleteStep
<1>6. CASE Notice
  BY <1>6, NoticeOrSetUpStep
<1>7. ASSUME NEW t \in Tab, AnswerArrives(t) PROVE BridgeInv'
  BY <1>7, AnswerArrivesStep
<1>8. ASSUME NEW t \in Tab, Attach(t) PROVE BridgeInv'
  BY <1>8, AttachStep
<1>9. ASSUME NEW t \in Tab, Break(t) PROVE BridgeInv'
  BY <1>9, BreakStep
<1>10. ASSUME NEW t \in Tab, SetUp(t) PROVE BridgeInv'
  BY <1>10, NoticeOrSetUpStep
<1>11. ASSUME NEW t \in Tab, Dispose(t) PROVE BridgeInv'
  BY <1>11, DisposeStep
<1>12. ASSUME NEW t \in Tab, FrameArrives(t) PROVE BridgeInv'
  BY <1>12, FrameArrivesStep
<1>13. ASSUME NEW t \in Tab, NEW c \in Call, Finishes(t, c) PROVE BridgeInv'
  BY <1>13, FinishesStep
<1>14. CASE UNCHANGED vars
  BY <1>14 DEF BridgeInv, TypeOK, OnTheWayWasMade, Used, RequestsAreHeld, CancelFollows,
               AskedOnce, AnsweredIsDone, Quiet, SidesAgree, Canceled, vars, session,
               registry, wire, pages
<1> QED
  BY <1>1, <1>2, <1>3, <1>4, <1>5, <1>6, <1>7, <1>8, <1>9, <1>10, <1>11, <1>12, <1>13, <1>14
     DEF Next

-----------------------------------------------------------------------------
(* What the invariant implies.                                             *)

LEMMA InvAwaitedIsHeld ==
  ASSUME BridgeInv
  PROVE  AwaitedIsHeld
<1>1. SidesAgree /\ TypeOK
  BY DEF BridgeInv
<1>2. ASSUME NEW t \in Tab, NEW c \in inFlight[t], Canceled(t, c)
      PROVE  Cancel(c) \in ToSet(down[t])
  <2>1. PICK j \in 1..Len(down[t]) : down[t][j].type = "cancel" /\ down[t][j].id = c
    BY <1>2 DEF Canceled
  <2>2. down[t] \in Seq(Frame) /\ down[t][j] \in Frame
    BY <1>1 DEF TypeOK
  <2>3. down[t][j] = Cancel(c)
    BY <2>1, <2>2 DEF Frame, Cancel
  <2> QED BY <2>2, <2>3 DEF ToSet
<1> QED BY <1>1, <1>2 DEF SidesAgree, AwaitedIsHeld

LEMMA InvRunOnce ==
  ASSUME BridgeInv
  PROVE  RunOnce
BY DEF BridgeInv, AskedOnce, RunOnce

(* BridgeInv holds in every state of the system.                           *)
THEOREM BridgeInvHolds == Spec => []BridgeInv
<1>1. Init => BridgeInv
  BY BridgeInit
<1>2. BridgeInv /\ [Next]_vars => BridgeInv'
  BY BridgeNextKeeps
<1> QED BY <1>1, <1>2, PTL DEF Spec

(* The runner, the registry and the hosts agree on the calls in flight:    *)
(* what the runner waits for is in the registry with its timer, and what a *)
(* host runs is held, or is being cancelled, or lost that with its         *)
(* connection (pending-registry.ts register, bridge.ts, tool-host.ts).     *)
THEOREM AwaitedIsHeldHolds == Spec => []AwaitedIsHeld
<1>1. BridgeInv => AwaitedIsHeld
  BY InvAwaitedIsHeld
<1> QED BY <1>1, BridgeInvHolds, PTL

(* No call is run twice, by one tab or by several, whatever tabs come and  *)
(* go: BridgeHub asks the tab that attached first, once (bridge.ts         *)
(* dispatch), and nothing asks again.                                      *)
THEOREM RunOnceHolds == Spec => []RunOnce
<1>1. BridgeInv => RunOnce
  BY InvRunOnce
<1> QED BY <1>1, BridgeInvHolds, PTL
=============================================================================
