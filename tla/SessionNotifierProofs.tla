------------------------ MODULE SessionNotifierProofs ------------------------
(***************************************************************************)
(* What the run of SessionNotifier checks on two questions, for any set of *)
(* questions, any configurations and any number of messages and attempts:  *)
(* status, log and model agree on every question (QuestionsAgree), and the *)
(* webhook hears of a session's events in their order (ReceivedInOrder).   *)
(***************************************************************************)
EXTENDS SessionNotifier, CollectionLemmas

-----------------------------------------------------------------------------
(* What a log says of one question, against what the model was told of it. *)

Says(e, q) == e.type = "permission_resolved" /\ e.id = q
Announced(l, n, q) == \E k \in 1..n : l[k] = Requested(q)

Tells(l, t, q) ==
    /\ t # "unasked" => Announced(l, Len(l), q)
    /\ t \in Answer <=> \E i \in 1..Len(l) : Says(l[i], q)
    /\ \A i, j \in 1..Len(l) : Says(l[i], q) /\ Says(l[j], q) => i = j
    /\ \A i \in 1..Len(l) : Says(l[i], q) => l[i].behavior = t /\ Announced(l, i - 1, q)

LEMMA RequestedIsNoAnswer == \A p, q : ~Says(Requested(p), q)
BY DEF Requested, Says

\* Events that do not answer it leave it as it was, or ask it.
LEMMA TellsStill ==
  ASSUME NEW l, NEW new, IsSeq(l), IsSeq(new), NEW q, NEW t, NEW u, Tells(l, t, q),
         \A i \in 1..Len(new) : ~Says(new[i], q),
         u = t \/ (t = "unasked" /\ u = "asked" /\ Announced(new, Len(new), q))
  PROVE  Tells(l \o new, u, q)
<1> DEFINE w == l \o new
<1>1. /\ Len(l) \in Nat /\ Len(new) \in Nat /\ Len(w) = Len(l) + Len(new)
      /\ \A i \in 1..Len(l) : w[i] = l[i]
      /\ \A i \in 1..Len(new) : w[Len(l) + i] = new[i]
  BY Joined, Length
<1> HIDE DEF w
<1>2. \A i \in 1..Len(w) : Says(w[i], q) => i \in 1..Len(l) /\ w[i] = l[i]
  <2> SUFFICES ASSUME NEW i \in 1..Len(w), Says(w[i], q)
               PROVE  i \in 1..Len(l) /\ w[i] = l[i]
    OBVIOUS
  <2>1. CASE i <= Len(l)
    BY <1>1, <2>1
  <2>2. CASE i > Len(l)
    <3>1. i - Len(l) \in 1..Len(new) /\ Len(l) + (i - Len(l)) = i
      BY <1>1, <2>2
    <3>2. w[i] = new[i - Len(l)]
      BY <1>1, <3>1
    <3>3. QED
      BY <3>1, <3>2
  <2>3. QED
    BY <1>1, <2>1, <2>2
<1>3. \A i \in 1..Len(l) : i \in 1..Len(w) /\ w[i] = l[i]
  BY <1>1
<1>4. \A n \in 0..Len(l) : Announced(l, n, q) => Announced(w, n, q)
  BY <1>1 DEF Announced
<1>5. Announced(l, Len(l), q) => Announced(w, Len(w), q)
  BY <1>1, <1>3 DEF Announced
<1>6. Announced(new, Len(new), q) => Announced(w, Len(w), q)
  <2> SUFFICES ASSUME NEW k \in 1..Len(new), new[k] = Requested(q)
               PROVE  Announced(w, Len(w), q)
    BY DEF Announced
  <2>1. Len(l) + k \in 1..Len(w) /\ w[Len(l) + k] = Requested(q)
    BY <1>1
  <2>2. QED
    BY <2>1 DEF Announced
<1>7. u \in Answer <=> t \in Answer
  BY DEF Answer
<1>8. u # "unasked" => Announced(w, Len(w), q)
  BY <1>5, <1>6 DEF Tells
<1>9. u \in Answer <=> \E i \in 1..Len(w) : Says(w[i], q)
  BY <1>2, <1>3, <1>7 DEF Tells
<1>10. \A i, j \in 1..Len(w) : Says(w[i], q) /\ Says(w[j], q) => i = j
  BY <1>2 DEF Tells
<1>11. ASSUME NEW i \in 1..Len(w), Says(w[i], q)
       PROVE  w[i].behavior = u /\ Announced(w, i - 1, q)
  <2>1. i \in 1..Len(l) /\ w[i] = l[i] /\ Says(l[i], q)
    BY <1>2, <1>11
  <2>2. l[i].behavior = t /\ Announced(l, i - 1, q) /\ t \in Answer
    BY <2>1 DEF Tells
  <2>3. u = t
    BY <2>2 DEF Answer
  <2>4. i - 1 \in 0..Len(l)
    BY <1>1, <2>1
  <2>5. QED
    BY <1>4, <2>1, <2>2, <2>3, <2>4
<1>12. QED
  BY <1>8, <1>9, <1>10, <1>11 DEF Tells, w

\* The one event that answers it, where it was open.
LEMMA TellsAnswer ==
  ASSUME NEW l, NEW new, IsSeq(l), IsSeq(new), NEW q, NEW t, NEW u, Tells(l, t, q),
         t \notin Answer, u \in Answer,
         NEW at \in 1..Len(new), Says(new[at], q), new[at].behavior = u,
         \A i \in 1..Len(new) : Says(new[i], q) => i = at,
         Announced(l, Len(l), q) \/ Announced(new, at - 1, q)
  PROVE  Tells(l \o new, u, q)
<1> DEFINE w == l \o new
<1>1. /\ Len(l) \in Nat /\ Len(new) \in Nat /\ Len(w) = Len(l) + Len(new)
      /\ \A i \in 1..Len(l) : w[i] = l[i]
      /\ \A i \in 1..Len(new) : w[Len(l) + i] = new[i]
  BY Joined, Length
<1> HIDE DEF w
<1> DEFINE there == Len(l) + at
<1>2. there \in 1..Len(w) /\ w[there] = new[at]
  BY <1>1
<1>3. \A i \in 1..Len(w) : Says(w[i], q) => i = there
  <2> SUFFICES ASSUME NEW i \in 1..Len(w), Says(w[i], q)
               PROVE  i = there
    OBVIOUS
  <2>1. CASE i <= Len(l)
    <3>1. i \in 1..Len(l) /\ w[i] = l[i]
      BY <1>1, <2>1
    <3>2. QED
      BY <3>1 DEF Tells
  <2>2. CASE i > Len(l)
    <3>1. i - Len(l) \in 1..Len(new) /\ Len(l) + (i - Len(l)) = i
      BY <1>1, <2>2
    <3>2. w[i] = new[i - Len(l)]
      BY <1>1, <3>1
    <3>3. i - Len(l) = at
      BY <3>1, <3>2
    <3>4. QED
      BY <3>1, <3>3
  <2>3. QED
    BY <1>1, <2>1, <2>2
<1>4. Announced(w, there - 1, q)
  <2>1. CASE Announced(l, Len(l), q)
    <3>1. PICK k \in 1..Len(l) : l[k] = Requested(q)
      BY <2>1 DEF Announced
    <3>2. k \in 1..(there - 1) /\ w[k] = Requested(q)
      BY <1>1, <3>1
    <3>3. QED
      BY <3>2 DEF Announced
  <2>2. CASE Announced(new, at - 1, q)
    <3>1. PICK k \in 1..(at - 1) : new[k] = Requested(q)
      BY <2>2 DEF Announced
    <3>2. Len(l) + k \in 1..(there - 1) /\ w[Len(l) + k] = Requested(q)
      BY <1>1, <3>1
    <3>3. QED
      BY <3>2 DEF Announced
  <2>3. QED
    BY <2>1, <2>2
<1>5. Announced(w, Len(w), q)
  <2>1. PICK k \in 1..(there - 1) : w[k] = Requested(q)
    BY <1>4 DEF Announced
  <2>2. k \in 1..Len(w)
    BY <1>1, <2>1
  <2>3. QED
    BY <2>1, <2>2 DEF Announced
<1> HIDE DEF there
<1>6. Says(w[there], q) /\ w[there].behavior = u
  BY <1>2
<1>7. QED
  BY <1>2, <1>3, <1>4, <1>5, <1>6 DEF Tells, w

-----------------------------------------------------------------------------
(* The runner.  A question is open while it is in the table; it is told    *)
(* once; and a session is over when its status says so.                    *)

RunnerTypes ==
    /\ IsSeq(log) /\ IsSeq(pending) /\ Distinct(pending)
    /\ ToSet(pending) \subseteq Question
    /\ told \in [Question -> {"unasked", "asked"} \cup Answer]
Life ==
    /\ closed <=> status \in Terminal
    /\ status \notin Terminal => (status = "awaiting_approval" <=> pending # <<>>)
    /\ query = "none" => pending = <<>>
    /\ \A q \in Question : told[q] = "asked" <=> q \in ToSet(pending)
AllTold == \A q \in Question : Tells(log, told[q], q)
RunnerInv == RunnerTypes /\ Life /\ AllTold

Grown == IsSeq(log') /\ Len(log') >= Len(log)

LEMMA RunnerInitInv == Init => RunnerInv
<1> SUFFICES ASSUME Init PROVE RunnerInv
  OBVIOUS
<1>1. /\ status = "starting" /\ closed = FALSE /\ pending = <<>> /\ log = <<>>
      /\ told = [q \in Question |-> "unasked"]
  BY DEF Init, RunnerInit
<1>2. IsSeq(<<>>) /\ Len(<<>>) = 0 /\ ToSet(<<>>) = {}
  BY Empty
<1>3. RunnerTypes
  BY <1>1, <1>2 DEF RunnerTypes, Distinct
<1>4. Life
  BY <1>1, <1>2 DEF Life, Terminal
<1>5. AllTold
  BY <1>1, <1>2 DEF AllTold, Tells, Answer
<1>6. QED
  BY <1>3, <1>4, <1>5 DEF RunnerInv

\* Events that answer no question.
LEMMA LogGoesOn ==
  ASSUME IsSeq(log), AllTold, NEW e, e.type # "permission_resolved",
         log' = Append(log, e), told' = told
  PROVE  Grown /\ AllTold'
<1>1. IsSeq(<<e>>) /\ Len(<<e>>) = 1 /\ <<e>>[1] = e
  BY One
<1>2. \A i \in 1..Len(<<e>>), q \in Question : ~Says(<<e>>[i], q)
  BY <1>1 DEF Says
<1> SUFFICES ASSUME NEW new, new = <<e>> PROVE Grown /\ AllTold'
  OBVIOUS
<1>3. log' = log \o new
  BY Pushed
<1>4. IsSeq(log \o new) /\ Len(log \o new) >= Len(log)
  BY <1>1, Joined, Length
<1>5. \A q \in Question : Tells(log \o new, told[q], q)
  BY <1>1, <1>2, TellsStill DEF AllTold
<1>6. QED
  BY <1>3, <1>4, <1>5 DEF Grown, AllTold

\* A step that touches neither the log nor the questions.
LEMMA RunnerQuiet ==
  ASSUME RunnerInv, UNCHANGED <<pending, told>>, Life',
         \/ log' = log
         \/ \E e : e.type # "permission_resolved" /\ log' = Append(log, e)
  PROVE  RunnerInv' /\ Grown
<1>1. RunnerTypes /\ AllTold
  BY DEF RunnerInv
<1>2. AllTold' /\ Grown
  <2>1. CASE log' = log
    <3>1. Len(log) \in Nat
      BY <1>1, Length DEF RunnerTypes
    <3>2. QED
      BY <1>1, <2>1, <3>1 DEF AllTold, Grown, RunnerTypes
  <2>2. CASE \E e : e.type # "permission_resolved" /\ log' = Append(log, e)
    BY <1>1, <2>2, LogGoesOn DEF RunnerTypes
  <2>3. QED
    BY <2>1, <2>2
<1>3. RunnerTypes'
  BY <1>1, <1>2 DEF RunnerTypes, Grown
<1>4. QED
  BY <1>2, <1>3 DEF RunnerInv

\* #settleApproval of an open question.
LEMMA SettleStep ==
  ASSUME RunnerInv, NEW q \in Question, NEW behavior \in Answer, NEW by,
         Settle(q, behavior, by), UNCHANGED <<closed, query>>
  PROVE  RunnerInv' /\ Grown
<1> DEFINE at == CHOOSE i \in DOMAIN pending : pending[i] = q
           new == <<Resolved(q, behavior, by)>>
<1>1. /\ q \in ToSet(pending) /\ pending' = RemoveAt(pending, at)
      /\ told' = [told EXCEPT ![q] = behavior] /\ log' = Append(log, Resolved(q, behavior, by))
      /\ status' = IF pending' = <<>> /\ status = "awaiting_approval" THEN "running" ELSE status
  BY DEF Settle
<1>2. RunnerTypes /\ Life /\ AllTold
  BY DEF RunnerInv
<1>3. at \in 1..Len(pending) /\ pending[at] = q
  <2>1. DOMAIN pending = 1..Len(pending) /\ ToSet(pending) = {pending[i] : i \in 1..Len(pending)}
    BY <1>2, Length DEF RunnerTypes
  <2>2. \E i \in DOMAIN pending : pending[i] = q
    BY <1>1, <2>1
  <2>3. QED
    BY <2>1, <2>2
<1>4. IsSeq(pending') /\ Distinct(pending') /\ ToSet(pending') = ToSet(pending) \ {q}
  <2> HIDE DEF at
  <2>1. QED
    BY <1>1, <1>2, <1>3, WithoutOne DEF RunnerTypes
<1>5. told[q] = "asked" /\ \A p \in Question : p # q => told'[p] = told[p]
  BY <1>1, <1>2 DEF Life, RunnerTypes
<1>6. told'[q] = behavior /\ told' \in [Question -> {"unasked", "asked"} \cup Answer]
  BY <1>1, <1>2 DEF RunnerTypes
<1>7. /\ IsSeq(new) /\ Len(new) = 1 /\ new[1] = Resolved(q, behavior, by)
      /\ IsSeq(log) /\ log' = log \o new
  BY <1>1, <1>2, One, Pushed DEF RunnerTypes
<1>8. /\ Says(Resolved(q, behavior, by), q) /\ Resolved(q, behavior, by).behavior = behavior
      /\ \A p : Says(Resolved(q, behavior, by), p) => p = q
  BY DEF Says, Resolved
<1> HIDE DEF new, at
<1>9. Grown
  BY <1>7, Joined, Length DEF Grown
<1>10. ASSUME NEW p \in Question PROVE Tells(log', told'[p], p)
  <2>1. Tells(log, told[p], p)
    BY <1>2 DEF AllTold
  <2>2. CASE p = q
    <3>1. told[q] \notin Answer /\ told[q] # "unasked" /\ Announced(log, Len(log), q)
      BY <1>5, <2>1, <2>2 DEF Answer, Tells
    <3>2. 1 \in 1..Len(new) /\ \A i \in 1..Len(new) : Says(new[i], q) => i = 1
      BY <1>7
    <3>3. Says(new[1], q) /\ new[1].behavior = behavior
      BY <1>7, <1>8
    <3>4. Tells(log \o new, behavior, q)
      BY <1>7, <2>1, <2>2, <3>1, <3>2, <3>3, TellsAnswer
    <3>5. QED
      BY <1>6, <1>7, <2>2, <3>4
  <2>3. CASE p # q
    <3>1. \A i \in 1..Len(new) : ~Says(new[i], p)
      BY <1>7, <1>8, <2>3
    <3>2. Tells(log \o new, told[p], p)
      BY <1>7, <2>1, <3>1, TellsStill
    <3>3. QED
      BY <1>5, <1>7, <2>3, <3>2
  <2>4. QED
    BY <2>2, <2>3
<1>11. Life'
  <2>1. \A p \in Question : told'[p] = "asked" <=> p \in ToSet(pending')
    BY <1>2, <1>4, <1>5, <1>6 DEF Life, Answer
  <2>2. pending # <<>>
    BY <1>1, Empty
  <2>3. /\ closed' <=> status' \in Terminal
        /\ status' \notin Terminal => (status' = "awaiting_approval" <=> pending' # <<>>)
    BY <1>1, <1>2, <2>2 DEF Life, Terminal
  <2>4. query' # "none"
    BY <1>2, <2>2 DEF Life
  <2>5. QED
    BY <2>1, <2>3, <2>4 DEF Life
<1>12. RunnerTypes'
  BY <1>2, <1>4, <1>6, <1>9 DEF RunnerTypes, Grown
<1>13. QED
  BY <1>9, <1>10, <1>11, <1>12 DEF RunnerInv, AllTold

\* close() and fail(): every open question is told, once, before the end.
LEMMA EndsStep ==
  ASSUME RunnerInv, NEW events, IsSeq(events),
         \A i \in 1..Len(events) : events[i].type # "permission_resolved",
         NEW s, NEW reason, Ends(events, s, reason)
  PROVE  RunnerInv' /\ Grown
<1> DEFINE mid == [i \in DOMAIN pending |-> Resolved(pending[i], "deny", "policy")]
           last == <<SessionClosed(reason)>>
           l1 == log \o events
           l2 == l1 \o mid
<1>1. /\ closed' = TRUE /\ pending' = <<>>
      /\ told' = [q \in Question |-> IF q \in ToSet(pending) THEN "deny" ELSE told[q]]
      /\ log' = l2 \o last
      /\ status' = IF s = "failed" THEN s ELSE "closed"
  BY DEF Ends
<1>2. RunnerTypes /\ Life /\ AllTold
  BY DEF RunnerInv
<1>3. /\ DOMAIN pending = 1..Len(pending) /\ Len(pending) \in Nat
      /\ ToSet(pending) = {pending[i] : i \in 1..Len(pending)}
  BY <1>2, Length DEF RunnerTypes
<1>4. /\ IsSeq(mid) /\ Len(mid) = Len(pending)
      /\ \A i \in 1..Len(pending) : mid[i] = Resolved(pending[i], "deny", "policy")
  <2> DEFINE n == Len(pending)
             answer(i) == Resolved(pending[i], "deny", "policy")
             all == {answer(i) : i \in 1..n}
             run == [i \in 1..n |-> answer(i)]
  <2>1. mid = run
    BY <1>3
  <2> HIDE DEF answer
  <2>2. run \in Seq(all) /\ Len(run) = n /\ \A i \in 1..n : run[i] = answer(i)
    BY <1>3
  <2>3. \A i \in 1..n : run[i] = Resolved(pending[i], "deny", "policy")
    BY <2>2 DEF answer
  <2> HIDE DEF mid, run, all
  <2>4. QED
    BY <2>1, <2>2, <2>3 DEF IsSeq
<1>5. IsSeq(last) /\ Len(last) = 1 /\ last[1] = SessionClosed(reason)
  BY One
<1>6. \A p, q : Says(Resolved(p, "deny", "policy"), q) <=> p = q
  BY DEF Says, Resolved
<1>7. \A p : Resolved(p, "deny", "policy").behavior = "deny"
  BY DEF Resolved
<1> HIDE DEF mid, last
<1>8. /\ IsSeq(log) /\ IsSeq(l1) /\ IsSeq(l2) /\ IsSeq(l2 \o last)
      /\ Len(l2 \o last) >= Len(log)
  BY <1>2, <1>4, <1>5, Joined, Length DEF RunnerTypes
<1> HIDE DEF l1, l2
<1>9. ASSUME NEW q \in Question PROVE Tells(log', told'[q], q)
  <2>1. Tells(l1, told[q], q)
    <3>1. Tells(log, told[q], q)
      BY <1>2 DEF AllTold
    <3>2. \A i \in 1..Len(events) : ~Says(events[i], q)
      BY DEF Says
    <3>3. QED
      BY <1>8, <3>1, <3>2, TellsStill DEF l1
  <2>2. Tells(l2, told'[q], q)
    <3>1. CASE q \in ToSet(pending)
      <4>1. PICK at \in 1..Len(pending) : pending[at] = q
        BY <1>3, <3>1
      <4>2. told[q] = "asked" /\ told'[q] = "deny"
        BY <1>1, <1>2, <3>1 DEF Life
      <4>3. /\ told[q] \notin Answer /\ told'[q] \in Answer /\ Announced(l1, Len(l1), q)
        BY <2>1, <4>2 DEF Answer, Tells
      <4>4. Says(mid[at], q) /\ mid[at].behavior = "deny"
        BY <1>4, <1>6, <1>7, <4>1
      <4>5. \A i \in 1..Len(mid) : Says(mid[i], q) => i = at
        <5> SUFFICES ASSUME NEW i \in 1..Len(mid), Says(mid[i], q) PROVE i = at
          OBVIOUS
        <5>1. i \in 1..Len(pending) /\ pending[i] = q
          BY <1>4, <1>6
        <5>2. QED
          BY <1>2, <4>1, <5>1 DEF RunnerTypes, Distinct
      <4>6. at \in 1..Len(mid)
        BY <1>4
      <4>7. QED
        BY <1>4, <1>8, <2>1, <4>2, <4>3, <4>4, <4>5, <4>6, TellsAnswer DEF l2
    <3>2. CASE q \notin ToSet(pending)
      <4>1. told'[q] = told[q]
        BY <1>1, <3>2
      <4>2. \A i \in 1..Len(mid) : ~Says(mid[i], q)
        <5> SUFFICES ASSUME NEW i \in 1..Len(mid), Says(mid[i], q) PROVE FALSE
          OBVIOUS
        <5>1. i \in 1..Len(pending) /\ pending[i] = q
          BY <1>4, <1>6
        <5>2. QED
          BY <1>3, <3>2, <5>1
      <4>3. QED
        BY <1>4, <1>8, <2>1, <4>1, <4>2, TellsStill DEF l2
    <3>3. QED
      BY <3>1, <3>2
  <2>3. \A i \in 1..Len(last) : ~Says(last[i], q)
    BY <1>5 DEF Says, SessionClosed
  <2>4. QED
    BY <1>1, <1>5, <1>8, <2>2, <2>3, TellsStill
<1>10. Grown
  BY <1>1, <1>8 DEF Grown
<1>11. IsSeq(pending') /\ Len(pending') = 0 /\ ToSet(pending') = {}
  BY <1>1, Empty
<1>12. RunnerTypes'
  BY <1>1, <1>2, <1>10, <1>11 DEF RunnerTypes, Grown, Distinct, Answer
<1>13. Life'
  <2>1. \A q \in Question : told'[q] # "asked"
    BY <1>1, <1>2 DEF Life, RunnerTypes
  <2>2. QED
    BY <1>1, <1>11, <2>1 DEF Life, Terminal
<1>14. QED
  BY <1>9, <1>10, <1>12, <1>13 DEF RunnerInv, AllTold

\* canUseTool, answered by the policy or left open.
LEMMA AsksStep ==
  ASSUME RunnerInv, NEW q \in Question, Asks(q)
  PROVE  RunnerInv' /\ Grown
<1>1. RunnerTypes /\ Life /\ AllTold
  BY DEF RunnerInv
<1>2. told[q] = "unasked" /\ query = "up" /\ UNCHANGED <<closed, query>>
  BY DEF Asks, Heard
<1>3. /\ IsSeq(log) /\ IsSeq(pending) /\ Distinct(pending)
      /\ told \in [Question -> {"unasked", "asked"} \cup Answer]
  BY <1>1 DEF RunnerTypes
<1>4. q \notin ToSet(pending)
  BY <1>1, <1>2 DEF Life
<1>5. \A p \in Question : Tells(log, told[p], p)
  BY <1>1 DEF AllTold
<1>6. ASSUME NEW new, IsSeq(new), log' = log \o new PROVE Grown
  BY <1>3, <1>6, Joined, Length DEF Grown
<1>7. CASE /\ told' = [told EXCEPT ![q] = PolicyAnswer]
           /\ log' = log \o <<Requested(q), Resolved(q, PolicyAnswer, "policy")>>
           /\ UNCHANGED <<status, pending>>
  <2> SUFFICES ASSUME NEW new, new = <<Requested(q), Resolved(q, PolicyAnswer, "policy")>>
               PROVE  RunnerInv' /\ Grown
    OBVIOUS
  <2>1. PolicyAnswer \in Answer
    BY DEF PolicyAnswer, Answer
  <2>2. /\ IsSeq(new) /\ Len(new) = 2 /\ new[1] = Requested(q)
        /\ new[2] = Resolved(q, PolicyAnswer, "policy")
    <3>1. new \in Seq({Requested(q), Resolved(q, PolicyAnswer, "policy")})
      OBVIOUS
    <3>2. QED
      BY <3>1 DEF IsSeq
  <2>3. /\ \A p : Says(new[2], p) <=> p = q
        /\ new[2].behavior = PolicyAnswer
    BY <2>2 DEF Says, Resolved
  <2>4. \A p : ~Says(new[1], p)
    BY <2>2, RequestedIsNoAnswer
  <2>5. log' = log \o new
    BY <1>7
  <2>6. told'[q] = PolicyAnswer /\ \A p \in Question : p # q => told'[p] = told[p]
    BY <1>3, <1>7
  <2>7. ASSUME NEW p \in Question PROVE Tells(log', told'[p], p)
    <3>1. CASE p = q
      <4>1. told[q] \notin Answer
        BY <1>2 DEF Answer
      <4>2. 2 \in 1..Len(new) /\ \A i \in 1..Len(new) : Says(new[i], q) => i = 2
        BY <2>2, <2>4
      <4>3. Announced(new, 2 - 1, q)
        BY <2>2 DEF Announced
      <4>4. Says(new[2], q)
        BY <2>3
      <4>5. Tells(log \o new, PolicyAnswer, q)
        BY <1>3, <1>5, <2>1, <2>2, <2>3, <4>1, <4>2, <4>3, <4>4, TellsAnswer
      <4>6. QED
        BY <2>5, <2>6, <3>1, <4>5
    <3>2. CASE p # q
      <4>1. \A i \in 1..Len(new) : ~Says(new[i], p)
        BY <2>2, <2>3, <2>4, <3>2
      <4>2. Tells(log \o new, told[p], p)
        BY <1>3, <1>5, <2>2, <4>1, TellsStill
      <4>3. QED
        BY <2>5, <2>6, <3>2, <4>2
    <3>3. QED
      BY <3>1, <3>2
  <2>8. Grown
    BY <1>6, <2>2, <2>5
  <2>9. told' \in [Question -> {"unasked", "asked"} \cup Answer]
    BY <1>3, <1>7, <2>1
  <2>10. RunnerTypes'
    BY <1>1, <1>7, <2>8, <2>9 DEF RunnerTypes, Grown
  <2>11. Life'
    <3>1. told'[q] # "asked"
      BY <2>1, <2>6 DEF Answer
    <3>2. QED
      BY <1>1, <1>2, <1>4, <1>7, <2>6, <3>1 DEF Life
  <2>12. QED
    BY <2>7, <2>8, <2>10, <2>11 DEF RunnerInv, AllTold
<1>8. CASE /\ told' = [told EXCEPT ![q] = "asked"]
           /\ pending' = Append(pending, q)
           /\ log' = Append(log, Requested(q))
           /\ status' = Becomes("awaiting_approval")
  <2> SUFFICES ASSUME NEW new, new = <<Requested(q)>>
               PROVE  RunnerInv' /\ Grown
    OBVIOUS
  <2>1. IsSeq(new) /\ Len(new) = 1 /\ new[1] = Requested(q)
    BY One
  <2>2. log' = log \o new
    BY <1>3, <1>8, Pushed
  <2>3. told'[q] = "asked" /\ \A p \in Question : p # q => told'[p] = told[p]
    BY <1>3, <1>8
  <2>4. ASSUME NEW p \in Question PROVE Tells(log', told'[p], p)
    <3>1. \A i \in 1..Len(new) : ~Says(new[i], p)
      BY <2>1, RequestedIsNoAnswer
    <3>2. told'[p] = told[p] \/ (told[p] = "unasked" /\ told'[p] = "asked"
                                /\ Announced(new, Len(new), p))
      <4>1. Announced(new, Len(new), q)
        BY <2>1 DEF Announced
      <4>2. QED
        BY <1>2, <2>3, <4>1
    <3>3. Tells(log \o new, told'[p], p)
      BY <1>3, <1>5, <2>1, <3>1, <3>2, TellsStill
    <3>4. QED
      BY <2>2, <3>3
  <2>5. Grown
    BY <1>6, <2>1, <2>2
  <2>6. /\ IsSeq(pending') /\ ToSet(pending') = ToSet(pending) \cup {q}
        /\ Len(pending') = Len(pending) + 1
        /\ \A i \in 1..Len(pending) : pending'[i] = pending[i]
        /\ pending'[Len(pending) + 1] = q
    <3> SUFFICES ASSUME NEW one, one = <<q>>
                 PROVE  /\ IsSeq(pending') /\ ToSet(pending') = ToSet(pending) \cup {q}
                        /\ Len(pending') = Len(pending) + 1
                        /\ \A i \in 1..Len(pending) : pending'[i] = pending[i]
                        /\ pending'[Len(pending) + 1] = q
      OBVIOUS
    <3>1. IsSeq(one) /\ Len(one) = 1 /\ ToSet(one) = {q} /\ one[1] = q
      BY One
    <3>2. pending' = pending \o one
      BY <1>3, <1>8, Pushed
    <3>3. QED
      BY <1>3, <3>1, <3>2, Joined
  <2>7. Distinct(pending')
    <3>1. /\ Len(pending) \in Nat /\ ToSet(pending) = {pending[i] : i \in 1..Len(pending)}
      BY <1>3, Length
    <3>2. \A i \in 1..Len(pending) : pending[i] # q
      BY <1>4, <3>1
    <3>3. QED
      BY <1>3, <2>6, <3>1, <3>2 DEF Distinct
  <2>8. RunnerTypes'
    BY <1>1, <1>8, <2>5, <2>6, <2>7 DEF RunnerTypes, Grown
  <2>9. Life'
    <3>1. pending' # <<>>
      BY <2>6, Empty
    <3>2. \A p \in Question : told'[p] = "asked" <=> p \in ToSet(pending')
      BY <1>1, <2>3, <2>6 DEF Life
    <3>3. /\ closed' <=> status' \in Terminal
          /\ status' \notin Terminal => status' = "awaiting_approval"
      BY <1>1, <1>2, <1>8 DEF Life, Becomes, Terminal
    <3>4. QED
      BY <1>2, <3>1, <3>2, <3>3 DEF Life
  <2>10. QED
    BY <2>4, <2>5, <2>8, <2>9 DEF RunnerInv, AllTold
<1>9. QED
  BY <1>7, <1>8 DEF Asks

\* Whatever the runner does.
LEMMA RunnerStep == RunnerInv /\ RunnerNext => RunnerInv' /\ Grown
<1> SUFFICES ASSUME RunnerInv, RunnerNext PROVE RunnerInv' /\ Grown
  OBVIOUS
<1>1. RunnerTypes /\ Life /\ AllTold
  BY DEF RunnerInv
<1>2. IsSeq(<<>>) /\ Len(<<>>) = 0
  BY Empty
<1>3. \A e : IsSeq(<<e>>) /\ Len(<<e>>) = 1 /\ <<e>>[1] = e
  BY One
<1>4. CASE QueryStarts
  <2>1. UNCHANGED <<pending, told, closed, log>> /\ query' # "none"
    BY <1>4 DEF QueryStarts
  <2>2. query = "none" /\ pending = <<>>
    BY <1>1, <1>4 DEF QueryStarts, Life
  <2>3. status' = status \/ status' = Becomes("idle")
    BY <1>4 DEF QueryStarts
  <2>4. Life'
    BY <1>1, <2>1, <2>2, <2>3 DEF Life, Becomes, Terminal
  <2>5. QED
    BY <2>1, <2>4, RunnerQuiet
<1>5. CASE SendMessage \/ InputReturns \/ Interrupt
  <2>1. UNCHANGED <<pending, told, closed, log, status, query>>
    BY <1>5 DEF SendMessage, InputReturns, Interrupt
  <2>2. Life'
    BY <1>1, <2>1 DEF Life
  <2>3. QED
    BY <2>1, <2>2, RunnerQuiet
<1>6. CASE InitArrives
  <2>1. pending = <<>> /\ query' = query
    BY <1>6 DEF InitArrives
  <2>2. CASE watchAuthSource
    <3>1. Ends(<<SessionError>>, "failed", "error")
      BY <2>2 DEF watchAuthSource, Fails
    <3>2. SessionError.type # "permission_resolved"
      BY DEF SessionError
    <3> SUFFICES ASSUME NEW events, events = <<SessionError>> PROVE RunnerInv' /\ Grown
      OBVIOUS
    <3>3. IsSeq(events) /\ \A i \in 1..Len(events) : events[i].type # "permission_resolved"
      BY <1>3, <3>2
    <3>4. QED
      BY <3>1, <3>3, EndsStep
  <2>3. CASE status' = Becomes("running") /\ UNCHANGED <<closed, pending, told, log, done>>
    <3>1. Life'
      BY <1>1, <2>1, <2>3 DEF Life, Becomes, Terminal
    <3>2. QED
      BY <2>3, <3>1, RunnerQuiet
  <2>4. QED
    BY <1>6, <2>2, <2>3 DEF InitArrives
<1>7. CASE StateChanged
  <2>1. /\ pending = <<>> /\ UNCHANGED <<pending, told, closed, log, query>>
        /\ status' = Becomes(IF turn THEN "running" ELSE "idle")
    BY <1>7 DEF StateChanged
  <2>2. Life'
    BY <1>1, <2>1 DEF Life, Becomes, Terminal
  <2>3. QED
    BY <2>1, <2>2, RunnerQuiet
<1>8. CASE TurnEnds
  <2>1. query = "up" /\ query' = query
    BY <1>8 DEF TurnEnds, Heard
  <2>2. TurnResult.type # "permission_resolved"
    BY DEF TurnResult
  <2>3. CASE Ends(<<TurnResult>>, status, "server")
    <3> SUFFICES ASSUME NEW events, events = <<TurnResult>> PROVE RunnerInv' /\ Grown
      OBVIOUS
    <3>1. IsSeq(events) /\ \A i \in 1..Len(events) : events[i].type # "permission_resolved"
      BY <1>3, <2>2
    <3>2. QED
      BY <2>3, <3>1, EndsStep
  <2>4. CASE /\ log' = Append(log, TurnResult)
             /\ status' = IF pending = <<>> THEN Becomes("idle") ELSE status
             /\ UNCHANGED <<closed, pending, told, done>>
    <3>1. Life'
      BY <1>1, <2>1, <2>4 DEF Life, Becomes, Terminal
    <3>2. QED
      BY <2>2, <2>4, <3>1, RunnerQuiet
  <2>5. QED
    BY <1>8, <2>3, <2>4 DEF TurnEnds
<1>9. CASE StreamEnds
  <2>1. /\ UNCHANGED <<pending, told>> /\ query' = "over" /\ closed' = TRUE
        /\ status' = Becomes("closed")
        /\ log' = log \/ log' = Append(log, SessionClosed("server"))
    BY <1>9 DEF StreamEnds
  <2>2. SessionClosed("server").type # "permission_resolved"
    BY DEF SessionClosed
  <2>3. Life'
    BY <1>1, <2>1 DEF Life, Becomes, Terminal
  <2>4. QED
    BY <2>1, <2>2, <2>3, RunnerQuiet
<1>10. CASE StreamThrows
  <2>1. Ends(<<SessionError>>, "failed", "error")
    BY <1>10 DEF StreamThrows, Fails
  <2>2. SessionError.type # "permission_resolved"
    BY DEF SessionError
  <2> SUFFICES ASSUME NEW events, events = <<SessionError>> PROVE RunnerInv' /\ Grown
    OBVIOUS
  <2>3. IsSeq(events) /\ \A i \in 1..Len(events) : events[i].type # "permission_resolved"
    BY <1>3, <2>2
  <2>4. QED
    BY <2>1, <2>3, EndsStep
<1>11. CASE CloseCalled
  <2>1. PICK reason \in {"client", "server"} : Ends(<<>>, status, reason)
    BY <1>11 DEF CloseCalled
  <2> SUFFICES ASSUME NEW events, events = <<>> PROVE RunnerInv' /\ Grown
    OBVIOUS
  <2>2. IsSeq(events) /\ \A i \in 1..Len(events) : events[i].type # "permission_resolved"
    BY <1>2
  <2>3. QED
    BY <2>1, <2>2, EndsStep
<1>12. ASSUME NEW q \in Question, Asks(q) PROVE RunnerInv' /\ Grown
  BY <1>12, AsksStep
<1>13. ASSUME NEW q \in Question, NEW behavior \in Answer, NEW by, SettleOnly(q, behavior, by)
       PROVE  RunnerInv' /\ Grown
  BY <1>13, SettleStep DEF SettleOnly
<1>14. ASSUME NEW q \in Question, TimesOut(q) \/ Aborts(q) PROVE RunnerInv' /\ Grown
  <2>1. "deny" \in Answer
    BY DEF Answer
  <2>2. SettleOnly(q, "deny", "timeout") \/ SettleOnly(q, "deny", "policy")
    BY <1>14 DEF TimesOut, Aborts
  <2>3. QED
    BY <1>13, <2>1, <2>2
<1>15. ASSUME NEW q \in Question, NEW behavior \in Answer, Decides(q, behavior)
       PROVE  RunnerInv' /\ Grown
  BY <1>13, <1>15 DEF Decides
<1>16. QED
  BY <1>4, <1>5, <1>6, <1>7, <1>8, <1>9, <1>10, <1>11, <1>12, <1>14, <1>15 DEF RunnerNext

LEMMA RunnerStands == RunnerInv /\ UNCHANGED runnerVars => RunnerInv' /\ Grown
<1> SUFFICES ASSUME RunnerInv, UNCHANGED runnerVars PROVE RunnerInv' /\ Grown
  OBVIOUS
<1>1. UNCHANGED <<pending, told, closed, log, status, query>>
  BY DEF runnerVars
<1>2. Life'
  BY <1>1 DEF RunnerInv, Life
<1>3. QED
  BY <1>1, <1>2, RunnerQuiet

\* The runner inside the composition: RunnerInv holds in every state, and no
\* step takes anything off the log.
THEOREM RunnerInvariance == Spec => []RunnerInv /\ [][Grown]_vars
<1>1. RunnerInv /\ [Next]_vars => RunnerInv' /\ [Grown]_vars
  <2> SUFFICES ASSUME RunnerInv, [Next]_vars PROVE RunnerInv' /\ [Grown]_vars
    OBVIOUS
  <2>1. CASE RunnerNext /\ Notify
    BY <2>1, RunnerStep
  <2>2. CASE Post
    <3>1. UNCHANGED runnerVars
      BY <2>2 DEF Post
    <3>2. QED
      BY <3>1, RunnerStands
  <2>3. CASE UNCHANGED vars
    <3>1. UNCHANGED runnerVars
      BY <2>3 DEF vars
    <3>2. QED
      BY <3>1, RunnerStands
  <2>4. QED
    BY <2>1, <2>2, <2>3 DEF Next
<1>2. QED
  BY <1>1, RunnerInitInv, PTL DEF Spec

LEMMA RunnerInvTells == RunnerInv => QuestionsAgree
<1> SUFFICES ASSUME RunnerInv PROVE QuestionsAgree
  OBVIOUS
<1>1. status \notin Terminal => (status = "awaiting_approval" <=> pending # <<>>)
  BY DEF RunnerInv, Life
<1>2. DOMAIN log = 1..Len(log) /\ Len(log) \in Nat
  BY Length DEF RunnerInv, RunnerTypes
<1>3. ASSUME NEW q \in Question
      PROVE  LET answers == {i \in DOMAIN log : /\ log[i].type = "permission_resolved"
                                                /\ log[i].id = q}
             IN  /\ told[q] \in Answer <=> answers # {}
                 /\ \A i \in answers : /\ answers = {i}
                                       /\ log[i].behavior = told[q]
                                       /\ \E k \in Positions(Requested(q)) : k < i
  <2> DEFINE answers == {i \in DOMAIN log : /\ log[i].type = "permission_resolved"
                                            /\ log[i].id = q}
  <2>1. Tells(log, told[q], q)
    BY DEF RunnerInv, AllTold
  <2>2. \A i : i \in answers <=> i \in 1..Len(log) /\ Says(log[i], q)
    BY <1>2 DEF Says
  <2> HIDE DEF answers
  <2>3. told[q] \in Answer <=> answers # {}
    BY <2>1, <2>2 DEF Tells
  <2>4. ASSUME NEW i \in answers
        PROVE  /\ answers = {i} /\ log[i].behavior = told[q]
               /\ \E k \in Positions(Requested(q)) : k < i
    <3>1. \A j \in answers : j = i
      BY <2>1, <2>2 DEF Tells
    <3>2. log[i].behavior = told[q] /\ Announced(log, i - 1, q) /\ i \in 1..Len(log)
      BY <2>1, <2>2 DEF Tells
    <3>3. PICK k \in 1..(i - 1) : log[k] = Requested(q)
      BY <3>2 DEF Announced
    <3>4. k \in DOMAIN log /\ k < i
      BY <1>2, <3>2, <3>3
    <3>5. k \in Positions(Requested(q))
      BY <3>3, <3>4 DEF Positions
    <3>6. QED
      BY <3>1, <3>2, <3>4, <3>5
  <2>5. QED
    BY <2>3, <2>4 DEF answers
<1>4. QED
  BY <1>1, <1>3 DEF QuestionsAgree

\* A question has one outcome (runner.ts, #settleApproval, #end): the status
\* asks for an approval exactly while one is open, and what the model is told,
\* once, is what the log says once, after the question.
THEOREM QuestionsAgreeHolds == Spec => []QuestionsAgree
BY RunnerInvariance, RunnerInvTells, PTL

-----------------------------------------------------------------------------
(* The notifier.  Notes bear the position of their event in the log, so    *)
(* those of a step follow all the earlier ones; the queue keeps the order. *)

Ascending(c) == \A i, j \in 1..Len(c) : i < j => c[i].seq <= c[j].seq
Between(c, a, b) == \A i \in 1..Len(c) : /\ c[i].seq \in Nat
                                         /\ a <= c[i].seq /\ c[i].seq <= b
QueueInv ==
    /\ IsSeq(chain) /\ Ascending(chain) /\ Between(chain, received.seq, Len(log))
    /\ received.seq \in Nat /\ received.seq <= Len(log)

\* The notifications of a step are in the order of their events.
LEMMA NotesInOrder ==
  ASSUME IsSeq(log), IsSeq(log'), Len(log') >= Len(log)
  PROVE  IsSeq(Notes) /\ Ascending(Notes) /\ Between(Notes, Len(log) + 1, Len(log'))
<1> DEFINE count == Cardinality(Noted)
           Nth(n) == CHOOSE i \in Noted : Cardinality({k \in Noted : k <= i}) = n
           Note(i) == [seq |-> i, type |-> log'[i].type]
           run == [n \in 1..count |-> Note(Nth(n))]
           all == {Note(Nth(n)) : n \in 1..count}
<1>1. Notes = run
  BY DEF Notes
<1>2. Len(log) \in Nat /\ Len(log') \in Nat
  BY Length
<1>3. Noted \in SUBSET ((Len(log) + 1)..Len(log')) /\ Noted \in SUBSET Nat
  BY <1>2 DEF Noted
<1>4. IsFiniteSet(Noted) /\ count \in Nat
  <2>1. IsFiniteSet((Len(log) + 1)..Len(log'))
    BY <1>2, FS_Interval
  <2>2. IsFiniteSet(Noted)
    BY <1>3, <2>1, FS_Subset
  <2>3. QED
    BY <2>2, FS_CardinalityType
<1>5. ASSUME NEW n \in 1..count
      PROVE  Nth(n) \in Noted /\ Cardinality(UpTo(Noted, Nth(n))) = n
  <2>1. \E i \in Noted : Cardinality(UpTo(Noted, i)) = n
    <3> SUFFICES ASSUME NEW W, W = Noted, NEW a \in Nat, a = Len(log), NEW b \in Nat, b = Len(log')
                 PROVE  \E i \in W : Cardinality(UpTo(W, i)) = n
      BY <1>2
    <3>1. W \in SUBSET ((a + 1)..b) /\ n \in 1..Cardinality(W)
      BY <1>3
    <3> HIDE DEF count
    <3>2. QED
      BY ONLY <3>1, NthMember, a \in Nat, b \in Nat
  <2>2. \A i : UpTo(Noted, i) = {k \in Noted : k <= i}
    BY DEF UpTo
  <2>3. \E i \in Noted : Cardinality({k \in Noted : k <= i}) = n
    BY <2>1, <2>2
  <2>4. Nth(n) \in Noted /\ Cardinality({k \in Noted : k <= Nth(n)}) = n
    BY <2>3
  <2> HIDE DEF Nth
  <2>5. QED
    BY <2>2, <2>4
<1>6. \A i : Note(i).seq = i
  OBVIOUS
<1> HIDE DEF Nth, Note, count
<1>7. run \in Seq(all) /\ Len(run) = count /\ \A n \in 1..count : run[n] = Note(Nth(n))
  <2>1. run \in [1..count -> all] /\ \A n \in 1..count : run[n] = Note(Nth(n))
    OBVIOUS
  <2> HIDE DEF run, all
  <2>2. QED
    BY ONLY <1>4, <2>1
<1> HIDE DEF run, all
<1>8. Len(run) = count /\ \A n \in 1..count : run[n].seq = Nth(n)
  BY <1>6, <1>7
<1>9. IsSeq(run)
  BY <1>7 DEF IsSeq
<1>10. Between(run, Len(log) + 1, Len(log'))
  <2>1. \A k \in Noted : k \in Nat /\ Len(log) + 1 <= k /\ k <= Len(log')
    BY <1>2, <1>3
  <2>2. QED
    BY <1>5, <1>8, <2>1 DEF Between
<1>11. Ascending(run)
  <2> SUFFICES ASSUME NEW i \in 1..count, NEW j \in 1..count, i < j
               PROVE  Nth(i) <= Nth(j)
    BY <1>8 DEF Ascending
  <2>1. /\ Nth(i) \in Noted /\ Nth(j) \in Noted
        /\ Cardinality(UpTo(Noted, Nth(i))) < Cardinality(UpTo(Noted, Nth(j)))
    BY <1>5
  <2>2. Nth(i) < Nth(j)
    BY <1>3, <1>4, <2>1, MembersInOrder
  <2>3. Nth(i) \in Nat /\ Nth(j) \in Nat
    BY <1>3, <2>1
  <2>4. QED
    BY <2>2, <2>3
<1>12. QED
  BY <1>1, <1>9, <1>10, <1>11

LEMMA QueueInitInv == Init => QueueInv
<1> SUFFICES ASSUME Init PROVE QueueInv
  OBVIOUS
<1>1. chain = <<>> /\ received.seq = 0 /\ log = <<>>
  BY DEF Init, RunnerInit, NotifierInit, Nothing
<1>2. QED
  BY <1>1, Empty DEF QueueInv, Ascending, Between

\* What a step of the runner makes goes to the end of the queue.
LEMMA NotifyStep ==
  ASSUME QueueInv, IsSeq(log), Grown, Notify
  PROVE  QueueInv' /\ received' = received
<1>1. chain' = chain \o Notes /\ received' = received
  BY DEF Notify
<1>2. IsSeq(chain) /\ Ascending(chain) /\ Between(chain, received.seq, Len(log))
  BY DEF QueueInv
<1>3. /\ IsSeq(Notes) /\ Ascending(Notes)
      /\ Between(Notes, Len(log) + 1, Len(log'))
  BY NotesInOrder DEF Grown
<1>4. /\ Len(log) \in Nat /\ Len(log') \in Nat /\ Len(log) <= Len(log')
      /\ received.seq \in Nat /\ received.seq <= Len(log)
  BY Length DEF Grown, QueueInv
<1> SUFFICES ASSUME NEW notes, notes = Notes, NEW low, low = received.seq,
                    NEW a \in Nat, a = Len(log), NEW b \in Nat, b = Len(log'), a <= b
             PROVE  QueueInv' /\ received' = received
  BY <1>4
<1> DEFINE w == chain \o notes
<1>5. /\ IsSeq(w) /\ Len(w) = Len(chain) + Len(notes)
      /\ Len(chain) \in Nat /\ Len(notes) \in Nat
      /\ \A i \in 1..Len(chain) : w[i] = chain[i]
      /\ \A i \in 1..Len(notes) : w[Len(chain) + i] = notes[i]
  BY <1>2, <1>3, Joined, Length
<1> HIDE DEF w
<1>6. \A i \in 1..Len(w) :
        \/ i \in 1..Len(chain) /\ w[i] = chain[i]
        \/ i > Len(chain) /\ i - Len(chain) \in 1..Len(notes) /\ w[i] = notes[i - Len(chain)]
  <2> SUFFICES ASSUME NEW i \in 1..Len(w), i > Len(chain)
               PROVE  i - Len(chain) \in 1..Len(notes) /\ w[i] = notes[i - Len(chain)]
    BY <1>5
  <2>1. i - Len(chain) \in 1..Len(notes) /\ Len(chain) + (i - Len(chain)) = i
    BY <1>5
  <2>2. QED
    BY <1>5, <2>1
<1>7. \A i \in 1..Len(chain) : chain[i].seq \in Nat /\ low <= chain[i].seq /\ chain[i].seq <= a
  BY <1>2 DEF Between
<1>8. \A i \in 1..Len(notes) : notes[i].seq \in Nat /\ a + 1 <= notes[i].seq /\ notes[i].seq <= b
  BY <1>3 DEF Between
<1>9. low \in Nat /\ low <= a
  BY <1>4
<1>10. Between(w, low, b)
  <2> SUFFICES ASSUME NEW i \in 1..Len(w)
               PROVE  w[i].seq \in Nat /\ low <= w[i].seq /\ w[i].seq <= b
    BY DEF Between
  <2>1. CASE i \in 1..Len(chain) /\ w[i] = chain[i]
    <3>1. chain[i].seq \in Nat /\ low <= chain[i].seq /\ chain[i].seq <= a
      BY <1>7, <2>1
    <3>2. QED
      BY <1>9, <2>1, <3>1
  <2>2. CASE i - Len(chain) \in 1..Len(notes) /\ w[i] = notes[i - Len(chain)]
    <3>1. w[i].seq \in Nat /\ a + 1 <= w[i].seq /\ w[i].seq <= b
      BY <1>8, <2>2
    <3>2. QED
      BY <1>9, <3>1
  <2>3. QED
    BY <1>6, <2>1, <2>2
<1>11. Ascending(w)
  <2> SUFFICES ASSUME NEW i \in 1..Len(w), NEW j \in 1..Len(w), i < j
               PROVE  w[i].seq <= w[j].seq
    BY DEF Ascending
  <2>1. CASE i \in 1..Len(chain) /\ j \in 1..Len(chain)
    BY <1>2, <1>5, <2>1 DEF Ascending
  <2>2. CASE i \in 1..Len(chain) /\ j > Len(chain)
    <3>1. w[i].seq \in Nat /\ w[i].seq <= a
      BY <1>5, <1>7, <2>2
    <3>2. j - Len(chain) \in 1..Len(notes) /\ w[j] = notes[j - Len(chain)]
      BY <1>5, <1>6, <2>2
    <3>3. w[j].seq \in Nat /\ a + 1 <= w[j].seq
      BY <1>8, <3>2
    <3>4. QED
      BY <3>1, <3>3
  <2>3. CASE i > Len(chain)
    <3>1. j > Len(chain) /\ i - Len(chain) < j - Len(chain)
      BY <1>5, <2>3
    <3>2. /\ i - Len(chain) \in 1..Len(notes) /\ w[i] = notes[i - Len(chain)]
          /\ j - Len(chain) \in 1..Len(notes) /\ w[j] = notes[j - Len(chain)]
      BY <1>5, <1>6, <2>3, <3>1
    <3>3. QED
      BY <1>3, <3>1, <3>2 DEF Ascending
  <2>4. QED
    BY <1>5, <2>1, <2>2, <2>3
<1>12. QED
  BY <1>1, <1>4, <1>5, <1>9, <1>10, <1>11 DEF QueueInv, w

\* Only the first of the queue is posted, and it goes before the next.
LEMMA PostStep ==
  ASSUME QueueInv, Post, log' = log
  PROVE  QueueInv' /\ received'.seq >= received.seq
<1>1. /\ IsSeq(chain) /\ Ascending(chain) /\ Between(chain, received.seq, Len(log))
      /\ received.seq \in Nat /\ received.seq <= Len(log) /\ chain # <<>>
  BY DEF QueueInv, Post
<1>2. /\ IsSeq(Tail(chain)) /\ Len(chain) >= 1 /\ Len(Tail(chain)) = Len(chain) - 1
      /\ \A i \in 1..(Len(chain) - 1) : Tail(chain)[i] = chain[i + 1]
      /\ Head(chain) = chain[1] /\ Len(chain) \in Nat
  BY <1>1, Popped, Length
<1>3. /\ received' = chain[1] \/ received' = received
      /\ \/ chain' = Tail(chain) /\ received' = chain[1]
         \/ chain' = Tail(chain) /\ received' = received
         \/ chain' = chain
  BY <1>2 DEF Post
<1>4. 1 \in 1..Len(chain)
  BY <1>2
<1>5. /\ received'.seq \in Nat /\ received'.seq <= Len(log) /\ received.seq <= received'.seq
      /\ \A i \in 1..Len(chain) : received'.seq <= chain[i].seq
  <2>1. chain[1].seq \in Nat /\ received.seq <= chain[1].seq /\ chain[1].seq <= Len(log)
    BY <1>1, <1>4 DEF Between
  <2>2. \A i \in 1..Len(chain) : chain[1].seq <= chain[i].seq
    BY <1>1, <1>2, <1>4, <2>1 DEF Ascending
  <2>3. QED
    BY <1>1, <1>3, <2>1, <2>2 DEF Between
<1>6. Between(chain, received'.seq, Len(log))
  BY <1>1, <1>5 DEF Between
<1>7. Ascending(Tail(chain)) /\ Between(Tail(chain), received'.seq, Len(log))
  <2>1. \A i \in 1..Len(Tail(chain)) : i + 1 \in 1..Len(chain) /\ Tail(chain)[i] = chain[i + 1]
    BY <1>2
  <2>2. \A i, j \in 1..Len(Tail(chain)) : i < j => i + 1 < j + 1
    BY <1>2
  <2>3. QED
    BY <1>1, <1>6, <2>1, <2>2 DEF Ascending, Between
<1>8. received'.seq >= received.seq
  BY <1>1, <1>5
<1>9. IsSeq(chain') /\ Ascending(chain') /\ Between(chain', received'.seq, Len(log))
  BY <1>1, <1>2, <1>3, <1>6, <1>7
<1>10. QED
  BY <1>5, <1>8, <1>9 DEF QueueInv

\* The receiver of the webhook never hears of an event after a later one of
\* the session (notifications.ts, the chain of the session and the retries).
THEOREM ReceivedInOrderHolds == Spec => ReceivedInOrder
<1>1. RunnerInv /\ QueueInv /\ [Grown]_vars /\ [Next]_vars
        => QueueInv' /\ [received'.seq >= received.seq]_vars
  <2> SUFFICES ASSUME RunnerInv, QueueInv, [Grown]_vars, [Next]_vars
               PROVE  QueueInv' /\ [received'.seq >= received.seq]_vars
    OBVIOUS
  <2>1. CASE UNCHANGED vars
    <3>1. UNCHANGED <<chain, received, log>>
      BY <2>1 DEF vars, runnerVars
    <3>2. QED
      BY <2>1, <3>1 DEF QueueInv
  <2>2. CASE vars' # vars
    <3>1. IsSeq(log) /\ Grown /\ Next
      BY <2>2 DEF RunnerInv, RunnerTypes
    <3>2. CASE Notify
      <4>1. QueueInv' /\ received' = received
        BY <3>1, <3>2, NotifyStep
      <4>2. received.seq \in Nat
        BY DEF QueueInv
      <4>3. received'.seq >= received.seq
        BY <4>1, <4>2
      <4>4. QED
        BY <4>1, <4>3
    <3>3. CASE Post
      <4>1. log' = log
        BY <3>3 DEF Post, runnerVars
      <4>2. QED
        BY <3>3, <4>1, PostStep
    <3>4. QED
      BY <3>1, <3>2, <3>3 DEF Next
  <2>3. QED
    BY <2>1, <2>2
<1>2. QED
  BY <1>1, QueueInitInv, RunnerInvariance, PTL DEF Spec, ReceivedInOrder

=============================================================================
