------------------------- MODULE CollectionLemmas ---------------------------
(* Facts about sequences, sets of numbers in their order, and sums, that   *)
(* the proofs about several components rest on.                            *)
EXTENDS Integers, SequencesExt, SequenceTheorems, FiniteSetTheorems, WellFoundedInduction,
        TLAPS

-----------------------------------------------------------------------------
(* Sequences of anything.                                                  *)

IsSeq(s) == \E S : s \in Seq(S)

LEMMA Empty == IsSeq(<<>>) /\ Len(<<>>) = 0 /\ ToSet(<<>>) = {}
<1>1. <<>> \in Seq({})
  OBVIOUS
<1>2. ToSet(<<>>) = {}
  BY DEF ToSet
<1>3. QED
  BY <1>1, <1>2 DEF IsSeq

LEMMA One == ASSUME NEW e PROVE IsSeq(<<e>>) /\ Len(<<e>>) = 1 /\ ToSet(<<e>>) = {e}
<1>1. <<e>> \in Seq({e}) /\ Len(<<e>>) = 1 /\ <<e>>[1] = e
  OBVIOUS
<1>2. ToSet(<<e>>) = {e}
  BY <1>1 DEF ToSet
<1>3. QED
  BY <1>1, <1>2 DEF IsSeq

LEMMA Length ==
  ASSUME NEW s, IsSeq(s)
  PROVE  Len(s) \in Nat /\ DOMAIN s = 1..Len(s) /\ ToSet(s) = {s[i] : i \in 1..Len(s)}
<1>1. PICK S : s \in Seq(S)
  BY DEF IsSeq
<1>2. Len(s) \in Nat /\ DOMAIN s = 1..Len(s)
  BY <1>1
<1>3. QED
  BY <1>2 DEF ToSet

LEMMA Joined ==
  ASSUME NEW s, NEW t, IsSeq(s), IsSeq(t)
  PROVE  /\ IsSeq(s \o t) /\ Len(s \o t) = Len(s) + Len(t)
         /\ \A i \in 1..Len(s) : (s \o t)[i] = s[i]
         /\ \A i \in 1..Len(t) : (s \o t)[Len(s) + i] = t[i]
         /\ ToSet(s \o t) = ToSet(s) \cup ToSet(t)
<1>1. PICK S : s \in Seq(S)
  BY DEF IsSeq
<1>2. PICK T : t \in Seq(T)
  BY DEF IsSeq
<1>3. s \in Seq(S \cup T) /\ t \in Seq(S \cup T)
  BY <1>1, <1>2, SeqMonotonic
<1>4. /\ s \o t \in Seq(S \cup T)
      /\ Len(s \o t) = Len(s) + Len(t)
      /\ \A i \in 1..Len(s) + Len(t) : (s \o t)[i] = IF i <= Len(s) THEN s[i] ELSE t[i - Len(s)]
  BY <1>3, ConcatProperties
<1>5. /\ Len(s) \in Nat /\ DOMAIN s = 1..Len(s)
      /\ Len(t) \in Nat /\ DOMAIN t = 1..Len(t)
      /\ DOMAIN (s \o t) = 1..(Len(s) + Len(t))
  BY <1>3, <1>4
<1> DEFINE u == s \o t
<1> HIDE DEF u
<1>6. \A i \in 1..Len(s) : i \in 1..(Len(s) + Len(t)) /\ u[i] = s[i]
  BY <1>4, <1>5 DEF u
<1>7. \A i \in 1..Len(t) : Len(s) + i \in 1..(Len(s) + Len(t)) /\ u[Len(s) + i] = t[i]
  BY <1>4, <1>5 DEF u
<1>8. \A i \in 1..(Len(s) + Len(t)) :
        \/ i \in 1..Len(s) /\ u[i] = s[i]
        \/ i - Len(s) \in 1..Len(t) /\ u[i] = t[i - Len(s)]
  BY <1>4, <1>5 DEF u
<1>9. ToSet(u) = ToSet(s) \cup ToSet(t)
  <2>1. DOMAIN u = 1..(Len(s) + Len(t))
    BY <1>5 DEF u
  <2>2. /\ ToSet(u) = {u[i] : i \in 1..(Len(s) + Len(t))}
        /\ ToSet(s) = {s[i] : i \in 1..Len(s)} /\ ToSet(t) = {t[i] : i \in 1..Len(t)}
    BY <1>5, <2>1 DEF ToSet
  <2>3. ToSet(u) \subseteq ToSet(s) \cup ToSet(t)
    BY <1>8, <2>2
  <2>4. ToSet(s) \subseteq ToSet(u)
    BY <1>6, <2>2
  <2>5. ToSet(t) \subseteq ToSet(u)
    BY <1>7, <2>2
  <2>6. QED
    BY <2>3, <2>4, <2>5
<1>10. IsSeq(u)
  BY <1>4 DEF IsSeq, u
<1>11. QED
  BY <1>4, <1>6, <1>7, <1>9, <1>10 DEF u

LEMMA Pushed ==
  ASSUME NEW s, IsSeq(s), NEW e
  PROVE  Append(s, e) = s \o <<e>>
<1>1. PICK S : s \in Seq(S)
  BY DEF IsSeq
<1>2. s \in Seq(S \cup {e}) /\ e \in S \cup {e}
  BY <1>1, SeqMonotonic
<1>3. QED
  BY <1>2

LEMMA Appended ==
  ASSUME NEW s, IsSeq(s), NEW e
  PROVE  /\ IsSeq(Append(s, e)) /\ Len(Append(s, e)) = Len(s) + 1
         /\ \A i \in 1..Len(s) : Append(s, e)[i] = s[i]
         /\ Append(s, e)[Len(s) + 1] = e
         /\ ToSet(Append(s, e)) = ToSet(s) \cup {e}
<1> DEFINE one == <<e>>
<1>1. IsSeq(one) /\ Len(one) = 1 /\ ToSet(one) = {e} /\ one[1] = e
  BY One
<1>2. Append(s, e) = s \o one
  BY Pushed
<1> HIDE DEF one
<1>3. /\ IsSeq(s \o one) /\ Len(s \o one) = Len(s) + Len(one)
      /\ \A i \in 1..Len(s) : (s \o one)[i] = s[i]
      /\ \A i \in 1..Len(one) : (s \o one)[Len(s) + i] = one[i]
      /\ ToSet(s \o one) = ToSet(s) \cup ToSet(one)
  BY <1>1, Joined
<1>4. QED
  BY <1>1, <1>2, <1>3

LEMMA PushedLast ==
  ASSUME NEW s, NEW t, IsSeq(s), IsSeq(t), NEW e
  PROVE  s \o Append(t, e) = Append(s \o t, e)
<1>1. PICK S : s \in Seq(S)
  BY DEF IsSeq
<1>2. PICK T : t \in Seq(T)
  BY DEF IsSeq
<1> DEFINE one == <<e>>
           V == (S \cup T) \cup {e}
<1>3. one \in Seq(V)
  OBVIOUS
<1> HIDE DEF one
<1>4. s \in Seq(V) /\ t \in Seq(V)
  BY <1>1, <1>2, SeqMonotonic
<1> HIDE DEF V
<1>5. s \o (t \o one) = (s \o t) \o one /\ IsSeq(s \o t)
  BY <1>3, <1>4, ConcatAssociative DEF IsSeq
<1>6. QED
  BY <1>5, Pushed DEF one

LEMMA PushedTwo ==
  ASSUME NEW s, IsSeq(s), NEW a, NEW b
  PROVE  s \o <<a, b>> = Append(Append(s, a), b)
<1>1. <<a, b>> = Append(<<a>>, b)
  OBVIOUS
<1>2. QED
  BY <1>1, One, Pushed, PushedLast

LEMMA PushedThree ==
  ASSUME NEW s, IsSeq(s), NEW a, NEW b, NEW c
  PROVE  s \o <<a, b, c>> = Append(Append(Append(s, a), b), c)
<1>1. <<a, b, c>> = Append(<<a, b>>, c)
  OBVIOUS
<1>2. IsSeq(<<a, b>>)
  <2>1. <<a, b>> \in Seq({a, b})
    OBVIOUS
  <2>2. QED
    BY <2>1 DEF IsSeq
<1>3. QED
  BY <1>1, <1>2, PushedTwo, PushedLast

LEMMA Popped ==
  ASSUME NEW s, IsSeq(s), s # <<>>
  PROVE  /\ IsSeq(Tail(s)) /\ Len(s) >= 1 /\ Len(Tail(s)) = Len(s) - 1
         /\ \A i \in 1..(Len(s) - 1) : Tail(s)[i] = s[i + 1]
         /\ Head(s) = s[1] /\ Head(s) \in ToSet(s) /\ ToSet(Tail(s)) \subseteq ToSet(s)
<1>1. PICK S : s \in Seq(S)
  BY DEF IsSeq
<1>2. /\ Tail(s) \in Seq(S) /\ Len(Tail(s)) = Len(s) - 1
      /\ \A i \in 1..Len(Tail(s)) : Tail(s)[i] = s[i + 1]
  BY <1>1, HeadTailProperties
<1>3. Len(s) \in Nat /\ Len(s) >= 1 /\ Head(s) = s[1] /\ DOMAIN s = 1..Len(s)
  BY <1>1
<1>4. DOMAIN Tail(s) = 1..(Len(s) - 1)
  BY <1>2, <1>3
<1> DEFINE t == Tail(s)
<1> HIDE DEF t
<1>5. \A i \in 1..(Len(s) - 1) : i + 1 \in 1..Len(s) /\ t[i] = s[i + 1]
  BY <1>2, <1>3 DEF t
<1>6. ToSet(t) \subseteq ToSet(s)
  BY <1>3, <1>4, <1>5 DEF ToSet, t
<1>7. QED
  BY <1>2, <1>3, <1>5, <1>6 DEF IsSeq, ToSet, t

-----------------------------------------------------------------------------
(* The beginning of a sequence.                                            *)

LEMMA SameSeq ==
  ASSUME NEW s, NEW t, IsSeq(s), IsSeq(t), Len(s) = Len(t), \A i \in 1..Len(s) : s[i] = t[i]
  PROVE  s = t
<1>1. PICK S : s \in Seq(S)
  BY DEF IsSeq
<1>2. PICK T : t \in Seq(T)
  BY DEF IsSeq
<1>3. s \in Seq(S \cup T) /\ t \in Seq(S \cup T)
  BY <1>1, <1>2, SeqMonotonic
<1>4. QED
  BY <1>3, SeqEqual

LEMMA Prefix ==
  ASSUME NEW s, IsSeq(s), NEW m \in Nat, m <= Len(s)
  PROVE  /\ IsSeq(SubSeq(s, 1, m)) /\ Len(SubSeq(s, 1, m)) = m
         /\ \A i \in 1..m : SubSeq(s, 1, m)[i] = s[i]
<1>1. PICK S : s \in Seq(S)
  BY DEF IsSeq
<1> DEFINE w == SubSeq(s, 1, m)
<1>2. \A i \in 1..m : s[i] \in S
  BY <1>1
<1>3. /\ w \in Seq(S)
      /\ Len(w) = IF 1 <= m THEN m - 1 + 1 ELSE 0
      /\ \A i \in 1..(m - 1 + 1) : w[i] = s[1 + i - 1]
  BY <1>2, SubSeqProperties
<1> HIDE DEF w
<1>4. ASSUME NEW i \in 1..m PROVE w[i] = s[i]
  <2>1. i \in 1..(m - 1 + 1) /\ 1 + i - 1 = i
    OBVIOUS
  <2>2. QED
    BY <1>3, <2>1
<1>5. IsSeq(w) /\ Len(w) = m
  BY <1>3 DEF IsSeq
<1>6. QED
  BY <1>4, <1>5 DEF w

LEMMA PrefixKept ==
  ASSUME NEW s, NEW t, IsSeq(s), IsSeq(t), NEW m \in Nat, m <= Len(s)
  PROVE  SubSeq(s \o t, 1, m) = SubSeq(s, 1, m)
<1> DEFINE u == s \o t
           v == SubSeq(s, 1, m)
           w == SubSeq(u, 1, m)
<1>1. /\ IsSeq(u) /\ Len(u) = Len(s) + Len(t) /\ Len(s) \in Nat /\ Len(t) \in Nat
      /\ \A i \in 1..Len(s) : u[i] = s[i]
  BY Joined, Length
<1> HIDE DEF u
<1>2. IsSeq(v) /\ Len(v) = m /\ \A i \in 1..m : v[i] = s[i]
  BY Prefix
<1>3. IsSeq(w) /\ Len(w) = m /\ \A i \in 1..m : w[i] = u[i]
  BY <1>1, Prefix
<1> HIDE DEF v, w
<1>4. \A i \in 1..m : w[i] = v[i]
  BY <1>1, <1>2, <1>3
<1>5. w = v
  BY <1>2, <1>3, <1>4, SameSeq
<1>6. QED
  BY <1>5 DEF u, v, w

LEMMA PrefixNext ==
  ASSUME NEW s, IsSeq(s), NEW m \in Nat, m + 1 <= Len(s)
  PROVE  SubSeq(s, 1, m + 1) = Append(SubSeq(s, 1, m), s[m + 1])
<1> DEFINE v == SubSeq(s, 1, m)
           w == SubSeq(s, 1, m + 1)
           u == Append(v, s[m + 1])
<1>1. Len(s) \in Nat /\ m + 1 \in Nat /\ m <= Len(s)
  BY Length
<1>2. IsSeq(v) /\ Len(v) = m /\ \A i \in 1..m : v[i] = s[i]
  BY <1>1, Prefix
<1>3. IsSeq(w) /\ Len(w) = m + 1 /\ \A i \in 1..(m + 1) : w[i] = s[i]
  BY <1>1, Prefix
<1> HIDE DEF v, w
<1>4. IsSeq(u) /\ Len(u) = m + 1 /\ (\A i \in 1..m : u[i] = v[i]) /\ u[m + 1] = s[m + 1]
  BY <1>2, Appended
<1> HIDE DEF u
<1>5. \A i \in 1..(m + 1) : w[i] = u[i]
  <2>1. \A i \in 1..(m + 1) : i \in 1..m \/ i = m + 1
    OBVIOUS
  <2>2. QED
    BY <1>2, <1>3, <1>4, <2>1
<1>6. w = u
  BY <1>3, <1>4, <1>5, SameSeq
<1>7. QED
  BY <1>6 DEF u, v, w

-----------------------------------------------------------------------------
(* A sequence without one of its elements.                                 *)

LEMMA RemoveAtProperties ==
  ASSUME NEW S, NEW seq \in Seq(S), NEW i \in 1..Len(seq)
  PROVE  /\ RemoveAt(seq, i) \in Seq(S)
         /\ Len(RemoveAt(seq, i)) = Len(seq) - 1
         /\ \A k \in 1..(Len(seq) - 1) :
              RemoveAt(seq, i)[k] = IF k < i THEN seq[k] ELSE seq[k + 1]
<1> DEFINE a == SubSeq(seq, 1, i - 1)
           b == SubSeq(seq, i + 1, Len(seq))
<1>1. a \in Seq(S) /\ Len(a) = i - 1 /\ \A k \in 1..(i - 1) : a[k] = seq[k]
  <2>1. 1 \in 1..(Len(seq) + 1) /\ i - 1 \in 0..Len(seq)
    OBVIOUS
  <2>2. QED
    BY <2>1, SubSeqProperties
<1>2. /\ b \in Seq(S) /\ Len(b) = Len(seq) - i
      /\ \A k \in 1..(Len(seq) - i) : b[k] = seq[k + i]
  <2>1. i + 1 \in 1..(Len(seq) + 1) /\ Len(seq) \in 0..Len(seq)
    OBVIOUS
  <2>2. QED
    BY <2>1, SubSeqProperties
<1>3. RemoveAt(seq, i) = a \o b
  BY DEF RemoveAt
<1> HIDE DEF a, b
<1>4. /\ a \o b \in Seq(S) /\ Len(a \o b) = Len(seq) - 1
      /\ \A k \in 1..(Len(seq) - 1) : (a \o b)[k] = IF k < i THEN seq[k] ELSE seq[k + 1]
  <2>1. /\ a \o b \in Seq(S) /\ Len(a \o b) = Len(seq) - 1
        /\ \A k \in 1..(Len(seq) - 1) : (a \o b)[k] = IF k <= Len(a) THEN a[k] ELSE b[k - Len(a)]
    <3>1. /\ a \o b \in Seq(S) /\ Len(a \o b) = Len(a) + Len(b)
          /\ \A k \in 1..(Len(a) + Len(b)) :
               (a \o b)[k] = IF k <= Len(a) THEN a[k] ELSE b[k - Len(a)]
      BY <1>1, <1>2, ConcatProperties
    <3>2. Len(a) + Len(b) = Len(seq) - 1
      BY <1>1, <1>2
    <3>3. QED
      BY <3>1, <3>2
  <2>2. ASSUME NEW k \in 1..(Len(seq) - 1)
        PROVE  (a \o b)[k] = IF k < i THEN seq[k] ELSE seq[k + 1]
    <3>1. CASE k < i
      <4>1. k \in 1..(i - 1) /\ k <= Len(a)
        BY <1>1, <3>1
      <4>2. QED
        BY <1>1, <2>1, <3>1, <4>1
    <3>2. CASE ~(k < i)
      <4>1. k - Len(a) \in 1..(Len(seq) - i) /\ ~(k <= Len(a)) /\ (k - Len(a)) + i = k + 1
        BY <1>1, <3>2
      <4>2. QED
        BY <1>2, <2>1, <3>2, <4>1
    <3>3. QED
      BY <3>1, <3>2
  <2>3. QED
    BY <2>1, <2>2
<1>5. QED
  BY <1>3, <1>4

Distinct(s) == \A i, j \in 1..Len(s) : s[i] = s[j] => i = j

LEMMA WithoutOne ==
  ASSUME NEW s, IsSeq(s), Distinct(s), NEW at \in 1..Len(s)
  PROVE  /\ IsSeq(RemoveAt(s, at)) /\ Distinct(RemoveAt(s, at))
         /\ ToSet(RemoveAt(s, at)) = ToSet(s) \ {s[at]}
<1>1. PICK S : s \in Seq(S)
  BY DEF IsSeq
<1> DEFINE t == RemoveAt(s, at)
<1>2. /\ t \in Seq(S) /\ Len(t) = Len(s) - 1 /\ Len(s) \in Nat
      /\ \A k \in 1..(Len(s) - 1) : t[k] = IF k < at THEN s[k] ELSE s[k + 1]
  BY <1>1, RemoveAtProperties
<1> HIDE DEF t
<1>3. IsSeq(t)
  BY <1>2 DEF IsSeq
<1> DEFINE From(k) == IF k < at THEN k ELSE k + 1
<1>4. \A k \in 1..Len(t) : /\ From(k) \in 1..Len(s) /\ From(k) # at /\ t[k] = s[From(k)]
  BY <1>2
<1>5. \A i \in 1..Len(s) : i # at => \E k \in 1..Len(t) : From(k) = i
  <2> SUFFICES ASSUME NEW i \in 1..Len(s), i # at
               PROVE  \E k \in 1..Len(t) : From(k) = i
    OBVIOUS
  <2>1. CASE i < at
    <3>1. i \in 1..Len(t) /\ From(i) = i
      BY <1>2, <2>1
    <3>2. QED
      BY <3>1
  <2>2. CASE i > at
    <3>1. i - 1 \in 1..Len(t) /\ From(i - 1) = i
      BY <1>2, <2>2
    <3>2. QED
      BY <3>1
  <2>3. QED
    BY <2>1, <2>2
<1>6. \A i, j \in 1..Len(t) : From(i) = From(j) => i = j
  BY <1>2
<1> HIDE DEF From
<1>7. Distinct(t)
  BY <1>4, <1>6 DEF Distinct
<1>8. ToSet(t) = ToSet(s) \ {s[at]}
  <2>1. ToSet(s) = {s[i] : i \in 1..Len(s)} /\ ToSet(t) = {t[i] : i \in 1..Len(t)}
    BY <1>3, Length
  <2>2. \A k \in 1..Len(t) : t[k] \in ToSet(s) \ {s[at]}
    BY <1>4, <2>1 DEF Distinct
  <2>3. \A i \in 1..Len(s) : s[i] # s[at] => s[i] \in ToSet(t)
    BY <1>4, <1>5, <2>1
  <2>4. QED
    BY <2>1, <2>2, <2>3
<1>9. QED
  BY <1>3, <1>7, <1>8 DEF t

LEMMA EmptyByLength ==
  ASSUME NEW s, IsSeq(s)
  PROVE  /\ s = <<>> <=> Len(s) = 0
         /\ s = <<>> <=> ToSet(s) = {}
<1>1. PICK S : s \in Seq(S)
  BY DEF IsSeq
<1>2. s = <<>> <=> Len(s) = 0
  BY <1>1
<1>3. ToSet(s) = {s[i] : i \in 1..Len(s)} /\ Len(s) \in Nat
  BY Length
<1>4. Len(s) # 0 => 1 \in 1..Len(s)
  BY <1>3
<1>5. QED
  BY <1>2, <1>3, <1>4, Empty

-----------------------------------------------------------------------------
(* The n-th member of a finite set of numbers.                             *)

LEMMA LeastMember ==
  ASSUME NEW T \in SUBSET Nat, T # {}
  PROVE  \E m \in T : \A k \in T : m <= k
<1> DEFINE Less == OpToRel(<, Nat)
<1>1. IsWellFoundedOn(Less, Nat)
  BY NatLessThanWellFounded
<1>2. \A k, m \in Nat : k < m => <<k, m>> \in Less
  BY DEF OpToRel
<1> HIDE DEF Less
<1>3. PICK m \in T : \A k \in T : ~(<<k, m>> \in Less)
  BY <1>1, WFMin
<1>4. \A k \in T : k \in Nat
  OBVIOUS
<1>5. \A k \in T : ~(k < m)
  BY <1>2, <1>3, <1>4
<1>6. QED
  BY <1>4, <1>5

LEMMA LeastIsMin ==
  ASSUME NEW T \in SUBSET Nat, T # {}
  PROVE  Min(T) \in T /\ \A k \in T : Min(T) <= k
<1>1. PICK m \in T : \A k \in T : m <= k
  BY LeastMember
<1>2. QED
  BY <1>1 DEF Min

LEMMA GreatestIsMax ==
  ASSUME NEW n \in Nat, NEW T \in SUBSET (1..n), T # {}
  PROVE  Max(T) \in T /\ \A k \in T : k <= Max(T)
<1> DEFINE Above == {b \in Nat : \A k \in T : k <= b}
<1>0. \A k \in T : k \in Nat /\ 1 <= k /\ k <= n
  OBVIOUS
<1>1. n \in Above
  BY <1>0
<1>2. PICK b \in Above : \A c \in Above : b <= c
  BY <1>1, LeastMember
<1>3. b \in Nat /\ \A k \in T : k <= b
  OBVIOUS
<1>4. b \in T
  <2> SUFFICES ASSUME b \notin T PROVE FALSE
    OBVIOUS
  <2>1. b # 0
    <3>1. PICK k \in T : TRUE
      OBVIOUS
    <3>2. QED
      BY <1>0, <1>3, <3>1
  <2>2. \A k \in T : k <= b - 1
    BY <1>0, <1>3
  <2>3. b - 1 \in Above
    BY <1>3, <2>1, <2>2
  <2>4. QED
    BY <1>2, <1>3, <2>3
<1>5. \E x \in T : \A y \in T : x >= y
  BY <1>0, <1>3, <1>4
<1>6. Max(T) \in T /\ \A y \in T : Max(T) >= y
  BY <1>5 DEF Max
<1>7. QED
  BY <1>0, <1>6

UpTo(W, i) == {k \in W : k <= i}

LEMMA NthMember ==
  ASSUME NEW a \in Nat, NEW b \in Nat, NEW W \in SUBSET ((a + 1)..b), NEW n \in 1..Cardinality(W)
  PROVE  \E i \in W : Cardinality(UpTo(W, i)) = n
<1>0. \A k \in W : k \in Nat /\ 0 < k /\ k <= b
  OBVIOUS
<1>1. IsFiniteSet(W) /\ Cardinality(W) \in Nat
  <2>1. a + 1 \in Int /\ b \in Int
    OBVIOUS
  <2>2. IsFiniteSet((a + 1)..b)
    BY <2>1, FS_Interval
  <2>3. IsFiniteSet(W)
    BY <2>2, FS_Subset
  <2>4. QED
    BY <2>3, FS_CardinalityType
<1>2. \A i : IsFiniteSet(UpTo(W, i)) /\ Cardinality(UpTo(W, i)) \in Nat
  <2> SUFFICES ASSUME NEW i
               PROVE  IsFiniteSet(UpTo(W, i)) /\ Cardinality(UpTo(W, i)) \in Nat
    OBVIOUS
  <2>1. UpTo(W, i) \in SUBSET W
    BY DEF UpTo
  <2>2. QED
    BY <1>1, <2>1, FS_Subset, FS_CardinalityType
<1> DEFINE T == {i \in Nat : Cardinality(UpTo(W, i)) >= n}
<1>3. UpTo(W, b) = W
  BY <1>0 DEF UpTo
<1>4. b \in T
  BY <1>1, <1>3
<1>5. PICK m \in T : \A k \in T : m <= k
  BY <1>4, LeastMember
<1>6. m \in Nat /\ Cardinality(UpTo(W, m)) >= n
  OBVIOUS
<1>7. m # 0
  <2>1. UpTo(W, 0) = {}
    <3>1. \A k \in W : ~(k <= 0)
      BY <1>0
    <3>2. QED
      BY <3>1 DEF UpTo
  <2>2. Cardinality(UpTo(W, 0)) = 0
    BY <2>1, FS_EmptySet
  <2>3. QED
    BY <1>6, <2>2
<1>8. m - 1 \in Nat /\ ~(Cardinality(UpTo(W, m - 1)) >= n)
  <2>1. m - 1 \in Nat /\ m - 1 \notin T
    BY <1>5, <1>6, <1>7
  <2>2. QED
    BY <2>1
<1> HIDE DEF T
<1>9. m \in W
  <2> SUFFICES ASSUME m \notin W PROVE FALSE
    OBVIOUS
  <2>1. UpTo(W, m) = UpTo(W, m - 1)
    <3>1. \A k \in W : k <= m <=> k <= m - 1
      BY <1>0, <1>6
    <3>2. QED
      BY <3>1 DEF UpTo
  <2>2. QED
    BY <1>6, <1>8, <2>1
<1>10. Cardinality(UpTo(W, m)) = Cardinality(UpTo(W, m - 1)) + 1
  <2>1. UpTo(W, m) = UpTo(W, m - 1) \cup {m} /\ m \notin UpTo(W, m - 1)
    <3>1. /\ \A k \in W : k <= m <=> k <= m - 1 \/ k = m
          /\ m <= m /\ ~(m <= m - 1)
      BY <1>0, <1>6
    <3>2. QED
      BY <1>9, <3>1 DEF UpTo
  <2>2. QED
    BY <1>2, <2>1, FS_AddElement
<1>11. Cardinality(UpTo(W, m)) = n
  <2>1. Cardinality(UpTo(W, m - 1)) \in Nat
    BY <1>2
  <2>2. QED
    BY <1>6, <1>8, <1>10, <2>1
<1>12. QED
  BY <1>9, <1>11

\* The later of two is the greater.
LEMMA MembersInOrder ==
  ASSUME NEW W \in SUBSET Nat, IsFiniteSet(W), NEW i \in W, NEW j \in W,
         Cardinality(UpTo(W, i)) < Cardinality(UpTo(W, j))
  PROVE  i < j
<1> SUFFICES ASSUME j <= i PROVE FALSE
  BY i \in Nat, j \in Nat
<1>0. \A k \in W : k \in Nat
  OBVIOUS
<1>1. UpTo(W, j) \in SUBSET UpTo(W, i) /\ UpTo(W, i) \in SUBSET W
  <2>1. \A k \in W : k <= j => k <= i
    BY <1>0
  <2>2. QED
    BY <2>1 DEF UpTo
<1>2. /\ Cardinality(UpTo(W, j)) <= Cardinality(UpTo(W, i))
      /\ IsFiniteSet(UpTo(W, i)) /\ IsFiniteSet(UpTo(W, j))
  BY <1>1, FS_Subset
<1>3. Cardinality(UpTo(W, i)) \in Nat /\ Cardinality(UpTo(W, j)) \in Nat
  BY <1>2, FS_CardinalityType
<1>4. QED
  BY <1>2, <1>3

-----------------------------------------------------------------------------
(* Induction, over numbers and over the parts of a finite set.  The        *)
(* predicate is a set: the least number, or the smallest part, outside it  *)
(* refutes it.                                                             *)

LEMMA StepByStep ==
  ASSUME NEW N \in SUBSET Nat, 0 \in N, \A n \in N : n + 1 \in N
  PROVE  N = Nat
<1> SUFFICES ASSUME Nat \ N # {} PROVE FALSE
  OBVIOUS
<1>1. PICK m \in Nat \ N : \A k \in Nat \ N : m <= k
  BY LeastMember
<1>2. m - 1 \in Nat /\ m - 1 \notin Nat \ N
  BY <1>1
<1>3. (m - 1) + 1 = m
  BY <1>1
<1>4. QED
  BY <1>1, <1>2, <1>3

LEMMA PartByPart ==
  ASSUME NEW S, IsFiniteSet(S), NEW F,
         \A T \in SUBSET S : (\A R \in SUBSET T : R # T => R \in F) => T \in F
  PROVE  \A T \in SUBSET S : T \in F
<1> DEFINE Bad == {T \in SUBSET S : T \notin F}
<1> SUFFICES ASSUME Bad # {} PROVE FALSE
  OBVIOUS
<1> DEFINE sizes == {Cardinality(T) : T \in Bad}
<1>1. \A T \in SUBSET S : IsFiniteSet(T) /\ Cardinality(T) \in Nat
  BY FS_Subset, FS_CardinalityType
<1>2. sizes \in SUBSET Nat /\ sizes # {}
  BY <1>1
<1>3. \A T \in Bad : Cardinality(T) \in sizes
  OBVIOUS
<1>4. \A k \in sizes : \E T \in Bad : k = Cardinality(T)
  OBVIOUS
<1> HIDE DEF sizes
<1>5. PICK m \in sizes : \A k \in sizes : m <= k
  BY <1>2, LeastMember
<1>6. PICK T \in Bad : m = Cardinality(T)
  BY <1>4, <1>5
<1>7. ASSUME NEW R \in SUBSET T, R # T
      PROVE  R \in F
  <2>1. R \in SUBSET S /\ IsFiniteSet(T)
    BY <1>1, <1>6
  <2>2. Cardinality(R) <= Cardinality(T) /\ Cardinality(R) # Cardinality(T)
    BY <1>7, <2>1, FS_Subset
  <2>3. Cardinality(R) \in Nat /\ Cardinality(T) \in Nat
    BY <1>1, <1>6, <2>1
  <2>4. R \notin Bad
    BY <1>3, <1>5, <1>6, <2>2, <2>3
  <2>5. QED
    BY <2>1, <2>4
<1>8. QED
  BY <1>6, <1>7

-----------------------------------------------------------------------------
(* Sums over a finite set, as MapThenSumSet takes them: one chosen member  *)
(* after the other.                                                        *)

Chosen(s) == CHOOSE x \in s : TRUE
Rest(s) == s \ {Chosen(s)}

Summed(g, f, S) ==
  g = [s \in SUBSET S |-> IF s = {} THEN 0 ELSE f[Chosen(s)] + g[Rest(s)]]

LEMMA RestIsLess ==
  ASSUME NEW s, IsFiniteSet(s), s # {}
  PROVE  /\ Chosen(s) \in s /\ Rest(s) \in SUBSET s /\ Rest(s) # s
         /\ Cardinality(s) \in Nat /\ Cardinality(Rest(s)) \in Nat
         /\ Cardinality(Rest(s)) < Cardinality(s)
<1>1. Chosen(s) \in s
  BY DEF Chosen
<1>2. Rest(s) \in SUBSET s /\ Rest(s) # s
  BY <1>1 DEF Rest
<1>3. IsFiniteSet(Rest(s)) /\ Cardinality(Rest(s)) <= Cardinality(s)
      /\ Cardinality(Rest(s)) # Cardinality(s)
  BY <1>2, FS_Subset
<1>4. Cardinality(s) \in Nat /\ Cardinality(Rest(s)) \in Nat
  BY <1>3, FS_CardinalityType
<1>5. QED
  BY <1>1, <1>2, <1>3, <1>4

LEMMA SumExists ==
  ASSUME NEW S, IsFiniteSet(S), NEW f
  PROVE  \E g : Summed(g, f, S)
<1> DEFINE Value(g, s) == IF s = {} THEN 0 ELSE f[Chosen(s)] + g[Rest(s)]
           Reaches(g, n) == /\ g = [s \in SUBSET S |-> g[s]]
                            /\ \A s \in SUBSET S : Cardinality(s) <= n => g[s] = Value(g, s)
           N == {n \in Nat : \E g : Reaches(g, n)}
<1>0. \A s \in SUBSET S : IsFiniteSet(s) /\ Cardinality(s) \in Nat
  BY FS_Subset, FS_CardinalityType
<1>1. 0 \in N
  <2> DEFINE z == [s \in SUBSET S |-> 0]
  <2>1. \A s \in SUBSET S : Cardinality(s) <= 0 => s = {}
    BY <1>0, FS_EmptySet
  <2>2. Reaches(z, 0)
    BY <2>1
  <2> HIDE DEF Reaches
  <2>3. QED
    BY <2>2
<1>2. ASSUME NEW n \in N
      PROVE  n + 1 \in N
  <2>1. PICK g : Reaches(g, n)
    OBVIOUS
  <2> DEFINE h == [s \in SUBSET S |-> Value(g, s)]
  <2>2. ASSUME NEW s \in SUBSET S, Cardinality(s) <= n + 1
        PROVE  h[s] = Value(h, s)
    <3>1. CASE s = {}
      BY <3>1
    <3>2. CASE s # {}
      <4>1. /\ Rest(s) \in SUBSET s /\ Cardinality(s) \in Nat
            /\ Cardinality(Rest(s)) \in Nat /\ Cardinality(Rest(s)) < Cardinality(s)
        BY <1>0, <3>2, RestIsLess
      <4>2. Rest(s) \in SUBSET S /\ Cardinality(Rest(s)) <= n
        BY <2>2, <4>1
      <4>3. g[Rest(s)] = Value(g, Rest(s))
        BY <2>1, <4>2
      <4>4. h[Rest(s)] = g[Rest(s)]
        BY <4>2, <4>3
      <4>5. QED
        BY <3>2, <4>4
    <3>3. QED
      BY <3>1, <3>2
  <2>3. Reaches(h, n + 1)
    BY <2>2
  <2> HIDE DEF Reaches
  <2>4. QED
    BY <2>3
<1>3. N = Nat
  <2> HIDE DEF Reaches
  <2>1. N \in SUBSET Nat
    OBVIOUS
  <2> HIDE DEF N
  <2>2. QED
    BY <1>1, <1>2, <2>1, StepByStep
<1>4. Cardinality(S) \in Nat
  BY <1>0
<1>5. PICK g : Reaches(g, Cardinality(S))
  <2> HIDE DEF Reaches
  <2>1. QED
    BY <1>3, <1>4
<1>6. \A s \in SUBSET S : Cardinality(s) <= Cardinality(S)
  BY FS_Subset
<1>7. \A s \in SUBSET S : g[s] = Value(g, s)
  BY <1>5, <1>6
<1>8. g = [s \in SUBSET S |-> Value(g, s)]
  BY <1>5, <1>7
<1>9. QED
  BY <1>8 DEF Summed

LEMMA SumOfParts ==
  ASSUME NEW S, IsFiniteSet(S), NEW f, \A x \in S : f[x] \in Nat,
         NEW g, Summed(g, f, S)
  PROVE  \A T \in SUBSET S : g[T] \in Nat /\ \A x \in T : g[T] = f[x] + g[T \ {x}]
<1> DEFINE F == {T \in SUBSET S : g[T] \in Nat /\ \A x \in T : g[T] = f[x] + g[T \ {x}]}
<1>1. \A s \in SUBSET S : g[s] = IF s = {} THEN 0 ELSE f[Chosen(s)] + g[Rest(s)]
  BY DEF Summed
<1>2. ASSUME NEW T \in SUBSET S, \A R \in SUBSET T : R # T => R \in F
      PROVE  T \in F
  <2>1. CASE T = {}
    BY <1>1, <2>1
  <2>2. CASE T # {}
    <3> DEFINE y == Chosen(T)
    <3>1. IsFiniteSet(T)
      BY FS_Subset
    <3>2. y \in T /\ Rest(T) = T \ {y} /\ g[T] = f[y] + g[T \ {y}]
      BY <1>1, <2>2, <3>1, RestIsLess DEF Rest
    <3> HIDE DEF y
    <3>3. \A x \in T : T \ {x} \in F
      BY <1>2
    <3>4. \A x \in T : f[x] \in Nat /\ g[T \ {x}] \in Nat
      BY <3>3
    <3>5. g[T] \in Nat
      BY <3>2, <3>4
    <3>6. ASSUME NEW x \in T, x # y
          PROVE  g[T] = f[x] + g[T \ {x}]
      <4> DEFINE U == (T \ {x}) \ {y}
      <4>1. U = (T \ {y}) \ {x}
        OBVIOUS
      <4>2. g[T \ {x}] = f[y] + g[U]
        BY <3>2, <3>3, <3>6
      <4>3. g[T \ {y}] = f[x] + g[U]
        BY <3>2, <3>3, <3>6, <4>1
      <4>4. g[U] \in Nat
        <5>1. U \in SUBSET T /\ U # T
          BY <3>2
        <5>2. QED
          BY <1>2, <5>1
      <4> HIDE DEF U
      <4>5. f[x] \in Nat /\ f[y] \in Nat
        BY <3>2, <3>4
      <4>6. QED
        BY <3>2, <4>2, <4>3, <4>4, <4>5
    <3>7. \A x \in T : g[T] = f[x] + g[T \ {x}]
      BY <3>2, <3>6
    <3>8. QED
      BY <3>5, <3>7
  <2>3. QED
    BY <2>1, <2>2
<1>3. \A T \in SUBSET S : T \in F
  <2> HIDE DEF F
  <2>1. QED
    BY <1>2, PartByPart
<1>4. QED
  BY <1>3

LEMMA SumsAgree ==
  ASSUME NEW S, NEW R, NEW U, IsFiniteSet(U), U \in SUBSET S, U \in SUBSET R,
         NEW f, NEW e, \A x \in U : f[x] = e[x],
         NEW g, NEW h, Summed(g, f, S), Summed(h, e, R)
  PROVE  g[U] = h[U]
<1> DEFINE F == {T \in SUBSET U : g[T] = h[T]}
<1>1. ASSUME NEW T \in SUBSET U, \A P \in SUBSET T : P # T => P \in F
      PROVE  T \in F
  <2>0. /\ T \in SUBSET S /\ T \in SUBSET R
        /\ g[T] = IF T = {} THEN 0 ELSE f[Chosen(T)] + g[Rest(T)]
        /\ h[T] = IF T = {} THEN 0 ELSE e[Chosen(T)] + h[Rest(T)]
    BY DEF Summed
  <2>1. CASE T = {}
    BY <2>0, <2>1
  <2>2. CASE T # {}
    <3>1. IsFiniteSet(T)
      BY FS_Subset
    <3>2. Chosen(T) \in T /\ Rest(T) \in SUBSET T /\ Rest(T) # T
      BY <2>2, <3>1, RestIsLess
    <3>3. g[Rest(T)] = h[Rest(T)]
      BY <1>1, <3>2
    <3>4. QED
      BY <2>0, <2>2, <3>2, <3>3
  <2>3. QED
    BY <2>1, <2>2
<1>2. \A T \in SUBSET U : T \in F
  <2> HIDE DEF F
  <2>1. QED
    BY <1>1, PartByPart
<1>3. QED
  BY <1>2

Total(f, S) == MapThenSumSet(LAMBDA x : f[x], S)

LEMMA TotalIsSummed ==
  ASSUME NEW S, IsFiniteSet(S), NEW f
  PROVE  \E g : Summed(g, f, S) /\ g[S] = Total(f, S)
<1>1. PICK h : Summed(h, f, S)
  BY SumExists
<1> DEFINE sums == CHOOSE g : Summed(g, f, S)
<1>2. Summed(sums, f, S)
  BY <1>1
<1>3. Total(f, S) = sums[S]
  BY DEF Summed, Total, MapThenSumSet, MapThenFoldSet, Chosen, Rest
<1>4. QED
  BY <1>2, <1>3

LEMMA TotalsAgree ==
  ASSUME NEW S, IsFiniteSet(S), NEW f, NEW e, \A x \in S : f[x] = e[x]
  PROVE  Total(f, S) = Total(e, S)
<1>1. PICK g : Summed(g, f, S) /\ g[S] = Total(f, S)
  BY TotalIsSummed
<1>2. PICK h : Summed(h, e, S) /\ h[S] = Total(e, S)
  BY TotalIsSummed
<1>3. S \in SUBSET S
  OBVIOUS
<1>4. QED
  BY <1>1, <1>2, <1>3, SumsAgree

LEMMA TotalProperties ==
  ASSUME NEW S, IsFiniteSet(S), NEW f, \A x \in S : f[x] \in Nat
  PROVE  /\ Total(f, S) \in Nat
         /\ S = {} => Total(f, S) = 0
         /\ \A x \in S : Total(f, S) = f[x] + Total(f, S \ {x})
<1>1. PICK g : Summed(g, f, S) /\ g[S] = Total(f, S)
  BY TotalIsSummed
<1>2. \A T \in SUBSET S : g[T] \in Nat /\ \A x \in T : g[T] = f[x] + g[T \ {x}]
  BY <1>1, SumOfParts
<1>3. S = {} => g[S] = 0
  BY <1>1 DEF Summed
<1>4. ASSUME NEW x \in S
      PROVE  Total(f, S \ {x}) = g[S \ {x}]
  <2>1. S \ {x} \in SUBSET S /\ IsFiniteSet(S \ {x})
    BY FS_Subset
  <2>2. PICK h : Summed(h, f, S \ {x}) /\ h[S \ {x}] = Total(f, S \ {x})
    BY <2>1, TotalIsSummed
  <2>3. QED
    BY <1>1, <2>1, <2>2, SumsAgree
<1>5. QED
  BY <1>1, <1>2, <1>3, <1>4

\* One term grows, and the total with it.
LEMMA OneGrows ==
  ASSUME NEW S, IsFiniteSet(S), NEW f, \A x \in S : f[x] \in Nat, NEW n \in Nat,
         NEW y \in S, NEW e, e[y] = f[y] + n, \A x \in S \ {y} : e[x] = f[x]
  PROVE  Total(e, S) = Total(f, S) + n
<1>1. \A x \in S : e[x] \in Nat
  <2>1. e[y] \in Nat
    OBVIOUS
  <2>2. QED
    BY <2>1
<1>2. IsFiniteSet(S \ {y})
  BY FS_Subset
<1>3. Total(e, S \ {y}) = Total(f, S \ {y})
  BY <1>2, TotalsAgree
<1>4. /\ Total(e, S) = e[y] + Total(e, S \ {y})
      /\ Total(f, S) = f[y] + Total(f, S \ {y})
  BY <1>1, TotalProperties
<1>5. Total(f, S \ {y}) \in Nat
  BY <1>2, TotalProperties
<1>6. QED
  BY <1>3, <1>4, <1>5

LEMMA TotalOfNothing ==
  ASSUME NEW S, IsFiniteSet(S), NEW f, \A x \in S : f[x] = 0
  PROVE  Total(f, S) = 0
<1>1. PICK g : Summed(g, f, S) /\ g[S] = Total(f, S)
  BY TotalIsSummed
<1> DEFINE F == {T \in SUBSET S : g[T] = 0}
<1>2. ASSUME NEW T \in SUBSET S, \A P \in SUBSET T : P # T => P \in F
      PROVE  T \in F
  <2>1. g[T] = IF T = {} THEN 0 ELSE f[Chosen(T)] + g[Rest(T)]
    BY <1>1 DEF Summed
  <2>2. CASE T # {}
    <3>1. IsFiniteSet(T)
      BY FS_Subset
    <3>2. Chosen(T) \in T /\ Rest(T) \in SUBSET T /\ Rest(T) # T
      BY <2>2, <3>1, RestIsLess
    <3>3. g[Rest(T)] = 0 /\ f[Chosen(T)] = 0
      BY <1>2, <3>2
    <3>4. QED
      BY <2>1, <2>2, <3>3
  <2>3. QED
    BY <2>1, <2>2
<1>3. \A T \in SUBSET S : T \in F
  <2> HIDE DEF F
  <2>1. QED
    BY <1>2, PartByPart
<1>4. QED
  BY <1>1, <1>3
=============================================================================
