------------------------- MODULE SessionStreamProofs -------------------------
(***************************************************************************)
(* What the run of SessionStream checks on three turns, for any script of  *)
(* the engine, a job's too, any number of messages, dropped connections    *)
(* and handles, in five parts: a handle's messages are handled in the      *)
(* order they were typed and once each (MessagesInOrder); a handle of an   *)
(* interactive session is given every event once and in order              *)
(* (ImplementsStream); what one more event makes of the items of a         *)
(* transcript; a page shows what the log tells, a job's page too           *)
(* (TranscriptTells); and a handle of any session is given the events in   *)
(* order, with no gap but a result (HandedInOrder).                        *)
(***************************************************************************)
EXTENDS SessionStream, CollectionLemmas, TLAPS

-----------------------------------------------------------------------------
(* Messages in the order they were typed.  What a handle sent waits in up  *)
(* to four places, in this order: handled, on a socket that was left, on   *)
(* the socket, in the outbox.                                              *)

Precedes(f, g) ==
    f.type = "user_message" /\ g.type = "user_message" /\ f.mount = g.mount => f.id < g.id
Before(s, t) == \A f \in ToSet(s), g \in ToSet(t) : Precedes(f, g)
Sorted(s) == \A i, j \in 1..Len(s) : i < j => Precedes(s[i], s[j])

LEMMA SortedJoined ==
  ASSUME NEW s, NEW t, IsSeq(s), IsSeq(t), Sorted(s), Sorted(t), Before(s, t)
  PROVE  Sorted(s \o t)
<1> DEFINE u == s \o t
<1>1. /\ Len(u) = Len(s) + Len(t) /\ Len(s) \in Nat /\ Len(t) \in Nat
      /\ \A i \in 1..Len(s) : u[i] = s[i]
      /\ \A i \in 1..Len(t) : u[Len(s) + i] = t[i]
      /\ \A i \in 1..Len(s) : s[i] \in ToSet(s)
      /\ \A i \in 1..Len(t) : t[i] \in ToSet(t)
  <2>1. /\ Len(s) \in Nat /\ ToSet(s) = {s[i] : i \in 1..Len(s)}
        /\ Len(t) \in Nat /\ ToSet(t) = {t[i] : i \in 1..Len(t)}
    BY Length
  <2>2. /\ Len(u) = Len(s) + Len(t)
        /\ \A i \in 1..Len(s) : u[i] = s[i]
        /\ \A i \in 1..Len(t) : u[Len(s) + i] = t[i]
    BY Joined
  <2>3. QED
    BY <2>1, <2>2
<1> SUFFICES Sorted(u)
  OBVIOUS
<1> HIDE DEF u
<1> SUFFICES ASSUME NEW i \in 1..Len(u), NEW j \in 1..Len(u), i < j
             PROVE  Precedes(u[i], u[j])
  BY DEF Sorted
<1>2. CASE j <= Len(s)
  <2>1. i \in 1..Len(s) /\ j \in 1..Len(s)
    BY <1>1, <1>2
  <2>2. QED
    BY <1>1, <2>1 DEF Sorted
<1>3. CASE i <= Len(s) /\ j > Len(s)
  <2>1. i \in 1..Len(s) /\ j - Len(s) \in 1..Len(t) /\ Len(s) + (j - Len(s)) = j
    BY <1>1, <1>3
  <2>2. u[i] = s[i] /\ u[j] = t[j - Len(s)]
    BY <1>1, <2>1
  <2>3. QED
    BY <1>1, <2>1, <2>2 DEF Before
<1>4. CASE i > Len(s)
  <2>1. /\ i - Len(s) \in 1..Len(t) /\ Len(s) + (i - Len(s)) = i
        /\ j - Len(s) \in 1..Len(t) /\ Len(s) + (j - Len(s)) = j
        /\ i - Len(s) < j - Len(s)
    BY <1>1, <1>4
  <2>2. u[i] = t[i - Len(s)] /\ u[j] = t[j - Len(s)]
    BY <1>1, <2>1
  <2>3. QED
    BY <2>1, <2>2 DEF Sorted
<1>5. QED
  BY <1>1, <1>2, <1>3, <1>4

LEMMA SortedPopped ==
  ASSUME NEW s, IsSeq(s), s # <<>>, Sorted(s)
  PROVE  /\ Sorted(Tail(s))
         /\ \A g \in ToSet(Tail(s)) : Precedes(Head(s), g)
<1> DEFINE t == Tail(s)
<1>1. /\ IsSeq(t) /\ Len(s) \in Nat /\ Len(s) >= 1 /\ Len(t) = Len(s) - 1
      /\ \A i \in 1..(Len(s) - 1) : t[i] = s[i + 1]
      /\ ToSet(t) = {t[i] : i \in 1..Len(t)} /\ Head(s) = s[1]
  BY Popped, Length
<1> HIDE DEF t
<1>2. ASSUME NEW i \in 1..Len(t), NEW j \in 1..Len(t), i < j
      PROVE  Precedes(t[i], t[j])
  <2>1. t[i] = s[i + 1] /\ t[j] = s[j + 1]
    BY <1>1
  <2>2. i + 1 \in 1..Len(s) /\ j + 1 \in 1..Len(s) /\ i + 1 < j + 1
    BY <1>1, <1>2
  <2>3. QED
    BY <2>1, <2>2 DEF Sorted
<1>3. ASSUME NEW g \in ToSet(t)
      PROVE  Precedes(Head(s), g)
  <2>1. PICK i \in 1..Len(t) : g = t[i]
    BY <1>1
  <2>2. t[i] = s[i + 1] /\ i + 1 \in 1..Len(s) /\ 1 \in 1..Len(s) /\ 1 < i + 1
    BY <1>1
  <2>3. QED
    BY <1>1, <2>1, <2>2 DEF Sorted
<1>4. QED
  BY <1>2, <1>3 DEF Sorted, t

LEMMA SortedShort ==
  Sorted(<<>>) /\ \A e : Sorted(<<e>>)
<1>1. Len(<<>>) = 0 /\ \A e : Len(<<e>>) = 1
  BY Empty, One
<1>2. QED
  BY <1>1 DEF Sorted

Frames == ToSet(oldUp) \cup ToSet(up) \cup ToSet(outbox)
Known(f) ==
    \/ f.type \in {"permission_decision", "close"}
    \/ /\ f.type = "user_message"
       /\ f.mount \in Nat /\ f.mount <= mounts /\ f.id \in Nat /\ f.id <= typed
OfMount(f, mount) == f.type = "user_message" => f.mount = mount

LineTypes ==
    /\ IsSeq(handled) /\ IsSeq(oldUp) /\ IsSeq(up) /\ IsSeq(outbox)
    /\ typed \in Nat /\ mounts \in Nat
    /\ \A f \in Frames : Known(f)
    /\ \A f \in ToSet(handled) : Known(f) /\ f.type = "user_message"
\* What a handle keeps is its own; what was left is of an earlier handle, as
\* long as the page has one.
Places ==
    /\ phase # "open" => up = <<>>
    /\ phase = "open" => outbox = <<>>
    /\ \A f \in ToSet(up) \cup ToSet(outbox) : OfMount(f, mounts)
    /\ phase # "detached" =>
         \A f \in ToSet(oldUp) : f.type = "user_message" => f.mount < mounts
InOrder ==
    /\ Sorted(handled) /\ Sorted(oldUp) /\ Sorted(up)
    /\ Before(handled, oldUp) /\ Before(handled, up)
    /\ phase # "detached" => Sorted(outbox) /\ Before(handled, outbox)
OrderInv == LineTypes /\ Places /\ InOrder

LEMMA OrderInit == Init => OrderInv
<1> SUFFICES ASSUME Init PROVE OrderInv
  OBVIOUS
<1>1. /\ handled = <<>> /\ oldUp = <<>> /\ up = <<>> /\ outbox = <<>>
      /\ typed = 0 /\ mounts = 1
  BY DEF Init
<1>2. IsSeq(<<>>) /\ ToSet(<<>>) = {} /\ Sorted(<<>>)
  BY Empty, SortedShort
<1>3. LineTypes
  BY <1>1, <1>2 DEF LineTypes, Frames
<1>4. Places
  BY <1>1, <1>2 DEF Places
<1>5. InOrder
  BY <1>1, <1>2 DEF InOrder, Before
<1>6. QED
  BY <1>3, <1>4, <1>5 DEF OrderInv

\* What moves no frame of the user.
LEMMA OrderUntouched ==
  ASSUME OrderInv, UNCHANGED <<handled, oldUp, up, outbox, typed, mounts>>,
         phase' = "open" <=> phase = "open", phase' = "detached" <=> phase = "detached"
  PROVE  OrderInv'
<1>1. LineTypes'
  BY DEF OrderInv, LineTypes, Frames, Known
<1>2. Places'
  BY DEF OrderInv, Places, OfMount
<1>3. InOrder'
  BY DEF OrderInv, InOrder, Before, Sorted, Precedes
<1>4. QED
  BY <1>1, <1>2, <1>3 DEF OrderInv

\* The server comes to handle a frame that no message of its handle is ahead of.
LEMMA Handles ==
  ASSUME NEW frame, Known(frame), Handle(frame)
  PROVE  \/ handled' = handled
         \/ handled' = Append(handled, frame) /\ frame.type = "user_message"
BY DEF Handle, Known

LEMMA HandledOneMore ==
  ASSUME OrderInv, NEW frame, Known(frame), frame.type = "user_message",
         \A f \in ToSet(handled) : Precedes(f, frame),
         handled' = Append(handled, frame)
  PROVE  /\ IsSeq(handled') /\ Sorted(handled')
         /\ ToSet(handled') = ToSet(handled) \cup {frame}
<1>1. IsSeq(handled) /\ Sorted(handled) /\ IsSeq(<<frame>>) /\ ToSet(<<frame>>) = {frame}
  BY One DEF OrderInv, LineTypes, InOrder
<1>2. handled' = handled \o <<frame>>
  BY <1>1, Pushed
<1>3. Sorted(<<frame>>) /\ Before(handled, <<frame>>)
  BY <1>1, SortedShort DEF Before
<1>4. IsSeq(handled \o <<frame>>) /\ ToSet(handled \o <<frame>>) = ToSet(handled) \cup {frame}
  BY <1>1, Joined
<1>5. Sorted(handled \o <<frame>>)
  BY <1>1, <1>3, SortedJoined
<1>6. QED
  BY <1>2, <1>4, <1>5

\* What is handled stays in order, whichever socket its frame came by.
LEMMA HandledInOrder ==
  ASSUME OrderInv, NEW frame, Known(frame), \A f \in ToSet(handled) : Precedes(f, frame),
         Handle(frame)
  PROVE  /\ IsSeq(handled') /\ Sorted(handled')
         /\ \A f \in ToSet(handled') :
              f \in ToSet(handled) \/ (f = frame /\ f.type = "user_message")
<1>1. CASE handled' = handled
  BY <1>1 DEF OrderInv, LineTypes, InOrder
<1>2. CASE handled' = Append(handled, frame) /\ frame.type = "user_message"
  <2>1. /\ IsSeq(handled') /\ Sorted(handled')
        /\ ToSet(handled') = ToSet(handled) \cup {frame}
    BY <1>2, HandledOneMore
  <2>2. QED
    BY <1>2, <2>1
<1>3. QED
  BY <1>1, <1>2, Handles

LEMMA OrderSocketFrame ==
  ASSUME OrderInv, up # <<>>, Handle(Head(up)),
         up' = Tail(up), UNCHANGED <<oldUp, phase, outbox, typed, mounts>>
  PROVE  OrderInv'
<1> DEFINE frame == Head(up)
<1>1. phase = "open" /\ phase # "detached" /\ outbox = <<>> /\ ToSet(outbox) = {}
  BY Empty DEF OrderInv, Places
<1>2. /\ IsSeq(up') /\ frame \in ToSet(up) /\ ToSet(up') \subseteq ToSet(up) /\ Sorted(up')
      /\ \A g \in ToSet(up') : Precedes(frame, g)
  BY Popped, SortedPopped DEF OrderInv, LineTypes, InOrder
<1>3. Known(frame) /\ \A f \in ToSet(handled) : Precedes(f, frame)
  BY <1>2 DEF OrderInv, LineTypes, Frames, InOrder, Before
<1>4. /\ IsSeq(handled') /\ Sorted(handled')
      /\ \A f \in ToSet(handled') :
           f \in ToSet(handled) \/ (f = frame /\ f.type = "user_message")
  BY <1>3, HandledInOrder
<1>5. OfMount(frame, mounts) /\ \A f \in ToSet(oldUp) : f.type = "user_message" => f.mount < mounts
  BY <1>1, <1>2 DEF OrderInv, Places
<1> HIDE DEF frame
<1>6. LineTypes'
  BY <1>2, <1>3, <1>4 DEF OrderInv, LineTypes, Frames, Known
<1>7. Places'
  BY <1>1, <1>2 DEF OrderInv, Places, OfMount
<1>8. mounts \in Nat /\ \A g \in ToSet(oldUp) : Known(g)
  BY DEF OrderInv, LineTypes, Frames
<1>9. \A g \in ToSet(oldUp) : Precedes(frame, g)
  BY <1>3, <1>5, <1>8 DEF Precedes, OfMount, Known
<1>10. InOrder'
  <2>1. Before(handled', oldUp) /\ Before(handled', up')
    BY <1>2, <1>4, <1>9 DEF OrderInv, InOrder, Before
  <2>2. Before(handled', outbox)
    BY <1>1 DEF Before
  <2>3. QED
    BY <1>1, <1>2, <1>4, <2>1, <2>2 DEF OrderInv, InOrder
<1>11. QED
  BY <1>6, <1>7, <1>10 DEF OrderInv

LEMMA OrderOldFrame ==
  ASSUME OrderInv, oldUp # <<>>, Handle(Head(oldUp)),
         oldUp' = Tail(oldUp), UNCHANGED <<up, phase, outbox, typed, mounts>>
  PROVE  OrderInv'
<1> DEFINE frame == Head(oldUp)
<1>1. /\ IsSeq(oldUp') /\ frame \in ToSet(oldUp) /\ ToSet(oldUp') \subseteq ToSet(oldUp)
      /\ Sorted(oldUp') /\ \A g \in ToSet(oldUp') : Precedes(frame, g)
  BY Popped, SortedPopped DEF OrderInv, LineTypes, InOrder
<1>2. Known(frame) /\ \A f \in ToSet(handled) : Precedes(f, frame)
  BY <1>1 DEF OrderInv, LineTypes, Frames, InOrder, Before
<1>3. /\ IsSeq(handled') /\ Sorted(handled')
      /\ \A f \in ToSet(handled') :
           f \in ToSet(handled) \/ (f = frame /\ f.type = "user_message")
  BY <1>2, HandledInOrder
<1>4. phase # "detached" =>
        /\ frame.type = "user_message" => frame.mount < mounts
        /\ \A g \in ToSet(up) \cup ToSet(outbox) : OfMount(g, mounts)
  BY <1>1 DEF OrderInv, Places
<1> HIDE DEF frame
<1>5. LineTypes'
  BY <1>1, <1>2, <1>3 DEF OrderInv, LineTypes, Frames, Known
<1>6. Places'
  BY <1>1 DEF OrderInv, Places, OfMount
<1>7. mounts \in Nat
  BY DEF OrderInv, LineTypes
<1>8. phase # "detached" => \A g \in ToSet(up) \cup ToSet(outbox) : Precedes(frame, g)
  BY <1>2, <1>4, <1>7 DEF Precedes, OfMount, Known
<1>9. phase = "detached" => ToSet(up) = {}
  BY Empty DEF OrderInv, Places
<1>10. InOrder'
  <2>1. Before(handled', oldUp')
    BY <1>1, <1>3 DEF OrderInv, InOrder, Before
  <2>2. Before(handled', up)
    BY <1>3, <1>8, <1>9 DEF OrderInv, InOrder, Before
  <2>3. phase # "detached" => Before(handled', outbox)
    BY <1>3, <1>8 DEF OrderInv, InOrder, Before
  <2>4. QED
    BY <1>1, <1>3, <2>1, <2>2, <2>3 DEF OrderInv, InOrder
<1>11. QED
  BY <1>5, <1>6, <1>10 DEF OrderInv

LEMMA OrderOpen ==
  ASSUME OrderInv, Open
  PROVE  OrderInv'
<1>1. /\ phase = "attached" /\ phase' = "open" /\ up = <<>>
      /\ up' = up \o outbox /\ outbox' = <<>>
      /\ UNCHANGED <<handled, oldUp, typed, mounts>>
  BY DEF OrderInv, Places, Open, server
<1>2. up' = outbox
  <2>1. PICK S : outbox \in Seq(S)
    BY DEF OrderInv, LineTypes, IsSeq
  <2>2. QED
    BY <1>1, <2>1, ConcatEmptySeq
<1>3. ToSet(outbox') = {} /\ IsSeq(outbox') /\ Sorted(outbox')
  BY <1>1, Empty, SortedShort
<1>4. LineTypes'
  BY <1>1, <1>2, <1>3 DEF OrderInv, LineTypes, Frames, Known
<1>5. Places'
  BY <1>1, <1>2, <1>3 DEF OrderInv, Places, OfMount
<1>6. InOrder'
  BY <1>1, <1>2, <1>3 DEF OrderInv, InOrder, Before, Sorted, Precedes
<1>7. QED
  BY <1>4, <1>5, <1>6 DEF OrderInv

LEMMA OrderDrop ==
  ASSUME OrderInv, Drop
  PROVE  OrderInv'
<1>1. /\ phase' = "timer" /\ phase # "detached" /\ up' = <<>>
      /\ UNCHANGED <<handled, oldUp, outbox, typed, mounts>>
  BY DEF Drop, server, client
<1>2. ToSet(up') = {} /\ IsSeq(up') /\ Sorted(up')
  BY <1>1, Empty, SortedShort
<1>3. LineTypes'
  BY <1>1, <1>2 DEF OrderInv, LineTypes, Frames, Known
<1>4. Places'
  BY <1>1, <1>2 DEF OrderInv, Places, OfMount
<1>5. InOrder'
  BY <1>1, <1>2 DEF OrderInv, InOrder, Before, Sorted, Precedes
<1>6. QED
  BY <1>3, <1>4, <1>5 DEF OrderInv

\* A frame goes to the end of the line: no message is ahead of it that it
\* should precede.
LEMMA OrderSend ==
  ASSUME OrderInv, NEW frame, Send(frame), phase # "detached",
         UNCHANGED <<handled, oldUp, phase, mounts>>,
         typed' \in Nat, typed <= typed', Known(frame)', OfMount(frame, mounts),
         \A f \in ToSet(handled) \cup Frames : Precedes(f, frame)
  PROVE  OrderInv'
<1>1. /\ IsSeq(up) /\ IsSeq(outbox) /\ Sorted(up) /\ Sorted(outbox)
      /\ IsSeq(<<frame>>) /\ Sorted(<<frame>>) /\ ToSet(<<frame>>) = {frame}
  BY One, SortedShort DEF OrderInv, LineTypes, InOrder
<1>2. Before(up, <<frame>>) /\ Before(outbox, <<frame>>)
  BY <1>1 DEF Before, Frames
<1>3. CASE phase = "open" /\ up' = up \o <<frame>> /\ outbox' = outbox
  <2>1. IsSeq(up') /\ Sorted(up') /\ ToSet(up') = ToSet(up) \cup {frame}
    BY <1>1, <1>2, <1>3, Joined, SortedJoined
  <2>2. LineTypes'
    BY <1>3, <2>1 DEF OrderInv, LineTypes, Frames, Known
  <2>3. Places'
    BY <1>3, <2>1 DEF OrderInv, Places, OfMount
  <2>4. InOrder'
    <3>1. Before(handled, up')
      BY <2>1 DEF OrderInv, InOrder, Before
    <3>2. QED
      BY <1>3, <2>1, <3>1 DEF OrderInv, InOrder, Before, Sorted, Precedes
  <2>5. QED
    BY <2>2, <2>3, <2>4 DEF OrderInv
<1>4. CASE phase # "open" /\ outbox' = outbox \o <<frame>> /\ up' = up
  <2>1. IsSeq(outbox') /\ Sorted(outbox') /\ ToSet(outbox') = ToSet(outbox) \cup {frame}
    BY <1>1, <1>2, <1>4, Joined, SortedJoined
  <2>2. LineTypes'
    BY <1>4, <2>1 DEF OrderInv, LineTypes, Frames, Known
  <2>3. Places'
    BY <1>4, <2>1 DEF OrderInv, Places, OfMount
  <2>4. InOrder'
    <3>1. Before(handled, outbox')
      BY <2>1 DEF OrderInv, InOrder, Before
    <3>2. QED
      BY <1>4, <2>1, <3>1 DEF OrderInv, InOrder, Before, Sorted, Precedes
  <2>5. QED
    BY <2>2, <2>3, <2>4 DEF OrderInv
<1>5. QED
  BY <1>1, <1>3, <1>4, Pushed DEF Send

LEMMA OrderType ==
  ASSUME OrderInv, Type
  PROVE  OrderInv'
<1> SUFFICES ASSUME NEW frame, frame = Message(typed + 1) PROVE OrderInv'
  OBVIOUS
<1>1. /\ phase # "detached" /\ Send(frame) /\ typed' = typed + 1
      /\ UNCHANGED <<handled, oldUp, phase, mounts>>
  BY DEF Type, server
<1>2. frame.type = "user_message" /\ frame.mount = mounts /\ frame.id = typed + 1
  BY DEF Message
<1>3. typed \in Nat /\ mounts \in Nat
  BY DEF OrderInv, LineTypes
<1>4. typed' \in Nat /\ typed <= typed' /\ Known(frame)' /\ OfMount(frame, mounts)
  BY <1>1, <1>2, <1>3 DEF Known, OfMount
<1>5. \A f \in ToSet(handled) \cup Frames : Precedes(f, frame)
  BY <1>2, <1>3 DEF OrderInv, LineTypes, Known, Precedes
<1>6. QED
  BY <1>1, <1>4, <1>5, OrderSend

LEMMA OrderDecide ==
  ASSUME OrderInv, NEW q, Decide(q)
  PROVE  OrderInv'
<1> DEFINE frame == Decision(q)
<1>1. /\ phase # "detached" /\ Send(frame)
      /\ UNCHANGED <<handled, oldUp, phase, mounts, typed>>
  BY DEF Decide, server
<1>2. frame.type = "permission_decision"
  BY DEF Decision
<1> HIDE DEF frame
<1>3. typed' \in Nat /\ typed <= typed' /\ Known(frame)' /\ OfMount(frame, mounts)
  BY <1>1, <1>2 DEF OrderInv, LineTypes, Known, OfMount
<1>4. \A f \in ToSet(handled) \cup Frames : Precedes(f, frame)
  BY <1>2 DEF Precedes
<1>5. QED
  BY <1>1, <1>3, <1>4, OrderSend

\* The page leaves its socket; what was sent on it is last of what was left.
LEMMA OrderLeaves ==
  ASSUME OrderInv, phase # "detached",
         NEW last, IsSeq(last), \A f \in ToSet(last) : f.type = "close", Leaves(last),
         UNCHANGED <<handled, typed, mounts>>,
         \/ outbox' = outbox
         \/ IsSeq(outbox') /\ \A f \in ToSet(outbox') : f \in ToSet(outbox) \/ f.type = "close"
  PROVE  OrderInv'
<1> DEFINE sent == IF Attached THEN up ELSE <<>>
<1>1. /\ oldUp' = (oldUp \o sent) \o last /\ up' = <<>> /\ phase' = "detached"
  BY DEF Leaves
<1>2. sent = up
  BY DEF OrderInv, Places, Attached
<1>3. /\ IsSeq(oldUp) /\ IsSeq(up) /\ Sorted(oldUp) /\ Sorted(up)
  BY DEF OrderInv, LineTypes, InOrder
<1>4. mounts \in Nat /\ \A f \in ToSet(oldUp) \cup ToSet(up) : Known(f)
  BY DEF OrderInv, LineTypes, Frames
<1>5. Before(oldUp, up)
  BY <1>4 DEF OrderInv, Places, Before, Precedes, OfMount, Known
<1> DEFINE left == oldUp \o up
<1>6. IsSeq(left) /\ Sorted(left) /\ ToSet(left) = ToSet(oldUp) \cup ToSet(up)
  BY <1>3, <1>5, Joined, SortedJoined
<1> HIDE DEF left
<1>7. Sorted(last) /\ Before(left, last)
  <2>1. \A i \in 1..Len(last) : last[i] \in ToSet(last)
    BY Length
  <2>2. QED
    BY <2>1 DEF Sorted, Before, Precedes
<1>8. IsSeq(oldUp') /\ Sorted(oldUp') /\ ToSet(oldUp') = ToSet(oldUp) \cup ToSet(up) \cup ToSet(last)
  <2>1. oldUp' = left \o last
    BY <1>1, <1>2 DEF left
  <2>2. QED
    BY <1>6, <1>7, <2>1, Joined, SortedJoined
<1>9. ToSet(up') = {} /\ IsSeq(up') /\ Sorted(up')
  BY <1>1, Empty, SortedShort
<1>10. IsSeq(outbox') /\ \A f \in ToSet(outbox') : f \in ToSet(outbox) \/ f.type = "close"
  BY DEF OrderInv, LineTypes
<1>11. LineTypes'
  BY <1>8, <1>9, <1>10 DEF OrderInv, LineTypes, Frames, Known
<1>12. Places'
  BY <1>1, <1>9, <1>10 DEF OrderInv, Places, OfMount
<1>13. InOrder'
  <2>1. Before(handled, oldUp')
    BY <1>8 DEF OrderInv, InOrder, Before, Precedes
  <2>2. Before(handled, up')
    BY <1>9 DEF Before
  <2>3. QED
    BY <1>1, <1>8, <1>9, <2>1, <2>2 DEF OrderInv, InOrder, Before, Sorted, Precedes
<1>14. QED
  BY <1>11, <1>12, <1>13 DEF OrderInv

LEMMA OrderRemount ==
  ASSUME OrderInv, Remount
  PROVE  OrderInv'
<1>1. /\ phase = "detached" /\ phase' = "timer" /\ mounts' = mounts + 1 /\ outbox' = <<>>
      /\ UNCHANGED <<handled, oldUp, up, typed>>
  BY DEF Remount, server
<1>2. up = <<>> /\ ToSet(up) = {} /\ mounts \in Nat
  BY <1>1, Empty DEF OrderInv, Places, LineTypes
<1>3. ToSet(outbox') = {} /\ IsSeq(outbox') /\ Sorted(outbox')
  BY <1>1, Empty, SortedShort
<1>4. \A f : Known(f) => Known(f)'
  BY <1>1, <1>2 DEF Known
<1>5. LineTypes'
  BY <1>1, <1>2, <1>3, <1>4 DEF OrderInv, LineTypes, Frames
<1>6. Places'
  <2>1. \A f \in ToSet(oldUp) : f.type = "user_message" => f.mount < mounts + 1
    BY <1>2 DEF OrderInv, LineTypes, Frames, Known
  <2>2. QED
    BY <1>1, <1>2, <1>3, <2>1 DEF Places, OfMount
<1>7. InOrder'
  BY <1>1, <1>2, <1>3 DEF OrderInv, InOrder, Before, Sorted, Precedes
<1>8. QED
  BY <1>5, <1>6, <1>7 DEF OrderInv

LEMMA OrderNext == OrderInv /\ [Next]_vars => OrderInv'
<1> SUFFICES ASSUME OrderInv, [Next]_vars PROVE OrderInv'
  OBVIOUS
<1> USE DEF server, client
<1>1. CASE EngineSays \/ Attach \/ Connect \/ Receive
  BY <1>1, OrderUntouched DEF EngineSays, Attach, Connect, Receive
<1>2. CASE FrameArrives
  BY <1>2, OrderSocketFrame, OrderOldFrame DEF FrameArrives
<1>3. CASE Detach
  <2>1. IsSeq(<<>>) /\ ToSet(<<>>) = {}
    BY Empty
  <2>2. /\ phase # "detached" /\ Leaves(<<>>) /\ outbox' = outbox
        /\ UNCHANGED <<handled, typed, mounts>>
    BY <1>3 DEF Detach
  <2>3. QED
    BY <2>1, <2>2, OrderLeaves
<1>4. CASE CloseSession
  <2> DEFINE last == IF phase = "open" THEN <<CloseFrame>> ELSE <<>>
  <2>1. IsSeq(last) /\ \A f \in ToSet(last) : f.type = "close"
    BY Empty, One DEF CloseFrame
  <2>2. /\ phase # "detached" /\ Leaves(last) /\ UNCHANGED <<handled, typed, mounts>>
        /\ outbox' = IF phase = "open" THEN outbox ELSE Append(outbox, CloseFrame)
    BY <1>4 DEF CloseSession
  <2>3. \/ outbox' = outbox
        \/ /\ IsSeq(outbox')
           /\ \A f \in ToSet(outbox') : f \in ToSet(outbox) \/ f.type = "close"
    <3>1. IsSeq(outbox) /\ IsSeq(<<CloseFrame>>) /\ ToSet(<<CloseFrame>>) = {CloseFrame}
      BY One DEF OrderInv, LineTypes
    <3>2. Append(outbox, CloseFrame) = outbox \o <<CloseFrame>>
      BY <3>1, Pushed
    <3>3. /\ IsSeq(outbox \o <<CloseFrame>>)
          /\ ToSet(outbox \o <<CloseFrame>>) = ToSet(outbox) \cup {CloseFrame}
      BY <3>1, Joined
    <3>4. CloseFrame.type = "close"
      BY DEF CloseFrame
    <3>5. QED
      BY <2>2, <3>2, <3>3, <3>4
  <2> HIDE DEF last
  <2>4. QED
    BY <2>1, <2>2, <2>3, OrderLeaves
<1>5. CASE UNCHANGED vars
  BY <1>5, OrderUntouched DEF vars
<1>6. QED
  BY <1>1, <1>2, <1>3, <1>4, <1>5, OrderOpen, OrderDrop, OrderType, OrderDecide,
     OrderRemount DEF Next

\* The server handles what one handle sends in the order it was typed, each at
\* most once, through reconnects, abandoned sockets and later handles
\* (#sendFrame, #connect and detach of the client).
THEOREM MessagesInOrderHolds == Spec => []MessagesInOrder
<1>1. OrderInv => MessagesInOrder
  <2> SUFFICES ASSUME OrderInv, NEW i \in DOMAIN handled, NEW j \in DOMAIN handled,
                      i < j, handled[i].mount = handled[j].mount
               PROVE  handled[i].id < handled[j].id
    BY DEF MessagesInOrder
  <2>1. DOMAIN handled = 1..Len(handled) /\ ToSet(handled) = {handled[k] : k \in 1..Len(handled)}
    BY Length DEF OrderInv, LineTypes
  <2>2. handled[i].type = "user_message" /\ handled[j].type = "user_message"
    BY <2>1 DEF OrderInv, LineTypes
  <2>3. Precedes(handled[i], handled[j])
    BY <2>1 DEF OrderInv, InOrder, Sorted
  <2>4. QED
    BY <2>2, <2>3 DEF Precedes
<1>2. QED
  BY <1>1, OrderInit, OrderNext, PTL DEF Spec

-----------------------------------------------------------------------------
(* The stream of a handle.  While a socket is attached, the events on it   *)
(* are the ones of the log the handle has not had, each once and in order. *)

\* The events on the wire, among other frames, are those after a up to b.
OnWire(d, a, b) ==
    /\ \A i \in 1..Len(d) : d[i].type = "event" => d[i].seq \in (a + 1)..b
    /\ \A i, j \in 1..Len(d) :
         d[i].type = "event" /\ d[j].type = "event" /\ i < j => d[i].seq < d[j].seq
    /\ \A n \in (a + 1)..b : \E i \in 1..Len(d) : d[i].type = "event" /\ d[i].seq = n

Run(from, n) == [i \in 1..n |-> EventFrame(from + i)]

LEMMA RunIsSeq ==
  ASSUME NEW from, NEW n \in Nat
  PROVE  /\ IsSeq(Run(from, n)) /\ Len(Run(from, n)) = n
         /\ \A i \in 1..n : /\ Run(from, n)[i].type = "event"
                            /\ Run(from, n)[i].seq = from + i
<1>1. Run(from, n) \in Seq({EventFrame(from + i) : i \in 1..n})
  BY DEF Run
<1>2. Len(Run(from, n)) = n
  BY DEF Run
<1>3. QED
  BY <1>1, <1>2 DEF IsSeq, Run, EventFrame

\* What is emitted follows what is on the wire.
LEMMA WireRun ==
  ASSUME NEW d, IsSeq(d), NEW a \in Nat, NEW b \in Nat, a <= b, OnWire(d, a, b), NEW n \in Nat
  PROVE  IsSeq(d \o Run(b, n)) /\ OnWire(d \o Run(b, n), a, b + n)
<1> DEFINE r == Run(b, n)
           u == d \o r
<1>1. /\ IsSeq(r) /\ Len(r) = n
      /\ \A i \in 1..n : r[i].type = "event" /\ r[i].seq = b + i
  BY RunIsSeq
<1> HIDE DEF r
<1>2. /\ IsSeq(u) /\ Len(u) = Len(d) + n /\ Len(d) \in Nat
      /\ \A i \in 1..Len(d) : u[i] = d[i]
      /\ \A i \in 1..n : u[Len(d) + i] = r[i]
  BY <1>1, Joined, Length
<1> HIDE DEF u
<1>3. \A i \in 1..Len(u) : \/ i \in 1..Len(d) /\ u[i] = d[i]
                           \/ /\ i > Len(d) /\ i - Len(d) \in 1..n
                              /\ u[i].type = "event" /\ u[i].seq = b + (i - Len(d))
  <2> SUFFICES ASSUME NEW i \in 1..Len(u)
               PROVE  \/ i \in 1..Len(d) /\ u[i] = d[i]
                      \/ /\ i > Len(d) /\ i - Len(d) \in 1..n
                         /\ u[i].type = "event" /\ u[i].seq = b + (i - Len(d))
    OBVIOUS
  <2>1. CASE i <= Len(d)
    BY <1>2, <2>1
  <2>2. CASE i > Len(d)
    <3>1. i - Len(d) \in 1..n /\ Len(d) + (i - Len(d)) = i
      BY <1>2, <2>2
    <3>2. u[i] = r[i - Len(d)]
      BY <1>2, <3>1
    <3>3. QED
      BY <1>1, <2>2, <3>1, <3>2
  <2>3. QED
    BY <1>2, <2>1, <2>2
<1>4. ASSUME NEW i \in 1..Len(u), u[i].type = "event"
      PROVE  u[i].seq \in (a + 1)..(b + n)
  <2>1. CASE i \in 1..Len(d) /\ u[i] = d[i]
    <3>1. d[i].seq \in (a + 1)..b
      BY <1>4, <2>1 DEF OnWire
    <3>2. QED
      BY <2>1, <3>1
  <2>2. CASE i - Len(d) \in 1..n /\ u[i].seq = b + (i - Len(d))
    BY <2>2
  <2>3. QED
    BY <1>3, <2>1, <2>2
<1>5. ASSUME NEW i \in 1..Len(u), NEW j \in 1..Len(u),
             u[i].type = "event", u[j].type = "event", i < j
      PROVE  u[i].seq < u[j].seq
  <2>1. CASE i \in 1..Len(d) /\ u[i] = d[i] /\ j \in 1..Len(d) /\ u[j] = d[j]
    BY <1>5, <2>1 DEF OnWire
  <2>2. CASE i \in 1..Len(d) /\ u[i] = d[i] /\ j - Len(d) \in 1..n /\ u[j].seq = b + (j - Len(d))
    <3>1. d[i].seq \in (a + 1)..b
      BY <1>5, <2>2 DEF OnWire
    <3>2. QED
      BY <2>2, <3>1
  <2>3. CASE /\ i > Len(d) /\ i - Len(d) \in 1..n /\ u[i].seq = b + (i - Len(d))
             /\ j > Len(d) /\ j - Len(d) \in 1..n /\ u[j].seq = b + (j - Len(d))
    BY <1>2, <1>5, <2>3
  <2>4. CASE i > Len(d) /\ j \in 1..Len(d)
    BY <1>2, <1>5, <2>4
  <2>5. QED
    BY <1>3, <2>1, <2>2, <2>3, <2>4
<1>6. ASSUME NEW m \in (a + 1)..(b + n)
      PROVE  \E i \in 1..Len(u) : u[i].type = "event" /\ u[i].seq = m
  <2>1. CASE m <= b
    <3>1. PICK i \in 1..Len(d) : d[i].type = "event" /\ d[i].seq = m
      <4>1. m \in (a + 1)..b
        BY <2>1
      <4>2. QED
        BY <4>1 DEF OnWire
    <3>2. i \in 1..Len(u) /\ u[i] = d[i]
      BY <1>2
    <3>3. QED
      BY <3>1, <3>2
  <2>2. CASE m > b
    <3>1. m - b \in 1..n /\ Len(d) + (m - b) \in 1..Len(u) /\ b + (m - b) = m
      BY <1>2, <2>2
    <3>2. u[Len(d) + (m - b)] = r[m - b]
      BY <1>2, <3>1
    <3>3. QED
      BY <1>1, <3>1, <3>2
  <2>3. QED
    BY <2>1, <2>2
<1>7. QED
  BY <1>2, <1>4, <1>5, <1>6 DEF OnWire, u, r

\* A frame that is no event.
LEMMA WireOther ==
  ASSUME NEW d, IsSeq(d), NEW a \in Nat, NEW b \in Nat, OnWire(d, a, b),
         NEW f, f.type # "event"
  PROVE  IsSeq(d \o <<f>>) /\ OnWire(d \o <<f>>, a, b)
<1> DEFINE u == d \o <<f>>
<1>1. IsSeq(<<f>>) /\ Len(<<f>>) = 1 /\ <<f>>[1] = f
  BY One
<1>2. /\ IsSeq(u) /\ Len(u) = Len(d) + 1 /\ Len(d) \in Nat
      /\ \A i \in 1..Len(d) : u[i] = d[i]
      /\ u[Len(d) + 1] = f
  <2>1. /\ IsSeq(u) /\ Len(u) = Len(d) + Len(<<f>>) /\ Len(d) \in Nat
        /\ \A i \in 1..Len(d) : u[i] = d[i]
        /\ \A i \in 1..Len(<<f>>) : u[Len(d) + i] = <<f>>[i]
    BY <1>1, Joined, Length
  <2>2. 1 \in 1..Len(<<f>>)
    BY <1>1
  <2>3. QED
    BY <1>1, <2>1, <2>2
<1> HIDE DEF u
<1>3. \A i \in 1..Len(u) : u[i].type = "event" => i \in 1..Len(d) /\ u[i] = d[i]
  <2> SUFFICES ASSUME NEW i \in 1..Len(u), u[i].type = "event"
               PROVE  i \in 1..Len(d) /\ u[i] = d[i]
    OBVIOUS
  <2>1. i # Len(d) + 1
    BY <1>2
  <2>2. i \in 1..Len(d)
    BY <1>2, <2>1
  <2>3. QED
    BY <1>2, <2>2
<1>4. \A i \in 1..Len(d) : i \in 1..Len(u)
  BY <1>2
<1>5. QED
  BY <1>2, <1>3, <1>4 DEF OnWire, u

\* The first frame on the wire: if it is an event, the next one of the log.
LEMMA WireHead ==
  ASSUME NEW d, IsSeq(d), d # <<>>, NEW a \in Nat, NEW b \in Nat, OnWire(d, a, b)
  PROVE  /\ Head(d).type = "event" => Head(d).seq = a + 1 /\ a + 1 <= b /\ OnWire(Tail(d), a + 1, b)
         /\ Head(d).type # "event" => OnWire(Tail(d), a, b)
<1> DEFINE t == Tail(d)
           h == Head(d)
<1>1. /\ IsSeq(t) /\ Len(d) \in Nat /\ Len(d) >= 1 /\ Len(t) = Len(d) - 1
      /\ \A i \in 1..(Len(d) - 1) : t[i] = d[i + 1]
      /\ h = d[1]
  BY Popped, Length
<1> HIDE DEF t, h
<1>2. 1 \in 1..Len(d) /\ \A i \in 1..Len(t) : i + 1 \in 1..Len(d) /\ t[i] = d[i + 1]
  BY <1>1
<1>3. \A i, j \in 1..Len(t) :
        t[i].type = "event" /\ t[j].type = "event" /\ i < j => t[i].seq < t[j].seq
  <2> SUFFICES ASSUME NEW i \in 1..Len(t), NEW j \in 1..Len(t),
                      t[i].type = "event", t[j].type = "event", i < j
               PROVE  t[i].seq < t[j].seq
    OBVIOUS
  <2>1. i + 1 < j + 1
    BY <1>1
  <2>2. /\ i + 1 \in 1..Len(d) /\ t[i] = d[i + 1]
        /\ j + 1 \in 1..Len(d) /\ t[j] = d[j + 1]
    BY <1>2
  <2>3. d[i + 1].type = "event" /\ d[j + 1].type = "event"
    BY <2>2
  <2>4. d[i + 1].seq < d[j + 1].seq
    BY <2>1, <2>2, <2>3 DEF OnWire
  <2>5. QED
    BY <2>2, <2>4
<1>4. \A i \in 1..Len(d) : i = 1 \/ (i - 1 \in 1..Len(t) /\ t[i - 1] = d[i])
  <2> SUFFICES ASSUME NEW i \in 1..Len(d), i # 1
               PROVE  i - 1 \in 1..Len(t) /\ t[i - 1] = d[i]
    OBVIOUS
  <2>1. i - 1 \in 1..(Len(d) - 1) /\ (i - 1) + 1 = i
    BY <1>1
  <2>2. QED
    BY <1>1, <2>1
<1>5. CASE h.type = "event"
  <2>1. h.seq \in (a + 1)..b
    BY <1>1, <1>2, <1>5 DEF OnWire
  <2>2. \A i \in 1..Len(t) : t[i].type = "event" => t[i].seq \in (a + 1)..b /\ h.seq < t[i].seq
    <3> SUFFICES ASSUME NEW i \in 1..Len(t), t[i].type = "event"
                 PROVE  t[i].seq \in (a + 1)..b /\ h.seq < t[i].seq
      OBVIOUS
    <3>1. 1 < i + 1
      BY <1>1
    <3>2. QED
      BY <1>1, <1>2, <1>5, <3>1 DEF OnWire
  <2>3. h.seq = a + 1
    <3>1. a + 1 \in (a + 1)..b
      BY <2>1
    <3>2. PICK i \in 1..Len(d) : d[i].type = "event" /\ d[i].seq = a + 1
      BY <3>1 DEF OnWire
    <3>3. CASE i = 1
      BY <1>1, <3>2, <3>3
    <3>4. CASE i - 1 \in 1..Len(t) /\ t[i - 1] = d[i]
      <4>1. h.seq < a + 1
        BY <2>2, <3>2, <3>4
      <4>2. QED
        BY <2>1, <4>1
    <3>5. QED
      BY <1>4, <3>3, <3>4
  <2>4. ASSUME NEW i \in 1..Len(t), t[i].type = "event"
        PROVE  t[i].seq \in ((a + 1) + 1)..b
    <3>1. t[i].seq \in (a + 1)..b /\ a + 1 < t[i].seq
      BY <2>2, <2>3, <2>4
    <3>2. QED
      BY <3>1
  <2>5. ASSUME NEW n \in ((a + 1) + 1)..b
        PROVE  \E i \in 1..Len(t) : t[i].type = "event" /\ t[i].seq = n
    <3>1. n \in (a + 1)..b /\ n # a + 1
      OBVIOUS
    <3>2. PICK i \in 1..Len(d) : d[i].type = "event" /\ d[i].seq = n
      BY <3>1 DEF OnWire
    <3>3. i # 1
      BY <1>1, <2>3, <3>1, <3>2
    <3>4. QED
      BY <1>4, <3>2, <3>3
  <2>6. OnWire(t, a + 1, b)
    BY <1>3, <2>4, <2>5 DEF OnWire
  <2>7. a + 1 <= b
    BY <2>1, <2>3
  <2>8. QED
    BY <1>5, <2>3, <2>6, <2>7 DEF t, h
<1>6. CASE h.type # "event"
  <2>1. \A i \in 1..Len(t) : t[i].type = "event" => t[i].seq \in (a + 1)..b
    BY <1>2 DEF OnWire
  <2>2. ASSUME NEW n \in (a + 1)..b
        PROVE  \E i \in 1..Len(t) : t[i].type = "event" /\ t[i].seq = n
    <3>1. PICK i \in 1..Len(d) : d[i].type = "event" /\ d[i].seq = n
      BY DEF OnWire
    <3>2. i # 1
      BY <1>1, <1>6, <3>1
    <3>3. QED
      BY <1>4, <3>1, <3>2
  <2>3. OnWire(t, a, b)
    BY <1>3, <2>1, <2>2 DEF OnWire
  <2>4. QED
    BY <1>6, <2>3 DEF t, h
<1>7. QED
  BY <1>5, <1>6

StreamInv ==
    /\ IsSeq(log) /\ IsSeq(seen) /\ lastSeq = Len(seen) /\ lastSeq <= Len(log)
    /\ ~Attached => down = <<>>
    /\ Attached => IsSeq(down) /\ OnWire(down, lastSeq, Len(log))

LEMMA StreamInit == Init => StreamInv
BY Empty DEF Init, StreamInv, Attached

\* An emission appends to the log, and what it appends is on its way.
LEMMA Emitting ==
  ASSUME StreamInv, NEW events, NEW order, IsSeq(events), Len(events) > 0,
         DOMAIN order = 1..Len(events), \A i \in 1..Len(events) : order[i] = i,
         Emit(events, order), UNCHANGED <<seen, lastSeq, phase>>
  PROVE  StreamInv' /\ Stream!Grow
<1>1. /\ IsSeq(log) /\ Len(log) \in Nat /\ Len(events) \in Nat
      /\ lastSeq \in Nat /\ lastSeq <= Len(log)
  BY Length DEF StreamInv
<1>2. /\ log' = log \o events /\ IsSeq(log') /\ Len(log') = Len(log) + Len(events)
      /\ \A i \in 1..Len(log) : log'[i] = log[i]
  BY <1>1, Joined DEF Emit
<1>3. SubSeq(log', 1, Len(log)) = log
  <2> DEFINE w == SubSeq(log', 1, Len(log))
  <2>1. Len(log) <= Len(log')
    BY <1>1, <1>2
  <2>2. IsSeq(w) /\ Len(w) = Len(log) /\ \A i \in 1..Len(log) : w[i] = log'[i]
    BY <1>1, <1>2, <2>1, Prefix
  <2> HIDE DEF w
  <2>3. \A i \in 1..Len(log) : w[i] = log[i]
    BY <1>2, <2>2
  <2>4. w = log
    BY <1>1, <2>2, <2>3, SameSeq
  <2>5. QED
    BY <2>4 DEF w
<1>4. Stream!Grow
  BY <1>1, <1>2, <1>3 DEF Stream!Grow
<1>5. StreamInv'
  <2>1. CASE Attached
    <3>1. IsSeq(down) /\ OnWire(down, lastSeq, Len(log))
      BY <2>1 DEF StreamInv
    <3>2. down' = down \o Run(Len(log), Len(events))
      <4>1. [i \in DOMAIN order |-> EventFrame(Len(log) + order[i])] = Run(Len(log), Len(events))
        BY DEF Run
      <4>2. QED
        BY <2>1, <4>1 DEF Emit
    <3>3. IsSeq(down') /\ OnWire(down', lastSeq, Len(log) + Len(events))
      BY <1>1, <3>1, <3>2, WireRun
    <3>4. QED
      BY <1>1, <1>2, <2>1, <3>3 DEF StreamInv, Attached
  <2>2. CASE ~Attached
    <3>1. down' = <<>>
      BY <2>2 DEF Emit, StreamInv
    <3>2. QED
      BY <1>1, <1>2, <2>2, <3>1 DEF StreamInv, Attached
  <2>3. QED
    BY <2>1, <2>2
<1>6. QED
  BY <1>4, <1>5

LEMMA EmittingOne ==
  ASSUME StreamInv, NEW e, Emit(<<e>>, << 1 >>), UNCHANGED <<seen, lastSeq, phase>>
  PROVE  StreamInv' /\ Stream!Grow
<1> SUFFICES ASSUME NEW events, NEW order, events = <<e>>, order = << 1 >>
             PROVE  StreamInv' /\ Stream!Grow
  OBVIOUS
<1>1. IsSeq(events) /\ Len(events) = 1 /\ Emit(events, order)
  BY One
<1>2. DOMAIN order = 1..Len(events) /\ \A i \in 1..Len(events) : order[i] = i
  BY <1>1
<1>3. QED
  BY <1>1, <1>2, Emitting

LEMMA EmittingEnd ==
  ASSUME StreamInv, Emit(EndEvents, <<1, 2>>), UNCHANGED <<seen, lastSeq, phase>>
  PROVE  StreamInv' /\ Stream!Grow
<1> SUFFICES ASSUME NEW order, order = <<1, 2>> PROVE StreamInv' /\ Stream!Grow
  OBVIOUS
<1>1. IsSeq(EndEvents) /\ Len(EndEvents) = 2 /\ Emit(EndEvents, order)
  <2> DEFINE e1 == [type |-> "session_closed"]
             e2 == StatusChanged("closed")
  <2>1. EndEvents = <<e1, e2>>
    BY DEF EndEvents
  <2> HIDE DEF e1, e2
  <2>2. <<e1, e2>> \in Seq({e1, e2}) /\ Len(<<e1, e2>>) = 2
    OBVIOUS
  <2>3. QED
    BY <2>1, <2>2 DEF IsSeq
<1>2. DOMAIN order = 1..Len(EndEvents) /\ \A i \in 1..Len(EndEvents) : order[i] = i
  BY <1>1
<1>3. QED
  BY <1>1, <1>2, Emitting

\* A frame of the user: the log grows, or stays and only an error is sent.
LEMMA StreamHandles ==
  ASSUME StreamInv, NEW frame, Known(frame), Handle(frame), UNCHANGED <<seen, lastSeq, phase>>
  PROVE  StreamInv' /\ (Stream!Grow \/ UNCHANGED <<log, seen>>)
<1>1. CASE UNCHANGED <<log, down>>
  BY <1>1 DEF StreamInv, Attached
<1>2. CASE UNCHANGED log /\ down' = IF Attached THEN Append(down, ProtocolError) ELSE down
  <2>1. CASE ~Attached
    BY <1>2, <2>1 DEF StreamInv, Attached
  <2>2. CASE Attached
    <3>1. IsSeq(down) /\ OnWire(down, lastSeq, Len(log)) /\ lastSeq \in Nat /\ Len(log) \in Nat
      BY <2>2, Length DEF StreamInv
    <3>2. ProtocolError.type # "event"
      BY DEF ProtocolError
    <3>3. down' = down \o <<ProtocolError>>
      BY <1>2, <2>2, <3>1, Pushed
    <3>4. IsSeq(down') /\ OnWire(down', lastSeq, Len(log))
      BY <3>1, <3>2, <3>3, WireOther
    <3>5. QED
      BY <1>2, <2>2, <3>4 DEF StreamInv, Attached
  <2>3. QED
    BY <1>2, <2>1, <2>2
<1>3. ASSUME NEW e, Emit(<<e>>, << 1 >>) PROVE StreamInv' /\ Stream!Grow
  BY <1>3, EmittingOne
<1>4. CASE Emit(EndEvents, <<1, 2>>)
  BY <1>4, EmittingEnd
<1>5. \/ UNCHANGED <<log, down>>
      \/ UNCHANGED log /\ down' = IF Attached THEN Append(down, ProtocolError) ELSE down
      \/ Emit(<<[type |-> "user_message", uuid |-> frame.id]>>, << 1 >>)
      \/ Emit(<<[type |-> "permission_resolved", id |-> frame.id]>>, << 1 >>)
      \/ Emit(EndEvents, <<1, 2>>)
  BY DEF Handle, Known
<1>6. QED
  BY <1>1, <1>2, <1>3, <1>4, <1>5

\* The server attaches a handle: what it has not had, and nothing else.
LEMMA StreamAttach ==
  ASSUME StreamInv, Attach
  PROVE  StreamInv' /\ UNCHANGED <<log, seen>>
<1>1. /\ phase' = "attached" /\ UNCHANGED <<log, seen, lastSeq>>
      /\ down' = <<AttachedFrame>> \o Run(lastSeq, Len(log) - lastSeq)
  BY DEF Attach, server, client, Run
<1>2. /\ lastSeq \in Nat /\ Len(log) \in Nat /\ Len(log) - lastSeq \in Nat
      /\ lastSeq + (Len(log) - lastSeq) = Len(log)
  BY Length DEF StreamInv
<1>3. IsSeq(<<AttachedFrame>>) /\ OnWire(<<AttachedFrame>>, lastSeq, lastSeq)
  <2>1. OnWire(<<>>, lastSeq, lastSeq)
    BY <1>2, Empty DEF OnWire
  <2>2. AttachedFrame.type # "event"
    BY DEF AttachedFrame
  <2>3. <<AttachedFrame>> = <<>> \o <<AttachedFrame>>
    <3>1. <<AttachedFrame>> \in Seq({AttachedFrame})
      OBVIOUS
    <3>2. QED
      BY <3>1, ConcatEmptySeq
  <2>4. QED
    BY <1>2, <2>1, <2>2, <2>3, Empty, WireOther
<1>4. IsSeq(down') /\ OnWire(down', lastSeq, Len(log))
  <2> SUFFICES ASSUME NEW first, first = <<AttachedFrame>>,
                      NEW n \in Nat, n = Len(log) - lastSeq
               PROVE  IsSeq(down') /\ OnWire(down', lastSeq, Len(log))
    BY <1>2
  <2>1. IsSeq(first) /\ OnWire(first, lastSeq, lastSeq) /\ lastSeq <= lastSeq
    BY <1>2, <1>3
  <2>2. IsSeq(first \o Run(lastSeq, n)) /\ OnWire(first \o Run(lastSeq, n), lastSeq, lastSeq + n)
    BY <1>2, <2>1, WireRun
  <2>3. QED
    BY <1>1, <1>2, <2>2
<1>5. QED
  BY <1>1, <1>4 DEF StreamInv, Attached

\* The handle takes a frame: of the events, the next one.
LEMMA StreamReceive ==
  ASSUME StreamInv, Receive
  PROVE  StreamInv' /\ (Stream!Hand \/ UNCHANGED <<log, seen>>)
<1> DEFINE frame == Head(down)
<1>1. /\ phase = "open" /\ phase' = phase /\ down # <<>> /\ down' = Tail(down) /\ log' = log
      /\ Attached /\ Attached'
  BY DEF Receive, server, Attached
<1>2. /\ IsSeq(down) /\ OnWire(down, lastSeq, Len(log)) /\ IsSeq(log) /\ IsSeq(seen)
      /\ lastSeq \in Nat /\ Len(log) \in Nat /\ lastSeq = Len(seen)
  BY <1>1, Length DEF StreamInv
<1>3. /\ IsSeq(Tail(down))
      /\ frame.type = "event" =>
           frame.seq = lastSeq + 1 /\ lastSeq + 1 <= Len(log) /\ OnWire(Tail(down), lastSeq + 1, Len(log))
      /\ frame.type # "event" => OnWire(Tail(down), lastSeq, Len(log))
  BY <1>1, <1>2, Popped, WireHead
<1>4. CASE frame.type = "event"
  <2>1. frame.seq = lastSeq + 1 /\ lastSeq + 1 <= Len(log) /\ OnWire(Tail(down), lastSeq + 1, Len(log))
    BY <1>3, <1>4
  <2>2. lastSeq' = lastSeq + 1 /\ seen' = Append(seen, lastSeq + 1)
    <3>1. IF frame.seq <= lastSeq
          THEN UNCHANGED <<lastSeq, seen, view>>
          ELSE lastSeq' = frame.seq /\ seen' = Append(seen, frame.seq)
      BY <1>4 DEF Receive
    <3>2. QED
      BY <1>2, <2>1, <3>1
  <2>3. IsSeq(seen') /\ Len(seen') = Len(seen) + 1
    <3> SUFFICES ASSUME NEW one, one = <<lastSeq + 1>>
                 PROVE  IsSeq(seen') /\ Len(seen') = Len(seen) + 1
      OBVIOUS
    <3>1. IsSeq(one) /\ Len(one) = 1
      BY One
    <3>2. seen' = seen \o one
      BY <1>2, <2>2, Pushed
    <3>3. IsSeq(seen \o one) /\ Len(seen \o one) = Len(seen) + Len(one)
      BY ONLY <1>2, <3>1, Joined
    <3>4. QED
      BY <3>1, <3>2, <3>3
  <2>4. StreamInv'
    <3>1. IsSeq(log') /\ IsSeq(seen') /\ lastSeq' = Len(seen') /\ lastSeq' <= Len(log')
      BY <1>1, <1>2, <2>1, <2>2, <2>3
    <3>2. IsSeq(down') /\ OnWire(down', lastSeq', Len(log'))
      BY <1>1, <1>3, <2>1, <2>2
    <3>3. QED
      BY <1>1, <3>1, <3>2 DEF StreamInv
  <2>5. Stream!Hand
    BY <1>1, <1>2, <2>1, <2>2 DEF Stream!Hand
  <2>6. QED
    BY <2>4, <2>5
<1>5. CASE frame.type # "event"
  <2>1. UNCHANGED <<lastSeq, seen>>
    BY <1>5 DEF Receive
  <2>2. QED
    BY <1>1, <1>2, <1>3, <1>5, <2>1 DEF StreamInv
<1>6. QED
  BY <1>4, <1>5

\* What neither emits nor receives.
LEMMA StreamElsewhere ==
  ASSUME StreamInv, UNCHANGED <<log, seen, lastSeq>>,
         \/ down' = <<>> /\ ~Attached'
         \/ down' = down /\ Attached' = Attached
  PROVE  StreamInv'
<1>1. CASE down' = <<>> /\ ~Attached'
  BY <1>1 DEF StreamInv
<1>2. CASE down' = down /\ Attached' = Attached
  BY <1>2 DEF StreamInv
<1>3. QED
  BY <1>1, <1>2

LEMMA StreamNext ==
  ASSUME ~JobSession, OrderInv, StreamInv, [Next]_vars
  PROVE  /\ StreamInv'
         /\ Stream!Grow \/ Stream!Hand \/ Stream!Reattach \/ UNCHANGED <<log, seen>>
<1> USE DEF server, client
<1>1. CASE EngineSays
  <2>1. Emit(<<Head(script)>>, << 1 >>) /\ UNCHANGED <<seen, lastSeq, phase>>
    BY <1>1 DEF EngineSays
  <2>2. QED
    BY <2>1, EmittingOne
<1>2. CASE FrameArrives
  <2>1. UNCHANGED <<seen, lastSeq, phase>>
    BY <1>2 DEF FrameArrives
  <2>2. CASE up # <<>> /\ Handle(Head(up))
    <3>1. Known(Head(up))
      BY <2>2, Popped DEF OrderInv, LineTypes, Frames
    <3>2. QED
      BY <2>1, <2>2, <3>1, StreamHandles
  <2>3. CASE oldUp # <<>> /\ Handle(Head(oldUp))
    <3>1. Known(Head(oldUp))
      BY <2>3, Popped DEF OrderInv, LineTypes, Frames
    <3>2. QED
      BY <2>1, <2>3, <3>1, StreamHandles
  <2>4. QED
    BY <1>2, <2>2, <2>3 DEF FrameArrives
<1>3. CASE Attach
  BY <1>3, StreamAttach
<1>4. CASE Receive
  BY <1>4, StreamReceive
<1>5. CASE Connect
  BY <1>5, StreamElsewhere DEF Connect, Attached
<1>6. CASE Open
  BY <1>6, StreamElsewhere DEF Open, Attached
<1>7. CASE Drop
  BY <1>7, StreamElsewhere DEF Drop, Attached
<1>8. CASE Type
  BY <1>8, StreamElsewhere DEF Type, Attached
<1>9. ASSUME NEW q, Decide(q)
      PROVE  StreamInv' /\ UNCHANGED <<log, seen>>
  BY <1>9, StreamElsewhere DEF Decide, Attached
<1>10. CASE Detach
  BY <1>10, StreamElsewhere DEF Detach, Leaves, Attached
<1>11. CASE CloseSession
  BY <1>11, StreamElsewhere DEF CloseSession, Leaves, Attached
<1>12. CASE Remount
  <2>1. /\ lastSeq' = 0 /\ seen' = <<>> /\ UNCHANGED <<log, down>> /\ ~Attached /\ ~Attached'
    BY <1>12 DEF Remount, Attached
  <2>2. IsSeq(<<>>) /\ Len(<<>>) = 0 /\ Len(log) \in Nat
    BY Empty, Length DEF StreamInv
  <2>3. StreamInv'
    BY <2>1, <2>2 DEF StreamInv
  <2>4. QED
    BY <2>1, <2>3 DEF Stream!Reattach
<1>13. CASE UNCHANGED vars
  BY <1>13, StreamElsewhere DEF vars, Attached
<1>14. QED
  BY <1>1, <1>2, <1>3, <1>4, <1>5, <1>6, <1>7, <1>8, <1>9, <1>10, <1>11, <1>12, <1>13 DEF Next

\* A handle of an interactive session is given every event of the log, replayed
\* or live, once and in order, through drops and reconnects (attachClient in
\* server.ts, #connect and onmessage of the client).
THEOREM StreamImplemented == ~JobSession => (Spec => ImplementsStream)
<1> SUFFICES ASSUME ~JobSession PROVE Spec => ImplementsStream
  OBVIOUS
<1>1. Init => OrderInv /\ StreamInv /\ Stream!Init
  BY OrderInit, StreamInit DEF Init, Stream!Init
<1>2. OrderInv /\ StreamInv /\ [Next]_vars =>
        /\ OrderInv' /\ StreamInv'
        /\ [Stream!Grow \/ Stream!Hand \/ Stream!Reattach]_<<log, seen>>
  BY OrderNext, StreamNext
<1>3. QED
  BY <1>1, <1>2, PTL DEF Spec, ImplementsStream, Stream!Spec

-----------------------------------------------------------------------------
(* The items of a transcript.  Of calls, messages and thoughts there is    *)
(* one item under each id, so that what the transcript shows is the set of *)
(* its items, and upsert replaces one of them.                             *)

Keyed == {"tool_call", "user", "assistant_text", "thinking"}

OneEach(items) ==
  \A i, j \in 1..Len(items) :
    /\ items[i].kind \in Keyed
    /\ items[i].kind = items[j].kind /\ items[i].id = items[j].id
    => i = j

IsItem(x) == x = Item(x.kind, x.id, x.state, x.text)

Table(items) == IsSeq(items) /\ OneEach(items) /\ \A x \in ToSet(items) : IsItem(x)

Under(kind, id, x) == x.kind = kind /\ x.id = id

LEMMA ItemFields ==
  ASSUME NEW kind, NEW id, NEW state, NEW text
  PROVE  /\ Item(kind, id, state, text).kind = kind
         /\ Item(kind, id, state, text).id = id
         /\ Item(kind, id, state, text).state = state
         /\ Item(kind, id, state, text).text = text
         /\ IsItem(Item(kind, id, state, text))
BY DEF Item, IsItem

LEMMA AtOne ==
  ASSUME NEW items, Table(items), NEW kind \in Keyed, NEW id,
         NEW i \in 1..Len(items), Under(kind, id, items[i])
  PROVE  At(items, kind, id) = {i} /\ Min(At(items, kind, id)) = i
<1>1. DOMAIN items = 1..Len(items) /\ Len(items) \in Nat
  BY Length DEF Table
<1>2. At(items, kind, id) = {i}
  BY <1>1 DEF At, Table, OneEach, Under
<1>3. {i} \in SUBSET Nat /\ {i} # {}
  BY <1>1
<1>4. Min({i}) \in {i}
  BY <1>3, LeastIsMin
<1>5. QED
  BY <1>2, <1>4

LEMMA AtNone ==
  ASSUME NEW items, Table(items), NEW kind, NEW id,
         \A x \in ToSet(items) : ~Under(kind, id, x)
  PROVE  At(items, kind, id) = {}
<1>1. ToSet(items) = {items[i] : i \in 1..Len(items)} /\ DOMAIN items = 1..Len(items)
  BY Length DEF Table
<1>2. QED
  BY <1>1 DEF At, Under

LEMMA Counted ==
  ASSUME NEW items, Table(items), NEW x \in ToSet(items), x.kind \in Keyed
  PROVE  /\ Cardinality(At(items, x.kind, x.id)) = 1
         /\ \A n \in At(items, x.kind, x.id) : items[n] = x
<1>1. PICK i \in 1..Len(items) : items[i] = x
  BY Length DEF Table
<1>2. At(items, x.kind, x.id) = {i}
  BY <1>1, AtOne DEF Under
<1>3. Cardinality({i}) = 1
  BY FS_Singleton
<1>4. QED
  BY <1>1, <1>2, <1>3

LEMMA TextRead ==
  ASSUME NEW items, Table(items), NEW kind \in Keyed, NEW id
  PROVE  /\ \A x \in ToSet(items) : Under(kind, id, x) => TextOf(items, kind, id) = x.text
         /\ (\A x \in ToSet(items) : ~Under(kind, id, x)) => TextOf(items, kind, id) = 0
<1>1. ASSUME NEW x \in ToSet(items), Under(kind, id, x)
      PROVE  TextOf(items, kind, id) = x.text
  <2>1. PICK i \in 1..Len(items) : items[i] = x
    BY Length DEF Table
  <2>2. At(items, kind, id) = {i} /\ Min(At(items, kind, id)) = i
    BY <1>1, <2>1, AtOne
  <2>3. QED
    BY <2>1, <2>2 DEF TextOf
<1>2. QED
  BY <1>1, AtNone DEF TextOf

LEMMA AppendedItem ==
  ASSUME NEW items, Table(items), NEW item, IsItem(item),
         item.kind \in Keyed => \A x \in ToSet(items) : ~Under(item.kind, item.id, x)
  PROVE  Table(Append(items, item)) /\ ToSet(Append(items, item)) = ToSet(items) \cup {item}
<1> DEFINE more == Append(items, item)
           n == Len(items)
<1>1. /\ IsSeq(items) /\ n \in Nat
      /\ \A i \in 1..n : items[i] \in ToSet(items)
  BY Length DEF Table
<1>2. /\ IsSeq(more) /\ Len(more) = n + 1
      /\ \A i \in 1..n : more[i] = items[i]
      /\ more[n + 1] = item
      /\ ToSet(more) = ToSet(items) \cup {item}
  BY <1>1, Appended
<1> HIDE DEF more
<1>3. OneEach(more)
  <2> SUFFICES ASSUME NEW i \in 1..(n + 1), NEW j \in 1..(n + 1), more[i].kind \in Keyed,
                      more[i].kind = more[j].kind, more[i].id = more[j].id
               PROVE  i = j
    BY <1>2 DEF OneEach
  <2>1. CASE i \in 1..n /\ j \in 1..n
    BY <1>2, <2>1 DEF Table, OneEach
  <2>2. CASE i = n + 1 /\ j \in 1..n
    BY <1>1, <1>2, <2>2 DEF Under
  <2>3. CASE i \in 1..n /\ j = n + 1
    BY <1>1, <1>2, <2>3 DEF Under
  <2>4. QED
    BY <1>1, <2>1, <2>2, <2>3
<1>4. QED
  BY <1>2, <1>3 DEF Table, more

LEMMA UpsertedItem ==
  ASSUME NEW items, Table(items), NEW item, IsItem(item), item.kind \in Keyed
  PROVE  /\ Table(Upsert(items, item))
         /\ ToSet(Upsert(items, item)) =
              {x \in ToSet(items) : ~Under(item.kind, item.id, x)} \cup {item}
<1> DEFINE others == {x \in ToSet(items) : ~Under(item.kind, item.id, x)}
<1>1. CASE \A x \in ToSet(items) : ~Under(item.kind, item.id, x)
  <2>1. Upsert(items, item) = Append(items, item)
    BY <1>1, AtNone DEF Upsert
  <2>2. others = ToSet(items)
    BY <1>1
  <2>3. QED
    BY <1>1, <2>1, <2>2, AppendedItem
<1>2. ASSUME NEW x \in ToSet(items), Under(item.kind, item.id, x)
      PROVE  Table(Upsert(items, item)) /\ ToSet(Upsert(items, item)) = others \cup {item}
  <2>1. /\ Len(items) \in Nat /\ DOMAIN items = 1..Len(items)
        /\ ToSet(items) = {items[i] : i \in 1..Len(items)}
    BY Length DEF Table
  <2>2. PICK i \in 1..Len(items) : items[i] = x
    BY <2>1
  <2> DEFINE new == [items EXCEPT ![i] = item]
  <2>3. Upsert(items, item) = new
    <3>1. At(items, item.kind, item.id) = {i} /\ Min(At(items, item.kind, item.id)) = i
      BY <1>2, <2>2, AtOne
    <3>2. {i} # {}
      OBVIOUS
    <3>3. QED
      BY <3>1, <3>2 DEF Upsert
  <2>4. PICK S : items \in Seq(S)
    BY DEF Table, IsSeq
  <2>5. items \in Seq(S \cup {item}) /\ item \in S \cup {item}
    BY <2>4, SeqMonotonic
  <2>6. /\ new \in Seq(S \cup {item}) /\ Len(new) = Len(items)
        /\ \A j \in 1..Len(items) : new[j] = IF j = i THEN item ELSE items[j]
    BY <2>5, ExceptSeq
  <2> HIDE DEF new
  <2>7. IsSeq(new) /\ ToSet(new) = {new[j] : j \in 1..Len(items)}
    <3>1. IsSeq(new)
      BY <2>6 DEF IsSeq
    <3>2. QED
      BY <2>6, <3>1, Length
  <2>8. ASSUME NEW j \in 1..Len(items), j # i
        PROVE  ~Under(item.kind, item.id, items[j])
    BY <1>2, <2>2, <2>8 DEF Table, OneEach, Under
  <2>9. OneEach(new)
    <3> SUFFICES ASSUME NEW j \in 1..Len(items), NEW k \in 1..Len(items), new[j].kind \in Keyed,
                        new[j].kind = new[k].kind, new[j].id = new[k].id
                 PROVE  j = k
      BY <2>6 DEF OneEach
    <3>1. CASE j # i /\ k # i
      BY <2>6, <3>1 DEF Table, OneEach
    <3>2. CASE j = i /\ k # i
      BY <2>6, <2>8, <3>2 DEF Under
    <3>3. CASE j # i /\ k = i
      BY <2>6, <2>8, <3>3 DEF Under
    <3>4. QED
      BY <3>1, <3>2, <3>3
  <2>10. ToSet(new) = others \cup {item}
    <3>1. \A j \in 1..Len(items) : j # i => items[j] \in others
      BY <2>1, <2>8
    <3>2. \A y \in others : \E j \in 1..Len(items) : j # i /\ y = items[j]
      BY <1>2, <2>1, <2>2
    <3>3. ToSet(new) \subseteq others \cup {item}
      BY <2>6, <2>7, <3>1
    <3>4. others \subseteq ToSet(new)
      BY <2>6, <2>7, <3>2
    <3>5. item \in ToSet(new)
      BY <2>6, <2>7
    <3>6. QED
      BY <3>3, <3>4, <3>5
  <2>11. QED
    BY <2>3, <2>7, <2>9, <2>10 DEF Table
<1>3. QED
  BY <1>1, <1>2

Become(x, id, state) == IF Under("tool_call", id, x) THEN Item(x.kind, x.id, state, x.text) ELSE x

LEMMA ToolsBecome ==
  ASSUME NEW items, Table(items), NEW id, NEW state
  PROVE  /\ Table(ToolBecomes(items, id, state))
         /\ ToSet(ToolBecomes(items, id, state)) = {Become(x, id, state) : x \in ToSet(items)}
<1> DEFINE new == ToolBecomes(items, id, state)
<1>1. /\ IsSeq(items) /\ Len(items) \in Nat /\ DOMAIN items = 1..Len(items)
      /\ ToSet(items) = {items[i] : i \in 1..Len(items)}
      /\ \A i \in 1..Len(items) : IsItem(items[i])
  BY Length DEF Table
<1>2. \A i \in 1..Len(items) : new[i] = Become(items[i], id, state)
  <2> SUFFICES ASSUME NEW i \in 1..Len(items) PROVE new[i] = Become(items[i], id, state)
    OBVIOUS
  <2>1. new[i] = IF Under("tool_call", id, items[i]) THEN [items[i] EXCEPT !.state = state]
                 ELSE items[i]
    BY <1>1 DEF ToolBecomes, Under
  <2>2. [items[i] EXCEPT !.state = state] = Item(items[i].kind, items[i].id, state, items[i].text)
    BY <1>1 DEF IsItem, Item
  <2>3. QED
    BY <2>1, <2>2 DEF Become
<1>3. new \in Seq({Become(x, id, state) : x \in ToSet(items)}) /\ Len(new) = Len(items)
  <2>1. new = [i \in 1..Len(items) |-> Become(items[i], id, state)]
    BY <1>1, <1>2 DEF ToolBecomes
  <2>2. QED
    BY <1>1, <2>1
<1> HIDE DEF new
<1>4. IsSeq(new) /\ ToSet(new) = {new[i] : i \in 1..Len(items)}
  <2>1. IsSeq(new)
    BY <1>3 DEF IsSeq
  <2>2. QED
    BY <1>3, <2>1, Length
<1>5. \A x \in ToSet(items) : /\ Become(x, id, state).kind = x.kind
                              /\ Become(x, id, state).id = x.id
                              /\ IsItem(Become(x, id, state))
  BY ItemFields DEF Become, Table
<1>6. ToSet(new) = {Become(x, id, state) : x \in ToSet(items)}
  BY <1>1, <1>2, <1>4
<1>7. OneEach(new)
  <2>1. \A i \in 1..Len(items) : new[i].kind = items[i].kind /\ new[i].id = items[i].id
    BY <1>1, <1>2, <1>5
  <2>2. QED
    BY <1>3, <2>1 DEF Table, OneEach
<1>8. QED
  BY <1>4, <1>5, <1>6, <1>7 DEF Table, new

-----------------------------------------------------------------------------
(* A sequence without the members of a set, one place after the other.     *)

WithoutStep(kept, s, S, n) ==
  IF n = 0 THEN <<>>
  ELSE IF s[n] \in S THEN kept[n - 1] ELSE Append(kept[n - 1], s[n])

LEMMA WithoutExists ==
  ASSUME NEW s, NEW S, NEW N \in Nat
  PROVE  \E kept : kept = [n \in 0..N |-> WithoutStep(kept, s, S, n)]
<1> DEFINE K == {m \in Nat : \E kept : kept = [n \in 0..m |-> WithoutStep(kept, s, S, n)]}
<1>1. 0 \in K
  <2> DEFINE none == [n \in 0..0 |-> <<>>]
  <2>1. none = [n \in 0..0 |-> WithoutStep(none, s, S, n)]
    BY DEF WithoutStep
  <2>2. QED
    BY <2>1
<1>2. ASSUME NEW m \in K
      PROVE  m + 1 \in K
  <2>1. PICK kept : kept = [n \in 0..m |-> WithoutStep(kept, s, S, n)]
    OBVIOUS
  <2> DEFINE more == [n \in 0..(m + 1) |-> WithoutStep(kept, s, S, n)]
  <2>2. \A n \in 0..m : more[n] = kept[n]
    <3>1. \A n \in 0..m : n \in 0..(m + 1) /\ kept[n] = WithoutStep(kept, s, S, n)
      BY <2>1
    <3>2. QED
      BY <3>1
  <2>3. \A n \in 0..(m + 1) : more[n] = WithoutStep(more, s, S, n)
    <3> SUFFICES ASSUME NEW n \in 0..(m + 1)
                 PROVE  more[n] = WithoutStep(more, s, S, n)
      OBVIOUS
    <3>1. n # 0 => more[n - 1] = kept[n - 1]
      <4>1. n # 0 => n - 1 \in 0..m
        BY m \in Nat
      <4> HIDE DEF more
      <4>2. QED
        BY <2>2, <4>1
    <3>2. more[n] = WithoutStep(kept, s, S, n)
      OBVIOUS
    <3> HIDE DEF more
    <3>3. QED
      BY <3>1, <3>2 DEF WithoutStep
  <2>4. more = [n \in 0..(m + 1) |-> WithoutStep(more, s, S, n)]
    BY <2>3
  <2> HIDE DEF more
  <2>5. QED
    BY <2>4
<1>3. K \in SUBSET Nat
  OBVIOUS
<1>4. K = Nat
  <2> HIDE DEF K
  <2>1. QED
    BY <1>1, <1>2, <1>3, StepByStep
<1>5. QED
  BY <1>4

\* Two places of t hold what two places of s do.
Thinned(t, s) ==
  \A a, b \in 1..Len(t) : a # b =>
    \E i, j \in 1..Len(s) : i # j /\ t[a] = s[i] /\ t[b] = s[j]

LEMMA WithoutThese ==
  ASSUME NEW s, IsSeq(s), NEW S
  PROVE  /\ IsSeq(Without(s, S)) /\ ToSet(Without(s, S)) = ToSet(s) \ S
         /\ Thinned(Without(s, S), s)
<1> DEFINE N == Len(s)
           kept == CHOOSE f : f = [n \in 0..N |-> WithoutStep(f, s, S, n)]
           Upto(n) == {s[i] : i \in 1..n}
           Good(t, n) == /\ IsSeq(t) /\ ToSet(t) = Upto(n) \ S
                         /\ \A a, b \in 1..Len(t) : a # b =>
                              \E i, j \in 1..n : i # j /\ t[a] = s[i] /\ t[b] = s[j]
                         /\ \A a \in 1..Len(t) : \E i \in 1..n : t[a] = s[i]
           K == {n \in Nat : n <= N => Good(kept[n], n)}
<1>0. N \in Nat /\ ToSet(s) = Upto(N)
  BY Length
<1>1. kept = [n \in 0..N |-> WithoutStep(kept, s, S, n)]
  BY <1>0, WithoutExists
<1>2. Without(s, S) = kept[N]
  BY DEF Without, WithoutStep
<1> HIDE DEF kept
<1>3. \A n \in 0..N : kept[n] = WithoutStep(kept, s, S, n)
  BY <1>1
<1> HIDE DEF N
<1>4. 0 \in K
  <2>1. kept[0] = <<>>
    BY <1>0, <1>3 DEF WithoutStep
  <2>2. Upto(0) = {}
    OBVIOUS
  <2>3. Good(<<>>, 0)
    BY <2>2, Empty
  <2> HIDE DEF Good
  <2>4. QED
    BY <2>1, <2>3
<1>5. ASSUME NEW n \in K
      PROVE  n + 1 \in K
  <2> SUFFICES ASSUME n + 1 <= N PROVE Good(kept[n + 1], n + 1)
    BY n \in Nat
  <2>0. n \in Nat /\ n + 1 \in 0..N /\ n + 1 # 0 /\ (n + 1) - 1 = n /\ n <= N
    BY <1>0
  <2>1. Good(kept[n], n)
    BY <2>0
  <2>2. kept[n + 1] = IF s[n + 1] \in S THEN kept[n] ELSE Append(kept[n], s[n + 1])
    BY <1>3, <2>0 DEF WithoutStep
  <2>3. Upto(n + 1) = Upto(n) \cup {s[n + 1]}
    <3>1. \A i \in 1..(n + 1) : i \in 1..n \/ i = n + 1
      BY <2>0
    <3>2. n + 1 \in 1..(n + 1) /\ \A i \in 1..n : i \in 1..(n + 1)
      BY <2>0
    <3>3. QED
      BY <3>1, <3>2
  <2>4. CASE s[n + 1] \in S
    <3>1. Good(kept[n], n + 1)
      BY <2>0, <2>1, <2>3, <2>4
    <3> HIDE DEF Good
    <3>2. QED
      BY <2>2, <2>4, <3>1
  <2>5. CASE s[n + 1] \notin S
    <3> DEFINE t == kept[n]
               u == Append(t, s[n + 1])
    <3>1. IsSeq(t) /\ Len(t) \in Nat
      BY <2>1, Length
    <3>2. /\ IsSeq(u) /\ Len(u) = Len(t) + 1
          /\ \A i \in 1..Len(t) : u[i] = t[i]
          /\ u[Len(t) + 1] = s[n + 1]
          /\ ToSet(u) = ToSet(t) \cup {s[n + 1]}
      BY <3>1, Appended
    <3>3. ToSet(t) = Upto(n) \ S
      BY <2>1
    <3>4. /\ \A a, b \in 1..Len(t) : a # b =>
               \E i, j \in 1..n : i # j /\ t[a] = s[i] /\ t[b] = s[j]
          /\ \A a \in 1..Len(t) : \E i \in 1..n : t[a] = s[i]
      BY <2>1
    <3> HIDE DEF u, t
    <3>5. ToSet(u) = Upto(n + 1) \ S
      BY <2>3, <2>5, <3>2, <3>3
    <3>6. \A a \in 1..Len(u) : a \in 1..Len(t) \/ a = Len(t) + 1
      BY <3>1, <3>2
    <3>7. n + 1 \in 1..(n + 1) /\ \A i \in 1..n : i \in 1..(n + 1) /\ i # n + 1
      BY <2>0
    <3>8. ASSUME NEW a \in 1..Len(u), NEW b \in 1..Len(u), a # b
          PROVE  \E i, j \in 1..(n + 1) : i # j /\ u[a] = s[i] /\ u[b] = s[j]
      <4>1. CASE a \in 1..Len(t) /\ b \in 1..Len(t)
        <5>1. PICK i \in 1..n, j \in 1..n : i # j /\ t[a] = s[i] /\ t[b] = s[j]
          BY <3>4, <3>8, <4>1
        <5>2. QED
          BY <3>2, <3>7, <4>1, <5>1
      <4>2. CASE a \in 1..Len(t) /\ b = Len(t) + 1
        <5>1. PICK i \in 1..n : t[a] = s[i]
          BY <3>4, <4>2
        <5>2. u[a] = s[i] /\ u[b] = s[n + 1]
          BY <3>2, <4>2, <5>1
        <5>3. i \in 1..(n + 1) /\ n + 1 \in 1..(n + 1) /\ i # n + 1
          BY <3>7
        <5>4. QED
          BY <5>2, <5>3
      <4>3. CASE a = Len(t) + 1 /\ b \in 1..Len(t)
        <5>1. PICK j \in 1..n : t[b] = s[j]
          BY <3>4, <4>3
        <5>2. u[a] = s[n + 1] /\ u[b] = s[j]
          BY <3>2, <4>3, <5>1
        <5>3. j \in 1..(n + 1) /\ n + 1 \in 1..(n + 1) /\ n + 1 # j
          BY <3>7
        <5>4. QED
          BY <5>2, <5>3
      <4>4. QED
        BY <3>6, <3>8, <4>1, <4>2, <4>3
    <3>9. ASSUME NEW a \in 1..Len(u)
          PROVE  \E i \in 1..(n + 1) : u[a] = s[i]
      <4>1. CASE a \in 1..Len(t)
        <5>1. PICK i \in 1..n : t[a] = s[i]
          BY <3>4, <4>1
        <5>2. QED
          BY <3>2, <3>7, <4>1, <5>1
      <4>2. CASE a = Len(t) + 1
        BY <3>2, <3>7, <4>2
      <4>3. QED
        BY <3>6, <4>1, <4>2
    <3>10. Good(u, n + 1)
      BY <3>2, <3>5, <3>8, <3>9
    <3> HIDE DEF Good
    <3>11. QED
      BY <2>2, <2>5, <3>10 DEF u, t
  <2>6. QED
    BY <2>4, <2>5
<1>6. K = Nat
  <2>1. K \in SUBSET Nat
    OBVIOUS
  <2> HIDE DEF K
  <2>2. QED
    BY <1>4, <1>5, <2>1, StepByStep
<1>7. Good(kept[N], N)
  <2> HIDE DEF Good
  <2>1. N \in K
    BY <1>0, <1>6
  <2>2. QED
    BY <1>0, <2>1
<1>8. QED
  BY <1>0, <1>2, <1>7 DEF Thinned, N

LEMMA TableWithout ==
  ASSUME NEW items, Table(items), NEW S
  PROVE  Table(Without(items, S)) /\ ToSet(Without(items, S)) = ToSet(items) \ S
<1> DEFINE new == Without(items, S)
<1>1. IsSeq(new) /\ ToSet(new) = ToSet(items) \ S /\ Thinned(new, items)
  BY WithoutThese DEF Table
<1> HIDE DEF new
<1>2. OneEach(new)
  <2> SUFFICES ASSUME NEW a \in 1..Len(new), NEW b \in 1..Len(new), a # b,
                      new[a].kind \in Keyed, new[a].kind = new[b].kind, new[a].id = new[b].id
               PROVE  FALSE
    BY DEF OneEach
  <2>1. PICK i \in 1..Len(items), j \in 1..Len(items) :
          i # j /\ new[a] = items[i] /\ new[b] = items[j]
    BY <1>1 DEF Thinned
  <2>2. QED
    BY <2>1 DEF Table, OneEach
<1>3. QED
  BY <1>1, <1>2 DEF Table, new

-----------------------------------------------------------------------------
(* What one more event adds to what a log tells.                           *)

LEMMA LogNext ==
  ASSUME NEW L, IsSeq(L), NEW e
  PROVE  /\ IsSeq(Append(L, e)) /\ Len(L) \in Nat /\ DOMAIN L = 1..Len(L)
         /\ DOMAIN Append(L, e) = 1..(Len(L) + 1)
         /\ \A i \in 1..Len(L) : Append(L, e)[i] = L[i]
         /\ Append(L, e)[Len(L) + 1] = e
<1> DEFINE M == Append(L, e)
<1>1. /\ IsSeq(M) /\ Len(M) = Len(L) + 1 /\ \A i \in 1..Len(L) : M[i] = L[i]
      /\ M[Len(L) + 1] = e
  BY Appended
<1> HIDE DEF M
<1>2. DOMAIN M = 1..Len(M) /\ Len(L) \in Nat /\ DOMAIN L = 1..Len(L)
  BY <1>1, Length
<1>3. QED
  BY <1>1, <1>2 DEF M

LEMMA OfNext ==
  ASSUME NEW L, IsSeq(L), NEW e, NEW types
  PROVE  /\ Of(L, types) \in SUBSET (1..Len(L))
         /\ Of(Append(L, e), types) =
              Of(L, types) \cup (IF e.type \in types THEN {Len(L) + 1} ELSE {})
<1> DEFINE M == Append(L, e)
           n == Len(L)
<1>1. /\ n \in Nat /\ DOMAIN L = 1..n /\ DOMAIN M = 1..(n + 1)
      /\ \A i \in 1..n : M[i] = L[i]
      /\ M[n + 1] = e
  BY LogNext
<1> HIDE DEF M, n
<1>2. 1..(n + 1) = (1..n) \cup {n + 1}
  BY <1>1
<1>3. Of(L, types) \in SUBSET (1..n)
  BY <1>1 DEF Of
<1>4. Of(M, types) = Of(L, types) \cup (IF e.type \in types THEN {n + 1} ELSE {})
  BY <1>1, <1>2 DEF Of
<1>5. QED
  BY <1>3, <1>4 DEF M, n

LEMMA LatestIs ==
  ASSUME NEW L, NEW n \in Nat, NEW S \in SUBSET (1..n)
  PROVE  /\ Latest(L, S) \in 0..n
         /\ S # {} => Latest(L, S) \in S
         /\ \A k \in S : k <= Latest(L, S)
         /\ n \in S => Latest(L, S) = n
<1>1. CASE S = {}
  BY <1>1 DEF Latest
<1>2. CASE S # {}
  <2>1. Max(S) \in S /\ \A k \in S : k <= Max(S)
    BY <1>2, GreatestIsMax
  <2>2. Latest(L, S) = Max(S)
    BY <1>2 DEF Latest
  <2>3. Latest(L, S) \in 1..n
    BY <2>1, <2>2
  <2>4. n \in S => Latest(L, S) = n
    BY <2>1, <2>2, <2>3
  <2>5. QED
    BY <1>2, <2>1, <2>2, <2>3, <2>4
<1>3. QED
  BY <1>1, <1>2

LEMMA PiecesNext ==
  ASSUME NEW L, IsSeq(L), NEW e, NEW type, type # "assistant_message"
  PROVE  /\ Pieces(L, type) \in Nat
         /\ Pieces(Append(L, e), type) =
              IF e.type = "assistant_message" THEN 0
              ELSE Pieces(L, type) + (IF e.type = type THEN 1 ELSE 0)
<1> DEFINE M == Append(L, e)
           n == Len(L)
           full == Of(L, {"assistant_message"})
           since == {i \in Of(L, {type}) : i > Latest(L, full)}
<1>1. n \in Nat
  BY Length
<1>2. /\ full \in SUBSET (1..n) /\ Of(L, {type}) \in SUBSET (1..n)
      /\ Of(M, {"assistant_message"}) =
           full \cup (IF e.type = "assistant_message" THEN {n + 1} ELSE {})
      /\ Of(M, {type}) = Of(L, {type}) \cup (IF e.type = type THEN {n + 1} ELSE {})
  BY OfNext
<1> HIDE DEF M, n, full
<1>3. Latest(L, full) \in 0..n
  BY <1>1, <1>2, LatestIs
<1>4. since \in SUBSET (1..n) /\ IsFiniteSet(since) /\ Cardinality(since) \in Nat
  <2>1. 1 \in Int /\ n \in Int
    BY <1>1
  <2>2. IsFiniteSet(1..n)
    BY <2>1, FS_Interval
  <2>3. since \in SUBSET (1..n)
    BY <1>2
  <2> HIDE DEF since
  <2>4. QED
    BY <2>2, <2>3, FS_Subset, FS_CardinalityType
<1>5. Pieces(L, type) = Cardinality(since)
  BY DEF Pieces, full
<1>6. CASE e.type = "assistant_message"
  <2>1. Latest(M, Of(M, {"assistant_message"})) = n + 1
    <3> DEFINE fullM == Of(M, {"assistant_message"})
    <3>1. n + 1 \in Nat /\ fullM \in SUBSET (1..(n + 1)) /\ n + 1 \in fullM
      <4>1. fullM = full \cup {n + 1}
        BY <1>2, <1>6
      <4>2. \A i \in full : i \in 1..n
        BY <1>2
      <4> HIDE DEF fullM
      <4>3. QED
        BY <1>1, <4>1, <4>2
    <3> HIDE DEF fullM
    <3>2. Latest(M, fullM) = n + 1
      BY <3>1, LatestIs
    <3>3. QED
      BY <3>2 DEF fullM
  <2>2. {i \in Of(M, {type}) : i > n + 1} = {}
    <3>1. \A i \in Of(L, {type}) : ~(i > n + 1)
      BY <1>1, <1>2
    <3>2. QED
      BY <1>2, <1>6, <3>1
  <2>3. Pieces(M, type) = 0
    BY <2>1, <2>2, FS_EmptySet DEF Pieces
  <2>4. QED
    BY <1>4, <1>5, <1>6, <2>3 DEF M
<1>7. CASE e.type # "assistant_message"
  <2>1. Latest(M, Of(M, {"assistant_message"})) = Latest(L, full)
    BY <1>2, <1>7 DEF Latest
  <2> DEFINE now == {i \in Of(M, {type}) : i > Latest(L, full)}
  <2>2. Pieces(M, type) = Cardinality(now)
    BY <2>1 DEF Pieces
  <2>3. CASE e.type = type
    <3>1. now = since \cup {n + 1} /\ n + 1 \notin since
      <4>1. n + 1 > Latest(L, full) /\ n + 1 \notin 1..n
        BY <1>1, <1>3
      <4>2. QED
        BY <1>2, <1>4, <2>3, <4>1
    <3>2. Cardinality(now) = Cardinality(since) + 1
      <4> HIDE DEF now, since
      <4>1. QED
        BY <1>4, <3>1, FS_AddElement
    <3>3. QED
      BY <1>4, <1>5, <1>7, <2>2, <2>3, <3>2 DEF M
  <2>4. CASE e.type # type
    <3>1. now = since
      BY <1>2, <2>4
    <3> HIDE DEF now, since
    <3>2. Pieces(M, type) = Pieces(L, type) /\ Pieces(L, type) \in Nat
      BY <1>4, <1>5, <2>2, <3>1
    <3>3. QED
      BY <1>7, <2>4, <3>2 DEF M
  <2>5. QED
    BY <2>3, <2>4
<1>8. QED
  BY <1>6, <1>7

Words == {"tool_result", "execution_dispatched", "execution_result", "execution_failed"}

\* What an event says of the call it is about.
Word(e) ==
  CASE e.type = "tool_result" -> IF e.error THEN "failed" ELSE "settled"
    [] e.type = "execution_dispatched" -> IF e.deferred THEN "deferred" ELSE "pending"
    [] e.type = "execution_result" -> "settled"
    [] e.type = "execution_failed" -> "failed"

SaidOf(L, id) ==
  {i \in Of(L, Words) : i > Latest(L, {k \in DOMAIN L : UsesTool(L[k], id)}) /\ L[i].id = id}

LEMMA ToolStateIs ==
  ASSUME NEW L, NEW id
  PROVE  ToolState(L, id) =
           IF SaidOf(L, id) = {} THEN "running" ELSE Word(L[Max(SaidOf(L, id))])
<1> DEFINE said == SaidOf(L, id)
           e == L[Max(said)]
<1>1. ToolState(L, id) =
        CASE said = {} -> "running"
          [] OTHER ->
               CASE e.type = "tool_result" -> IF e.error THEN "failed" ELSE "settled"
                 [] e.type = "execution_dispatched" -> IF e.deferred THEN "deferred" ELSE "pending"
                 [] e.type = "execution_result" -> "settled"
                 [] e.type = "execution_failed" -> "failed"
  BY DEF ToolState, SaidOf, Words
<1> HIDE DEF said, e
<1>2. ToolState(L, id) = IF said = {} THEN "running" ELSE Word(e)
  BY <1>1 DEF Word
<1>3. QED
  BY <1>2 DEF said, e

LEMMA ToolStateNext ==
  ASSUME NEW L, IsSeq(L), NEW e, NEW id
  PROVE  ToolState(Append(L, e), id) =
           IF UsesTool(e, id) THEN "running"
           ELSE IF e.type \in Words /\ e.id = id THEN Word(e)
           ELSE ToolState(L, id)
<1> DEFINE M == Append(L, e)
           n == Len(L)
           uses == {i \in DOMAIN L : UsesTool(L[i], id)}
           usesM == {i \in DOMAIN M : UsesTool(M[i], id)}
           shown == Latest(L, uses)
           shownM == Latest(M, usesM)
           said == {i \in Of(L, Words) : i > shown /\ L[i].id = id}
           saidM == {i \in Of(M, Words) : i > shownM /\ M[i].id = id}
<1>1. /\ n \in Nat /\ DOMAIN L = 1..n /\ DOMAIN M = 1..(n + 1)
      /\ \A i \in 1..n : M[i] = L[i]
      /\ M[n + 1] = e
  BY LogNext
<1>2. /\ Of(L, Words) \in SUBSET (1..n)
      /\ Of(M, Words) = Of(L, Words) \cup (IF e.type \in Words THEN {n + 1} ELSE {})
  BY OfNext
<1>3. /\ ToolState(L, id) = IF said = {} THEN "running" ELSE Word(L[Max(said)])
      /\ ToolState(M, id) = IF saidM = {} THEN "running" ELSE Word(M[Max(saidM)])
  BY ToolStateIs DEF SaidOf
<1> HIDE DEF M, n
<1>4. 1..(n + 1) = (1..n) \cup {n + 1}
  BY <1>1
<1>5. uses \in SUBSET (1..n) /\ usesM = uses \cup (IF UsesTool(e, id) THEN {n + 1} ELSE {})
  BY <1>1, <1>4
<1> HIDE DEF uses, usesM
<1>6. shown \in 0..n
  BY <1>1, <1>5, LatestIs
<1>7. CASE UsesTool(e, id)
  <2>1. shownM = n + 1
    <3>1. n + 1 \in Nat /\ usesM \in SUBSET (1..(n + 1)) /\ n + 1 \in usesM
      BY <1>1, <1>5, <1>7
    <3>2. QED
      BY <3>1, LatestIs
  <2>2. saidM = {}
    <3>1. \A i \in Of(M, Words) : ~(i > n + 1)
      BY <1>1, <1>2
    <3>2. QED
      BY <2>1, <3>1
  <2>3. QED
    BY <1>3, <1>7, <2>2 DEF M
<1>8. CASE ~UsesTool(e, id)
  <2>1. shownM = shown
    BY <1>5, <1>8 DEF Latest
  <2>2. said \in SUBSET (1..n)
    BY <1>2
  <2>3. CASE e.type \in Words /\ e.id = id
    <3>1. saidM = said \cup {n + 1}
      <4>1. n + 1 > shown
        BY <1>1, <1>6
      <4>2. \A i \in Of(L, Words) : M[i] = L[i]
        BY <1>1, <1>2
      <4> HIDE DEF shown, shownM
      <4>3. QED
        BY <1>1, <1>2, <2>1, <2>3, <4>1, <4>2
    <3>2. Max(saidM) = n + 1
      <4>1. n + 1 \in Nat /\ saidM \in SUBSET (1..(n + 1)) /\ saidM # {} /\ n + 1 \in saidM
        BY <1>1, <2>2, <3>1
      <4> HIDE DEF saidM
      <4>2. Max(saidM) \in 1..(n + 1) /\ n + 1 <= Max(saidM)
        BY <4>1, GreatestIsMax
      <4>3. QED
        BY <1>1, <4>2
    <3>3. saidM # {}
      BY <3>1
    <3>4. QED
      BY <1>1, <1>3, <1>8, <2>3, <3>2, <3>3 DEF M
  <2>4. CASE ~(e.type \in Words /\ e.id = id)
    <3>1. saidM = said
      <4>1. \A i \in Of(L, Words) : M[i] = L[i]
        BY <1>1, <1>2
      <4> HIDE DEF shown, shownM
      <4>2. QED
        BY <1>1, <1>2, <2>1, <2>4, <4>1
    <3>2. said # {} => Max(said) \in 1..n
      <4> HIDE DEF said
      <4>1. QED
        BY <1>1, <2>2, GreatestIsMax
    <3>3. said # {} => M[Max(said)] = L[Max(said)]
      BY <1>1, <3>2
    <3> HIDE DEF said, saidM
    <3>4. QED
      BY <1>3, <1>8, <2>4, <3>1, <3>3 DEF M
  <2>5. QED
    BY <2>3, <2>4
<1>9. QED
  BY <1>7, <1>8

-----------------------------------------------------------------------------
(* What the items tell of a log, and how each event keeps it so.           *)

StreamTold(R, kind, id, n) ==
  /\ \A x \in R : Under(kind, id, x) => x.text = n
  /\ n # 0 => \E x \in R : Under(kind, id, x)

CallsTold(R, L) ==
  /\ \A x \in R : x.kind = "tool_call" => x.state = ToolState(L, x.id)
  /\ \A i \in Of(L, {"assistant_message"}) : \A b \in ToSet(L[i].blocks) :
       b.type = "tool_use" => \E x \in R : Under("tool_call", b.id, x)

UsersTold(R, L) ==
  \A i \in Of(L, {"user_message"}) : \E x \in R : Under("user", L[i].uuid, x)

Thoughts(R) == \A x \in R : x.kind = "thinking" => x.text \in Nat /\ x.text > 0

Tells(R, L) ==
  /\ CallsTold(R, L) /\ UsersTold(R, L) /\ Thoughts(R)
  /\ StreamTold(R, "assistant_text", Streaming, Pieces(L, "text_delta"))
  /\ StreamTold(R, "thinking", StreamingThinking, Pieces(L, "thinking_delta"))

\* The pieces there are after one more event.
More(L, e, type) ==
  IF e.type = "assistant_message" THEN 0
  ELSE Pieces(L, type) + (IF e.type = type THEN 1 ELSE 0)

Kept(R, Q) ==
  \A x \in R : x.kind \in {"tool_call", "user"} => \E y \in Q : Under(x.kind, x.id, y)

LEMMA TellsNext ==
  ASSUME NEW L, IsSeq(L), NEW e, NEW R, NEW Q, Tells(R, L), Kept(R, Q), Thoughts(Q),
         \A x \in Q : x.kind = "tool_call" =>
           x.state = IF UsesTool(e, x.id) THEN "running"
                     ELSE IF e.type \in Words /\ e.id = x.id THEN Word(e)
                     ELSE ToolState(L, x.id),
         e.type = "assistant_message" =>
           \A b \in ToSet(e.blocks) : b.type = "tool_use" => \E x \in Q : Under("tool_call", b.id, x),
         e.type = "user_message" => \E x \in Q : Under("user", e.uuid, x),
         StreamTold(Q, "assistant_text", Streaming, More(L, e, "text_delta")),
         StreamTold(Q, "thinking", StreamingThinking, More(L, e, "thinking_delta"))
  PROVE  Tells(Q, Append(L, e))
<1> DEFINE M == Append(L, e)
           n == Len(L)
<1>1. /\ n \in Nat /\ \A i \in 1..n : M[i] = L[i]
      /\ M[n + 1] = e
  BY LogNext
<1>2. \A types : /\ Of(L, types) \in SUBSET (1..n)
                 /\ Of(M, types) = Of(L, types) \cup (IF e.type \in types THEN {n + 1} ELSE {})
  BY OfNext
<1>3. /\ Pieces(M, "text_delta") = More(L, e, "text_delta")
      /\ Pieces(M, "thinking_delta") = More(L, e, "thinking_delta")
  BY PiecesNext DEF More
<1>4. \A x \in Q : x.kind = "tool_call" => x.state = ToolState(M, x.id)
  BY ToolStateNext
<1> HIDE DEF M, n
<1>5. ASSUME NEW i \in Of(M, {"assistant_message"}), NEW b \in ToSet(M[i].blocks), b.type = "tool_use"
      PROVE  \E x \in Q : Under("tool_call", b.id, x)
  <2>1. CASE i \in Of(L, {"assistant_message"})
    <3>1. M[i] = L[i]
      BY <1>1, <1>2, <2>1
    <3>2. PICK x \in R : Under("tool_call", b.id, x)
      BY <1>5, <2>1, <3>1 DEF Tells, CallsTold
    <3>3. QED
      BY <3>2 DEF Kept, Under
  <2>2. CASE i = n + 1 /\ e.type = "assistant_message"
    BY <1>1, <1>5, <2>2
  <2>3. QED
    BY <1>2, <2>1, <2>2
<1>6. ASSUME NEW i \in Of(M, {"user_message"})
      PROVE  \E x \in Q : Under("user", M[i].uuid, x)
  <2>1. CASE i \in Of(L, {"user_message"})
    <3>1. M[i] = L[i]
      BY <1>1, <1>2, <2>1
    <3>2. PICK x \in R : Under("user", M[i].uuid, x)
      BY <2>1, <3>1 DEF Tells, UsersTold
    <3>3. QED
      BY <3>2 DEF Kept, Under
  <2>2. CASE i = n + 1 /\ e.type = "user_message"
    BY <1>1, <2>2
  <2>3. QED
    BY <1>2, <2>1, <2>2
<1>7. CallsTold(Q, M) /\ UsersTold(Q, M)
  BY <1>4, <1>5, <1>6 DEF CallsTold, UsersTold
<1>8. QED
  BY <1>3, <1>7 DEF Tells, M

Told(items, L) == Table(items) /\ Tells(ToSet(items), L)

LEMMA PiecesAreNat ==
  ASSUME NEW L, IsSeq(L)
  PROVE  Pieces(L, "text_delta") \in Nat /\ Pieces(L, "thinking_delta") \in Nat
BY PiecesNext

\* What says nothing of a call and streams nothing.
LEMMA QuietEvent ==
  ASSUME NEW L, IsSeq(L), NEW e,
         e.type \notin Words \cup {"assistant_message", "text_delta", "thinking_delta"}
  PROVE  /\ \A id : ~UsesTool(e, id)
         /\ More(L, e, "text_delta") = Pieces(L, "text_delta")
         /\ More(L, e, "thinking_delta") = Pieces(L, "thinking_delta")
BY PiecesAreNat DEF UsesTool, More

LEMMA ToldQuiet ==
  ASSUME NEW L, IsSeq(L), NEW e, NEW items, Told(items, L), NEW item, IsItem(item),
         item.kind \notin Keyed, NEW new, new \in {items, Append(items, item)},
         e.type \notin Words \cup {"assistant_message", "user_message", "text_delta",
                                   "thinking_delta"}
  PROVE  Told(new, Append(L, e))
<1> DEFINE R == ToSet(items)
           Q == ToSet(new)
<1>1. Table(new) /\ Q \in {R, R \cup {item}}
  <2>1. Table(Append(items, item)) /\ ToSet(Append(items, item)) = R \cup {item}
    BY AppendedItem DEF Told
  <2>2. QED
    BY <2>1 DEF Told
<1>2. \A x \in Q : x.kind \in Keyed => x \in R
  BY <1>1
<1>3. \A x \in R : x \in Q
  BY <1>1
<1>4. Tells(R, L)
  BY DEF Told
<1>5. /\ \A id : ~UsesTool(e, id)
      /\ More(L, e, "text_delta") = Pieces(L, "text_delta")
      /\ More(L, e, "thinking_delta") = Pieces(L, "thinking_delta")
  BY QuietEvent
<1> HIDE DEF R, Q
<1>6. Kept(R, Q) /\ Thoughts(Q)
  BY <1>2, <1>3, <1>4 DEF Kept, Thoughts, Tells, Keyed, Under
<1>7. \A x \in Q : x.kind = "tool_call" => x.state = ToolState(L, x.id)
  BY <1>2, <1>4 DEF Tells, CallsTold, Keyed
<1>8. /\ StreamTold(Q, "assistant_text", Streaming, More(L, e, "text_delta"))
      /\ StreamTold(Q, "thinking", StreamingThinking, More(L, e, "thinking_delta"))
  BY <1>2, <1>3, <1>4, <1>5 DEF Tells, StreamTold, Keyed, Under
<1>9. Tells(Q, Append(L, e))
  BY <1>4, <1>5, <1>6, <1>7, <1>8, TellsNext
<1>10. QED
  BY <1>1, <1>9 DEF Told, Q

LEMMA ToldUser ==
  ASSUME NEW L, IsSeq(L), NEW e, NEW items, Told(items, L), e.type = "user_message"
  PROVE  Told(Upsert(items, Item("user", e.uuid, "complete", 1)), Append(L, e))
<1> DEFINE R == ToSet(items)
           item == Item("user", e.uuid, "complete", 1)
           Q == ToSet(Upsert(items, item))
<1>1. item.kind = "user" /\ item.id = e.uuid /\ IsItem(item)
  BY ItemFields
<1> HIDE DEF item
<1>2. /\ Table(Upsert(items, item))
      /\ Q = {x \in R : ~Under("user", e.uuid, x)} \cup {item}
  BY <1>1, UpsertedItem DEF Told, Keyed
<1>3. Tells(R, L)
  BY DEF Told
<1>4. /\ \A id : ~UsesTool(e, id)
      /\ More(L, e, "text_delta") = Pieces(L, "text_delta")
      /\ More(L, e, "thinking_delta") = Pieces(L, "thinking_delta")
  BY QuietEvent DEF Words
<1> HIDE DEF R, Q
<1>5. /\ \A x \in Q : x.kind # "user" => x \in R
      /\ \A x \in R : x.kind # "user" => x \in Q
      /\ \A x \in R : x.kind = "user" => \E y \in Q : Under("user", x.id, y)
      /\ \E x \in Q : Under("user", e.uuid, x)
  BY <1>1, <1>2 DEF Under
<1>6. Kept(R, Q) /\ Thoughts(Q)
  BY <1>3, <1>5 DEF Kept, Thoughts, Tells, Under
<1>7. \A x \in Q : x.kind = "tool_call" => x.state = ToolState(L, x.id)
  BY <1>3, <1>5 DEF Tells, CallsTold
<1>8. /\ StreamTold(Q, "assistant_text", Streaming, More(L, e, "text_delta"))
      /\ StreamTold(Q, "thinking", StreamingThinking, More(L, e, "thinking_delta"))
  BY <1>3, <1>4, <1>5 DEF Tells, StreamTold, Under
<1>9. Tells(Q, Append(L, e))
  BY <1>3, <1>4, <1>5, <1>6, <1>7, <1>8, TellsNext DEF Words
<1>10. QED
  BY <1>2, <1>9 DEF Told, Q, item

LEMMA ToldWord ==
  ASSUME NEW L, IsSeq(L), NEW e, NEW items, Told(items, L), e.type \in Words
  PROVE  Told(ToolBecomes(items, e.id, Word(e)), Append(L, e))
<1> DEFINE R == ToSet(items)
           Q == ToSet(ToolBecomes(items, e.id, Word(e)))
<1>1. /\ Table(ToolBecomes(items, e.id, Word(e)))
      /\ Q = {Become(x, e.id, Word(e)) : x \in R}
  BY ToolsBecome DEF Told
<1>2. Tells(R, L)
  BY DEF Told
<1>3. /\ \A id : ~UsesTool(e, id)
      /\ More(L, e, "text_delta") = Pieces(L, "text_delta")
      /\ More(L, e, "thinking_delta") = Pieces(L, "thinking_delta")
  BY PiecesAreNat DEF UsesTool, More, Words
<1>4. \A x \in R : LET y == Become(x, e.id, Word(e)) IN
        /\ y.kind = x.kind /\ y.id = x.id /\ y.text = x.text
        /\ y.state = IF Under("tool_call", e.id, x) THEN Word(e) ELSE x.state
  BY ItemFields DEF Become
<1>5. \A y \in Q : \E x \in R :
        /\ y.kind = x.kind /\ y.id = x.id /\ y.text = x.text
        /\ y.state = IF Under("tool_call", e.id, x) THEN Word(e) ELSE x.state
  BY <1>1, <1>4
<1>6. \A x \in R : \E y \in Q : y.kind = x.kind /\ y.id = x.id
  BY <1>1, <1>4
<1> HIDE DEF R, Q
<1>7. Kept(R, Q) /\ Thoughts(Q)
  BY <1>2, <1>5, <1>6 DEF Kept, Thoughts, Tells, Under
<1>8. \A y \in Q : y.kind = "tool_call" =>
        y.state = IF e.type \in Words /\ e.id = y.id THEN Word(e) ELSE ToolState(L, y.id)
  BY <1>2, <1>5 DEF Tells, CallsTold, Under
<1>9. /\ StreamTold(Q, "assistant_text", Streaming, More(L, e, "text_delta"))
      /\ StreamTold(Q, "thinking", StreamingThinking, More(L, e, "thinking_delta"))
  BY <1>2, <1>3, <1>5, <1>6 DEF Tells, StreamTold, Under
<1>10. Tells(Q, Append(L, e))
  BY <1>2, <1>3, <1>7, <1>8, <1>9, TellsNext DEF Words
<1>11. QED
  BY <1>1, <1>10 DEF Told, Q

LEMMA StreamedText ==
  ASSUME NEW L, IsSeq(L), NEW items, Told(items, L)
  PROVE  /\ TextOf(items, "assistant_text", Streaming) = Pieces(L, "text_delta")
         /\ TextOf(items, "thinking", StreamingThinking) = Pieces(L, "thinking_delta")
<1>1. ASSUME NEW kind \in Keyed, NEW id, NEW n, StreamTold(ToSet(items), kind, id, n)
      PROVE  TextOf(items, kind, id) = n
  <2>1. CASE \E x \in ToSet(items) : Under(kind, id, x)
    BY <1>1, <2>1, TextRead DEF Told, StreamTold
  <2>2. CASE \A x \in ToSet(items) : ~Under(kind, id, x)
    BY <1>1, <2>2, TextRead DEF Told, StreamTold
  <2>3. QED
    BY <2>1, <2>2
<1>2. "assistant_text" \in Keyed /\ "thinking" \in Keyed
  BY DEF Keyed
<1>3. QED
  BY <1>1, <1>2 DEF Told, Tells

LEMMA ToldPiece ==
  ASSUME NEW L, IsSeq(L), NEW e, NEW items, Told(items, L), NEW kind, NEW id,
         \/ kind = "assistant_text" /\ id = Streaming /\ e.type = "text_delta"
         \/ kind = "thinking" /\ id = StreamingThinking /\ e.type = "thinking_delta"
  PROVE  Told(StreamPiece(items, kind, id), Append(L, e))
<1> DEFINE R == ToSet(items)
           n == Pieces(L, e.type) + 1
           item == Item(kind, id, "streaming", n)
           Q == ToSet(Upsert(items, item))
<1>0. StreamPiece(items, kind, id) = Upsert(items, item)
  BY StreamedText DEF StreamPiece
<1>1. item.kind = kind /\ item.id = id /\ item.text = n /\ IsItem(item)
  BY ItemFields
<1>2. n \in Nat /\ n > 0
  BY PiecesAreNat
<1> HIDE DEF item
<1>3. /\ Table(Upsert(items, item))
      /\ Q = {x \in R : ~Under(kind, id, x)} \cup {item}
  BY <1>1, UpsertedItem DEF Told, Keyed
<1>4. Tells(R, L)
  BY DEF Told
<1>5. /\ \A i : ~UsesTool(e, i)
      /\ e.type = "text_delta" =>
           /\ More(L, e, "text_delta") = n
           /\ More(L, e, "thinking_delta") = Pieces(L, "thinking_delta")
      /\ e.type = "thinking_delta" =>
           /\ More(L, e, "text_delta") = Pieces(L, "text_delta")
           /\ More(L, e, "thinking_delta") = n
  BY PiecesAreNat DEF UsesTool, More
<1> HIDE DEF R, Q, n
<1>6. /\ \A x \in Q : x.kind # kind => x \in R
      /\ \A x \in R : x.kind # kind => x \in Q
      /\ \A x \in Q : x.kind = kind => x \in R \/ x = item
      /\ \A x \in Q : Under(kind, id, x) => x = item
      /\ item \in Q /\ Under(kind, id, item)
  BY <1>1, <1>3 DEF Under
<1>7. Kept(R, Q)
  BY <1>6 DEF Kept, Under
<1>8. Thoughts(Q)
  BY <1>1, <1>2, <1>4, <1>6 DEF Thoughts, Tells
<1>9. \A x \in Q : x.kind = "tool_call" => x.state = ToolState(L, x.id)
  BY <1>4, <1>6 DEF Tells, CallsTold
<1>10. StreamTold(Q, kind, id, n)
  BY <1>1, <1>6 DEF StreamTold
<1>11. /\ kind # "assistant_text" =>
            StreamTold(Q, "assistant_text", Streaming, Pieces(L, "text_delta"))
       /\ kind # "thinking" =>
            StreamTold(Q, "thinking", StreamingThinking, Pieces(L, "thinking_delta"))
  BY <1>4, <1>6 DEF Tells, StreamTold, Under
<1>12. /\ StreamTold(Q, "assistant_text", Streaming, More(L, e, "text_delta"))
       /\ StreamTold(Q, "thinking", StreamingThinking, More(L, e, "thinking_delta"))
  BY <1>5, <1>10, <1>11
<1>13. Tells(Q, Append(L, e))
  BY <1>4, <1>5, <1>7, <1>8, <1>9, <1>12, TellsNext DEF Words
<1>14. QED
  BY <1>0, <1>3, <1>13 DEF Told, Q

-----------------------------------------------------------------------------
(* An assistant message, one block after the other.                        *)

Start(items) == [items   |-> Without(items, {item \in ToSet(items) : Streamed(item)}),
                 thought |-> TextOf(items, "thinking", StreamingThinking)]

BlockStep(after, items, e, n) ==
  IF n = 0 THEN Start(items) ELSE AddBlock(after[n - 1], e.blocks[n], <<e.uuid, n>>)

LEMMA BlocksExist ==
  ASSUME NEW items, NEW e, NEW N \in Nat
  PROVE  \E after : after = [n \in 0..N |-> BlockStep(after, items, e, n)]
<1> DEFINE K == {m \in Nat : \E after : after = [n \in 0..m |-> BlockStep(after, items, e, n)]}
<1>1. 0 \in K
  <2> DEFINE none == [n \in 0..0 |-> Start(items)]
  <2>1. none = [n \in 0..0 |-> BlockStep(none, items, e, n)]
    BY DEF BlockStep
  <2>2. QED
    BY <2>1
<1>2. ASSUME NEW m \in K
      PROVE  m + 1 \in K
  <2>1. PICK after : after = [n \in 0..m |-> BlockStep(after, items, e, n)]
    OBVIOUS
  <2> DEFINE more == [n \in 0..(m + 1) |-> BlockStep(after, items, e, n)]
  <2>2. \A n \in 0..m : more[n] = after[n]
    <3>1. \A n \in 0..m : n \in 0..(m + 1) /\ after[n] = BlockStep(after, items, e, n)
      BY <2>1
    <3>2. QED
      BY <3>1
  <2>3. \A n \in 0..(m + 1) : more[n] = BlockStep(more, items, e, n)
    <3> SUFFICES ASSUME NEW n \in 0..(m + 1)
                 PROVE  more[n] = BlockStep(more, items, e, n)
      OBVIOUS
    <3>1. n # 0 => more[n - 1] = after[n - 1]
      <4>1. n # 0 => n - 1 \in 0..m
        BY m \in Nat
      <4> HIDE DEF more
      <4>2. QED
        BY <2>2, <4>1
    <3>2. more[n] = BlockStep(after, items, e, n)
      OBVIOUS
    <3> HIDE DEF more
    <3>3. QED
      BY <3>1, <3>2 DEF BlockStep
  <2>4. more = [n \in 0..(m + 1) |-> BlockStep(more, items, e, n)]
    BY <2>3
  <2> HIDE DEF more
  <2>5. QED
    BY <2>4
<1>3. K \in SUBSET Nat
  OBVIOUS
<1>4. K = Nat
  <2> HIDE DEF K
  <2>1. QED
    BY <1>1, <1>2, <1>3, StepByStep
<1>5. QED
  BY <1>4

\* What the items tell once n blocks of e are in them.
BlocksTold(acc, items, L, e, n) ==
  /\ acc = [items |-> acc.items, thought |-> acc.thought] /\ acc.thought \in Nat
  /\ Table(acc.items)
  /\ Kept(ToSet(items), ToSet(acc.items)) /\ Thoughts(ToSet(acc.items))
  /\ \A x \in ToSet(acc.items) :
       /\ ~Streamed(x)
       /\ x.kind = "tool_call" =>
            x.state = IF \E k \in 1..n : e.blocks[k] = ToolUse(x.id) THEN "running"
                      ELSE ToolState(L, x.id)
  /\ \A k \in 1..n : e.blocks[k].type = "tool_use" =>
       \E x \in ToSet(acc.items) : Under("tool_call", e.blocks[k].id, x)

LEMMA BlockQuiet ==
  ASSUME NEW acc, NEW items, NEW L, NEW e, NEW n \in Nat, BlocksTold(acc, items, L, e, n),
         e.blocks[n + 1].type # "tool_use", NEW thought \in Nat
  PROVE  BlocksTold([items |-> acc.items, thought |-> thought], items, L, e, n + 1)
<1> DEFINE new == [items |-> acc.items, thought |-> thought]
<1>1. new.items = acc.items /\ new.thought = thought /\ new = [items |-> new.items, thought |-> new.thought]
  OBVIOUS
<1> HIDE DEF new
<1>2. \A k \in 1..(n + 1) : k \in 1..n \/ k = n + 1
  OBVIOUS
<1>3. \A k \in 1..n : k \in 1..(n + 1)
  OBVIOUS
<1>4. \A id : e.blocks[n + 1] # ToolUse(id)
  BY DEF ToolUse
<1>5. \A id : (\E k \in 1..(n + 1) : e.blocks[k] = ToolUse(id)) <=>
              (\E k \in 1..n : e.blocks[k] = ToolUse(id))
  BY <1>2, <1>3, <1>4
<1>6. BlocksTold(new, items, L, e, n + 1)
  BY <1>1, <1>2, <1>5 DEF BlocksTold
<1>7. QED
  BY <1>6 DEF new

LEMMA BlockUpserts ==
  ASSUME NEW acc, NEW items, NEW L, NEW e, NEW n \in Nat, BlocksTold(acc, items, L, e, n),
         NEW item, IsItem(item), item.kind \in Keyed, ~Streamed(item),
         item.kind # "user", item.kind = "thinking" => item.text \in Nat /\ item.text > 0,
         IF item.kind = "tool_call"
         THEN item.state = "running" /\ e.blocks[n + 1] = ToolUse(item.id)
         ELSE e.blocks[n + 1].type # "tool_use",
         NEW thought \in Nat
  PROVE  BlocksTold([items |-> Upsert(acc.items, item), thought |-> thought], items, L, e, n + 1)
<1> DEFINE new == [items |-> Upsert(acc.items, item), thought |-> thought]
           P == ToSet(acc.items)
           Q == ToSet(new.items)
<1>1. /\ new.items = Upsert(acc.items, item) /\ new.thought = thought
      /\ new = [items |-> new.items, thought |-> new.thought]
  OBVIOUS
<1>2. Table(new.items) /\ Q = {x \in P : ~Under(item.kind, item.id, x)} \cup {item}
  BY UpsertedItem DEF BlocksTold
<1>3. /\ Kept(ToSet(items), P) /\ Thoughts(P)
      /\ \A x \in P : ~Streamed(x)
      /\ \A x \in P : x.kind = "tool_call" =>
           x.state = IF \E k \in 1..n : e.blocks[k] = ToolUse(x.id) THEN "running"
                     ELSE ToolState(L, x.id)
      /\ \A k \in 1..n : e.blocks[k].type = "tool_use" =>
           \E x \in P : Under("tool_call", e.blocks[k].id, x)
  BY DEF BlocksTold
<1> HIDE DEF new, P, Q
<1>4. /\ \A k \in 1..(n + 1) : k \in 1..n \/ k = n + 1
      /\ \A k \in 1..n : k \in 1..(n + 1)
      /\ n + 1 \in 1..(n + 1)
  OBVIOUS
<1>5. \A x \in P : \E y \in Q : Under(x.kind, x.id, y)
  BY <1>2 DEF Under
<1>6. Kept(ToSet(items), Q)
  <2> SUFFICES ASSUME NEW x \in ToSet(items), x.kind \in {"tool_call", "user"}
               PROVE  \E y \in Q : Under(x.kind, x.id, y)
    BY DEF Kept
  <2>1. PICK z \in P : Under(x.kind, x.id, z)
    BY <1>3 DEF Kept
  <2>2. PICK y \in Q : Under(z.kind, z.id, y)
    BY <1>5
  <2>3. QED
    BY <2>1, <2>2 DEF Under
<1>7. Thoughts(Q) /\ \A x \in Q : ~Streamed(x)
  BY <1>2, <1>3 DEF Thoughts
<1>8. ASSUME NEW x \in Q, x.kind = "tool_call"
      PROVE  x.state = IF \E k \in 1..(n + 1) : e.blocks[k] = ToolUse(x.id) THEN "running"
                       ELSE ToolState(L, x.id)
  <2>1. CASE x = item
    BY <1>4, <1>8, <2>1
  <2>2. CASE x \in P /\ ~Under(item.kind, item.id, x)
    <3>1. e.blocks[n + 1] # ToolUse(x.id)
      <4>1. CASE item.kind = "tool_call"
        <5>1. ToolUse(item.id).id = item.id /\ ToolUse(x.id).id = x.id
          BY DEF ToolUse
        <5>2. item.id # x.id
          BY <1>8, <2>2, <4>1 DEF Under
        <5>3. QED
          BY <4>1, <5>1, <5>2
      <4>2. CASE item.kind # "tool_call"
        BY <4>2 DEF ToolUse
      <4>3. QED
        BY <4>1, <4>2
    <3>2. (\E k \in 1..(n + 1) : e.blocks[k] = ToolUse(x.id)) <=>
          (\E k \in 1..n : e.blocks[k] = ToolUse(x.id))
      BY <1>4, <3>1
    <3>3. QED
      BY <1>3, <1>8, <2>2, <3>2
  <2>3. QED
    BY <1>2, <2>1, <2>2
<1>9. ASSUME NEW k \in 1..(n + 1), e.blocks[k].type = "tool_use"
      PROVE  \E x \in Q : Under("tool_call", e.blocks[k].id, x)
  <2>1. CASE k \in 1..n
    <3>1. PICK x \in P : Under("tool_call", e.blocks[k].id, x)
      BY <1>3, <1>9, <2>1
    <3>2. QED
      BY <1>5, <3>1 DEF Under
  <2>2. CASE k = n + 1
    <3>1. item.kind = "tool_call" /\ e.blocks[k] = ToolUse(item.id)
      BY <1>9, <2>2
    <3>2. e.blocks[k].id = item.id
      BY <3>1 DEF ToolUse
    <3>3. QED
      BY <1>2, <3>1, <3>2 DEF Under
  <2>3. QED
    BY <1>4, <2>1, <2>2
<1>10. BlocksTold(new, items, L, e, n + 1)
  BY <1>1, <1>2, <1>6, <1>7, <1>8, <1>9 DEF BlocksTold, Q
<1>11. QED
  BY <1>10 DEF new

LEMMA BlockAdded ==
  ASSUME NEW acc, NEW items, NEW L, NEW e, NEW n \in Nat, BlocksTold(acc, items, L, e, n),
         IsBlock(e.blocks[n + 1]), NEW id, id # Streaming, id # StreamingThinking
  PROVE  BlocksTold(AddBlock(acc, e.blocks[n + 1], id), items, L, e, n + 1)
<1> DEFINE block == e.blocks[n + 1]
           new == AddBlock(acc, block, id)
<1>1. /\ acc = [items |-> acc.items, thought |-> acc.thought] /\ acc.thought \in Nat
      /\ \A its, th : [items |-> its, thought |-> th].items = its
      /\ \A its : [acc EXCEPT !.items = its] = [items |-> its, thought |-> acc.thought]
  BY DEF BlocksTold
<1>2. CASE block.type = "text"
  <2> DEFINE item == Item("assistant_text", id, "complete", block.text)
  <2>1. item.kind = "assistant_text" /\ item.id = id /\ IsItem(item)
    BY ItemFields
  <2>2. new = [items |-> Upsert(acc.items, item), thought |-> acc.thought]
    BY <1>1, <1>2 DEF AddBlock
  <2> HIDE DEF item, new
  <2>3. ~Streamed(item) /\ item.kind \in Keyed
    BY <2>1 DEF Streamed, Keyed
  <2>4. BlocksTold([items |-> Upsert(acc.items, item), thought |-> acc.thought], items, L, e, n + 1)
    BY <1>1, <1>2, <2>1, <2>3, BlockUpserts
  <2>5. QED
    BY <2>2, <2>4 DEF new
<1>3. CASE block.type = "thinking"
  <2> DEFINE thought == IF block.text > 0 THEN block.text ELSE acc.thought
             item == Item("thinking", id, "complete", thought)
  <2>1. item.kind = "thinking" /\ item.id = id /\ item.text = thought /\ IsItem(item)
    BY ItemFields
  <2>2. new = [items |-> IF thought = 0 THEN acc.items ELSE Upsert(acc.items, item), thought |-> 0]
    BY <1>3 DEF AddBlock
  <2>3. thought \in Nat
    BY <1>1, <1>3 DEF IsBlock
  <2> HIDE DEF item, thought, new
  <2>4. CASE thought = 0
    <3>1. BlocksTold([items |-> acc.items, thought |-> 0], items, L, e, n + 1)
      BY <1>3, BlockQuiet
    <3>2. QED
      BY <2>2, <2>4, <3>1 DEF new
  <2>5. CASE thought # 0
    <3>1. ~Streamed(item) /\ item.kind \in Keyed
      BY <2>1 DEF Streamed, Keyed
    <3>2. item.text \in Nat /\ item.text > 0
      BY <2>1, <2>3, <2>5
    <3>3. BlocksTold([items |-> Upsert(acc.items, item), thought |-> 0], items, L, e, n + 1)
      BY <1>3, <2>1, <3>1, <3>2, BlockUpserts
    <3>4. QED
      BY <2>2, <2>5, <3>3 DEF new
  <2>6. QED
    BY <2>4, <2>5
<1>4. CASE block.type = "tool_use"
  <2> DEFINE item == Item("tool_call", block.id, "running", 0)
  <2>1. item.kind = "tool_call" /\ item.id = block.id /\ item.state = "running" /\ IsItem(item)
    BY ItemFields
  <2>2. new = [items |-> Upsert(acc.items, item), thought |-> acc.thought]
    BY <1>1, <1>4 DEF AddBlock
  <2>3. block = ToolUse(block.id)
    BY <1>4 DEF IsBlock
  <2> HIDE DEF item, new
  <2>4. ~Streamed(item) /\ item.kind \in Keyed
    BY <2>1 DEF Streamed, Keyed
  <2>5. BlocksTold([items |-> Upsert(acc.items, item), thought |-> acc.thought], items, L, e, n + 1)
    BY <1>1, <2>1, <2>3, <2>4, BlockUpserts
  <2>6. QED
    BY <2>2, <2>5 DEF new
<1>5. CASE block.type \notin {"text", "thinking", "tool_use"}
  <2>1. new = [items |-> acc.items, thought |-> acc.thought]
    BY <1>1, <1>5 DEF AddBlock
  <2>2. BlocksTold([items |-> acc.items, thought |-> acc.thought], items, L, e, n + 1)
    BY <1>1, <1>5, BlockQuiet
  <2>3. QED
    BY <2>1, <2>2
<1>6. QED
  BY <1>2, <1>3, <1>4, <1>5

LEMMA ToldStart ==
  ASSUME NEW L, IsSeq(L), NEW items, Told(items, L), NEW e
  PROVE  BlocksTold(Start(items), items, L, e, 0)
<1> DEFINE acc == Start(items)
           R == ToSet(items)
           S == {item \in R : Streamed(item)}
           Q == ToSet(acc.items)
<1>1. /\ acc = [items |-> acc.items, thought |-> acc.thought]
      /\ acc.items = Without(items, S)
      /\ acc.thought = TextOf(items, "thinking", StreamingThinking)
  BY DEF Start
<1>2. acc.thought \in Nat
  BY <1>1, StreamedText, PiecesAreNat
<1>3. Table(acc.items) /\ Q = R \ S
  BY <1>1, TableWithout DEF Told
<1>4. Tells(R, L)
  BY DEF Told
<1>5. \A x \in Q : x \in R /\ ~Streamed(x)
  BY <1>3
<1>6. \A x \in R : x.kind \in {"tool_call", "user"} => x \in Q
  BY <1>3 DEF Streamed
<1>7. /\ \A k \in 1..0 : FALSE
      /\ \A id : ~\E k \in 1..0 : e.blocks[k] = ToolUse(id)
  OBVIOUS
<1> HIDE DEF acc, Q, R
<1>8. Kept(R, Q) /\ Thoughts(Q)
  BY <1>4, <1>5, <1>6 DEF Kept, Thoughts, Tells, Under
<1>9. \A x \in Q : x.kind = "tool_call" => x.state = ToolState(L, x.id)
  BY <1>4, <1>5 DEF Tells, CallsTold
<1>10. BlocksTold(acc, items, L, e, 0)
  BY <1>1, <1>2, <1>3, <1>5, <1>7, <1>8, <1>9 DEF BlocksTold, Q, R
<1>11. QED
  BY <1>10 DEF acc

LEMMA ToldAssistant ==
  ASSUME NEW L, IsSeq(L), NEW e, NEW items, Told(items, L),
         e.type = "assistant_message", WellFormed(e)
  PROVE  Told(Assistant(items, e), Append(L, e))
<1> DEFINE N == Len(e.blocks)
           after == CHOOSE f : f = [n \in 0..N |-> BlockStep(f, items, e, n)]
           acc == after[N]
           K == {n \in Nat : n <= N => BlocksTold(after[n], items, L, e, n)}
<1>1. /\ N \in Nat /\ DOMAIN e.blocks = 1..N /\ ToSet(e.blocks) = {e.blocks[k] : k \in 1..N}
      /\ \A k \in 1..N : IsBlock(e.blocks[k])
  <2>1. IsSeq(e.blocks) /\ \A b \in ToSet(e.blocks) : IsBlock(b)
    BY DEF WellFormed, IsSeq
  <2>2. QED
    BY <2>1, Length
<1>2. after = [n \in 0..N |-> BlockStep(after, items, e, n)]
  BY <1>1, BlocksExist
<1>3. Assistant(items, e) = acc.items
  BY DEF Assistant, BlockStep, Start
<1> HIDE DEF N, after
<1>4. \A n \in 0..N : after[n] = BlockStep(after, items, e, n)
  BY <1>2
<1>5. 0 \in K
  <2>1. after[0] = Start(items)
    <3>1. 0 \in 0..N
      BY <1>1
    <3>2. after[0] = BlockStep(after, items, e, 0)
      BY <1>4, <3>1
    <3>3. QED
      BY <3>2 DEF BlockStep
  <2>2. QED
    BY <2>1, ToldStart
<1>6. ASSUME NEW n \in K
      PROVE  n + 1 \in K
  <2> SUFFICES ASSUME n + 1 <= N
               PROVE  BlocksTold(after[n + 1], items, L, e, n + 1)
    BY n \in Nat
  <2>1. n \in Nat /\ n <= N /\ n + 1 \in 0..N /\ n + 1 \in 1..N /\ (n + 1) - 1 = n /\ n + 1 # 0
    BY <1>1
  <2> DEFINE id == <<e.uuid, n + 1>>
  <2>2. BlocksTold(after[n], items, L, e, n)
    BY <2>1
  <2>3. after[n + 1] = AddBlock(after[n], e.blocks[n + 1], id)
    BY <1>4, <2>1 DEF BlockStep
  <2>4. id # Streaming /\ id # StreamingThinking
    BY DEF Streaming, StreamingThinking
  <2>5. IsBlock(e.blocks[n + 1])
    BY <1>1, <2>1
  <2> HIDE DEF id
  <2>6. BlocksTold(AddBlock(after[n], e.blocks[n + 1], id), items, L, e, n + 1)
    BY <2>1, <2>2, <2>4, <2>5, BlockAdded
  <2>7. QED
    BY <2>3, <2>6
<1>7. K = Nat
  <2>1. K \in SUBSET Nat
    OBVIOUS
  <2> HIDE DEF K
  <2>2. QED
    BY <1>5, <1>6, <2>1, StepByStep
<1>8. BlocksTold(acc, items, L, e, N)
  <2>1. N \in K
    BY <1>1, <1>7
  <2>2. QED
    BY <1>1, <2>1
<1> DEFINE R == ToSet(items)
           Q == ToSet(acc.items)
<1>9. Tells(R, L)
  BY DEF Told
<1>10. /\ Table(acc.items) /\ Kept(R, Q) /\ Thoughts(Q)
       /\ \A x \in Q : ~Streamed(x)
       /\ \A x \in Q : x.kind = "tool_call" =>
            x.state = IF \E k \in 1..N : e.blocks[k] = ToolUse(x.id) THEN "running"
                      ELSE ToolState(L, x.id)
       /\ \A k \in 1..N : e.blocks[k].type = "tool_use" =>
            \E x \in Q : Under("tool_call", e.blocks[k].id, x)
  BY <1>8 DEF BlocksTold
<1> HIDE DEF acc, R, Q, K
<1>11. \A id : UsesTool(e, id) <=> \E k \in 1..N : e.blocks[k] = ToolUse(id)
  BY <1>1 DEF UsesTool
<1>12. \A x \in Q : x.kind = "tool_call" =>
         x.state = IF UsesTool(e, x.id) THEN "running" ELSE ToolState(L, x.id)
  BY <1>10, <1>11
<1>13. \A b \in ToSet(e.blocks) : b.type = "tool_use" => \E x \in Q : Under("tool_call", b.id, x)
  BY <1>1, <1>10
<1>14. /\ More(L, e, "text_delta") = 0
       /\ More(L, e, "thinking_delta") = 0
  BY DEF More
<1>15. /\ StreamTold(Q, "assistant_text", Streaming, More(L, e, "text_delta"))
       /\ StreamTold(Q, "thinking", StreamingThinking, More(L, e, "thinking_delta"))
  BY <1>10, <1>14 DEF StreamTold, Streamed, Under
<1>16. e.type \notin Words /\ e.type # "user_message"
  BY DEF Words
<1>17. Tells(Q, Append(L, e))
  BY <1>9, <1>10, <1>12, <1>13, <1>15, <1>16, TellsNext
<1>18. QED
  BY <1>3, <1>10, <1>17 DEF Told, Q

-----------------------------------------------------------------------------
(* The transcript after any event.                                         *)

LEMMA ToldAfter ==
  ASSUME NEW L, IsSeq(L), NEW e, NEW items, Told(items, L), WellFormed(e), NEW seq
  PROVE  Told(ItemsAfter(items, seq, e), Append(L, e))
<1> DEFINE new == ItemsAfter(items, seq, e)
           item == Item(e.type, seq, "complete", 1)
<1>1. item.kind = e.type /\ IsItem(item)
  BY ItemFields
<1>2. CASE e.type = "user_message"
  BY <1>2, ToldUser DEF ItemsAfter
<1>3. CASE e.type \in Words
  <2>1. new = ToolBecomes(items, e.id, Word(e))
    BY <1>3 DEF ItemsAfter, Word, Words
  <2>2. QED
    BY <1>3, <2>1, ToldWord
<1>4. CASE e.type = "assistant_message"
  BY <1>4, ToldAssistant DEF ItemsAfter
<1>5. CASE e.type \in {"text_delta", "thinking_delta"}
  BY <1>5, ToldPiece DEF ItemsAfter
<1>6. CASE e.type \in {"turn_result", "file_delivered", "session_error", "session_closed"}
  <2>1. new = Append(items, item)
    BY <1>6 DEF ItemsAfter
  <2>2. /\ e.type \notin Words \cup {"assistant_message", "user_message", "text_delta",
                                     "thinking_delta"}
        /\ e.type \notin Keyed
    BY <1>6 DEF Words, Keyed
  <2> HIDE DEF new, item
  <2>3. QED
    BY <1>1, <2>1, <2>2, ToldQuiet DEF new
<1>7. CASE e.type \notin Words \cup {"assistant_message", "user_message", "text_delta",
                                     "thinking_delta", "turn_result", "file_delivered",
                                     "session_error", "session_closed"}
  <2>1. new = items
    BY <1>7 DEF ItemsAfter, Words
  <2> DEFINE other == Item("notice", seq, "complete", 1)
  <2>2. other.kind = "notice" /\ IsItem(other)
    BY ItemFields
  <2>3. other.kind \notin Keyed
    BY <2>2 DEF Keyed
  <2> HIDE DEF new, other
  <2>4. QED
    BY <1>7, <2>1, <2>2, <2>3, ToldQuiet DEF new
<1>8. QED
  BY <1>2, <1>3, <1>4, <1>5, <1>6, <1>7

\* The questions that were asked and not resolved.
Pending(L) == {k \in Of(L, {"permission_requested"}) :
                 ~\E r \in Of(L, {"permission_resolved"}) : r > k /\ L[r].id = L[k].id}
Asked(L) == {L[i].id : i \in Pending(L)}

LEMMA AskedNext ==
  ASSUME NEW L, IsSeq(L), NEW e
  PROVE  Asked(Append(L, e)) =
           CASE e.type = "permission_requested" -> Asked(L) \cup {e.id}
             [] e.type = "permission_resolved"  -> Asked(L) \ {e.id}
             [] OTHER -> Asked(L)
<1> DEFINE M == Append(L, e)
           n == Len(L)
           asks == {"permission_requested"}
           answers == {"permission_resolved"}
<1>1. /\ n \in Nat /\ \A i \in 1..n : M[i] = L[i]
      /\ M[n + 1] = e
  BY LogNext
<1>2. /\ Of(L, asks) \in SUBSET (1..n) /\ Of(L, answers) \in SUBSET (1..n)
      /\ Of(M, asks) = Of(L, asks) \cup (IF e.type \in asks THEN {n + 1} ELSE {})
      /\ Of(M, answers) = Of(L, answers) \cup (IF e.type \in answers THEN {n + 1} ELSE {})
  BY OfNext
<1> HIDE DEF M, n
<1>3. /\ \A k \in Of(L, asks) : M[k] = L[k]
      /\ \A r \in Of(L, answers) : M[r] = L[r]
      /\ \A k \in Of(L, asks) : n + 1 > k
      /\ \A r \in Of(L, answers) : ~(r > n + 1)
  BY <1>1, <1>2
<1>4. CASE e.type = "permission_requested"
  <2>1. Of(M, asks) = Of(L, asks) \cup {n + 1} /\ Of(M, answers) = Of(L, answers)
    BY <1>2, <1>4
  <2>2. Pending(M) = Pending(L) \cup {n + 1}
    BY <1>3, <2>1 DEF Pending
  <2>3. \A k \in Pending(L) : M[k] = L[k]
    BY <1>3 DEF Pending
  <2>4. Asked(M) = Asked(L) \cup {e.id}
    BY <1>1, <2>2, <2>3 DEF Asked
  <2>5. QED
    BY <1>4, <2>4 DEF M
<1>5. CASE e.type = "permission_resolved"
  <2>1. Of(M, asks) = Of(L, asks) /\ Of(M, answers) = Of(L, answers) \cup {n + 1}
    BY <1>2, <1>5
  <2>2. Pending(M) = {k \in Pending(L) : L[k].id # e.id}
    BY <1>1, <1>3, <2>1 DEF Pending
  <2>3. \A k \in Pending(L) : M[k] = L[k]
    BY <1>3 DEF Pending
  <2>4. Asked(M) = Asked(L) \ {e.id}
    BY <2>2, <2>3 DEF Asked
  <2>5. QED
    BY <1>5, <2>4 DEF M
<1>6. CASE e.type \notin {"permission_requested", "permission_resolved"}
  <2>1. Of(M, asks) = Of(L, asks) /\ Of(M, answers) = Of(L, answers)
    BY <1>2, <1>6
  <2>2. Pending(M) = Pending(L)
    BY <1>3, <2>1 DEF Pending
  <2>3. \A k \in Pending(L) : M[k] = L[k]
    BY <1>3 DEF Pending
  <2>4. Asked(M) = Asked(L)
    BY <2>2, <2>3 DEF Asked
  <2>5. QED
    BY <1>6, <2>4 DEF M
<1>7. QED
  BY <1>4, <1>5, <1>6

LEMMA ApprovalsNext ==
  ASSUME NEW L, IsSeq(L), NEW e, NEW approvals, IsSeq(approvals), ToSet(approvals) = Asked(L)
  PROVE  /\ IsSeq(ApprovalsAfter(approvals, e))
         /\ ToSet(ApprovalsAfter(approvals, e)) = Asked(Append(L, e))
<1>1. CASE e.type = "permission_requested"
  <2>1. ApprovalsAfter(approvals, e) = Append(approvals, e.id)
    BY <1>1 DEF ApprovalsAfter
  <2>2. /\ IsSeq(Append(approvals, e.id))
        /\ ToSet(Append(approvals, e.id)) = ToSet(approvals) \cup {e.id}
    BY Appended
  <2>3. Asked(Append(L, e)) = Asked(L) \cup {e.id}
    BY <1>1, AskedNext
  <2>4. QED
    BY <2>1, <2>2, <2>3
<1>2. CASE e.type = "permission_resolved"
  <2>1. ApprovalsAfter(approvals, e) = Without(approvals, {e.id})
    BY <1>2 DEF ApprovalsAfter
  <2>2. /\ IsSeq(Without(approvals, {e.id}))
        /\ ToSet(Without(approvals, {e.id})) = ToSet(approvals) \ {e.id}
    BY WithoutThese
  <2>3. Asked(Append(L, e)) = Asked(L) \ {e.id}
    BY <1>2, AskedNext
  <2>4. QED
    BY <2>1, <2>2, <2>3
<1>3. CASE e.type \notin {"permission_requested", "permission_resolved"}
  <2>1. ApprovalsAfter(approvals, e) = approvals
    BY <1>3 DEF ApprovalsAfter
  <2>2. Asked(Append(L, e)) = Asked(L)
    BY <1>3, AskedNext
  <2>3. QED
    BY <2>1, <2>2
<1>4. QED
  BY <1>1, <1>2, <1>3

\* A transcript that tells its log shows it.
LEMMA ToldIsShown ==
  ASSUME NEW state, NEW L, IsSeq(L), Told(state.items, L), ToSet(state.approvals) = Asked(L)
  PROVE  Shows(state, L)
<1> DEFINE items == state.items
           R == ToSet(items)
<1>1. Table(items) /\ Tells(R, L)
  BY DEF Told
<1>2. ASSUME NEW i \in Of(L, {"assistant_message"}), NEW k \in DOMAIN L[i].blocks,
             L[i].blocks[k].type = "tool_use"
      PROVE  LET id == L[i].blocks[k].id
                 at == At(items, "tool_call", id)
             IN  Cardinality(at) = 1 /\ \A n \in at : items[n].state = ToolState(L, id)
  <2> DEFINE id == L[i].blocks[k].id
  <2>1. L[i].blocks[k] \in ToSet(L[i].blocks)
    BY DEF ToSet
  <2>2. PICK x \in R : Under("tool_call", id, x)
    BY <1>1, <1>2, <2>1 DEF Tells, CallsTold
  <2>3. x.state = ToolState(L, id) /\ x.kind = "tool_call" /\ x.id = id
    BY <1>1, <2>2 DEF Tells, CallsTold, Under
  <2>4. /\ Cardinality(At(items, x.kind, x.id)) = 1
        /\ \A n \in At(items, x.kind, x.id) : items[n] = x
    BY <1>1, <2>3, Counted DEF Keyed
  <2> HIDE DEF id
  <2>5. Cardinality(At(items, "tool_call", id)) = 1
    BY <2>3, <2>4
  <2>6. \A n \in At(items, "tool_call", id) : items[n].state = ToolState(L, id)
    BY <2>3, <2>4
  <2>7. QED
    BY <2>5, <2>6 DEF id
<1>3. ASSUME NEW i \in Of(L, {"user_message"})
      PROVE  Cardinality(At(items, "user", L[i].uuid)) = 1
  <2>1. PICK x \in R : Under("user", L[i].uuid, x)
    BY <1>1 DEF Tells, UsersTold
  <2>2. x.kind = "user" /\ x.id = L[i].uuid
    BY <2>1 DEF Under
  <2>3. Cardinality(At(items, x.kind, x.id)) = 1
    BY <1>1, <2>2, Counted DEF Keyed
  <2>4. QED
    BY <2>2, <2>3
<1>4. /\ TextOf(items, "assistant_text", Streaming) = Pieces(L, "text_delta")
      /\ TextOf(items, "thinking", StreamingThinking) = Pieces(L, "thinking_delta")
  BY StreamedText
<1>5. \A i \in DOMAIN items : items[i].kind = "thinking" => items[i].text > 0
  <2>1. \A i \in DOMAIN items : items[i] \in R
    BY DEF ToSet
  <2>2. QED
    BY <1>1, <2>1 DEF Tells, Thoughts
<1>6. ToSet(state.approvals) =
        {L[i].id : i \in {k \in Of(L, {"permission_requested"}) :
          ~\E r \in Of(L, {"permission_resolved"}) : r > k /\ L[r].id = L[k].id}}
  BY DEF Asked, Pending
<1>7. QED
  BY <1>2, <1>3, <1>4, <1>5, <1>6 DEF Shows

-----------------------------------------------------------------------------
(* The wire of any session, of a job's too, whose result its handles may   *)
(* be sent after the end that the result brought about.                    *)

Skipped(e) == e.type = "turn_result"
IsEvent(frame, n) == frame.type = "event" /\ frame.seq = n

\* Of the events after the a-th, up to the m-th, none but a result is missing
\* among the first k frames.
Ahead(d, k, a, m, L) ==
    \A n \in (a + 1)..m : Skipped(L[n]) \/ \E j \in 1..k : IsEvent(d[j], n)
\* So it is before every event on the wire, and up to the m-th of the log.
Sent(d, a, m, L) ==
    /\ IsSeq(d) /\ m \in Nat /\ m <= Len(L)
    /\ \A i \in 1..Len(d) : d[i].type = "event" =>
         d[i].seq \in 1..Len(L) /\ Ahead(d, i - 1, a, d[i].seq - 1, L)
    /\ Ahead(d, Len(d), a, m, L)

LEMMA SentLogGrows ==
  ASSUME NEW d, NEW a \in Nat, NEW m, NEW L, NEW t, IsSeq(L), IsSeq(t), Sent(d, a, m, L)
  PROVE  Sent(d, a, m, L \o t)
<1> DEFINE M == L \o t
<1>1. /\ Len(M) = Len(L) + Len(t) /\ Len(L) \in Nat /\ Len(t) \in Nat
      /\ \A n \in 1..Len(L) : M[n] = L[n]
  BY Joined, Length
<1> HIDE DEF M
<1>2. ASSUME NEW k, NEW b \in Int, b <= Len(L), Ahead(d, k, a, b, L)
      PROVE  Ahead(d, k, a, b, M)
  <2>1. \A n \in (a + 1)..b : n \in 1..Len(L)
    BY <1>1, <1>2
  <2>2. QED
    BY <1>1, <1>2, <2>1 DEF Ahead
<1>3. IsSeq(d) /\ m \in Nat /\ m <= Len(L) /\ m <= Len(M) /\ Ahead(d, Len(d), a, m, M)
  BY <1>1, <1>2 DEF Sent
<1>4. ASSUME NEW i \in 1..Len(d), d[i].type = "event"
      PROVE  d[i].seq \in 1..Len(M) /\ Ahead(d, i - 1, a, d[i].seq - 1, M)
  <2>1. d[i].seq \in 1..Len(L) /\ Ahead(d, i - 1, a, d[i].seq - 1, L)
    BY <1>4 DEF Sent
  <2>2. d[i].seq - 1 \in Int /\ d[i].seq - 1 <= Len(L) /\ d[i].seq \in 1..Len(M)
    BY <1>1, <2>1
  <2>3. QED
    BY <1>2, <2>1, <2>2
<1>5. QED
  BY <1>3, <1>4 DEF Sent, M

LEMMA SentSkipped ==
  ASSUME NEW d, NEW a \in Nat, NEW m, NEW L, IsSeq(L), Sent(d, a, m, L), m + 1 <= Len(L),
         Skipped(L[m + 1])
  PROVE  Sent(d, a, m + 1, L)
<1>1. m \in Nat
  BY DEF Sent
<1>2. \A n \in (a + 1)..(m + 1) : n \in (a + 1)..m \/ n = m + 1
  BY <1>1
<1>3. QED
  BY <1>1, <1>2 DEF Sent, Ahead

LEMMA SentOneMore ==
  ASSUME NEW d, NEW a \in Nat, NEW m, NEW L, IsSeq(L), Sent(d, a, m, L), NEW frame
  PROVE  /\ frame.type # "event" => Sent(Append(d, frame), a, m, L)
         /\ IsEvent(frame, m + 1) /\ m + 1 <= Len(L) => Sent(Append(d, frame), a, m + 1, L)
         /\ \A n \in 1..m : IsEvent(frame, n) => Sent(Append(d, frame), a, m, L)
<1> DEFINE u == Append(d, frame)
<1>1. IsSeq(d) /\ m \in Nat /\ m <= Len(L) /\ Len(d) \in Nat /\ Len(L) \in Nat
  BY Length DEF Sent
<1>2. /\ IsSeq(u) /\ Len(u) = Len(d) + 1 /\ (\A i \in 1..Len(d) : u[i] = d[i])
      /\ u[Len(d) + 1] = frame
  BY <1>1, Appended
<1> HIDE DEF u
<1>3. ASSUME NEW k \in Nat, k <= Len(d), NEW b, Ahead(d, k, a, b, L)
      PROVE  Ahead(u, k, a, b, L)
  <2>1. \A j \in 1..k : u[j] = d[j]
    BY <1>1, <1>2, <1>3
  <2>2. QED
    BY <1>3, <2>1 DEF Ahead
<1>4. ASSUME NEW i \in 1..Len(d), u[i].type = "event"
      PROVE  u[i].seq \in 1..Len(L) /\ Ahead(u, i - 1, a, u[i].seq - 1, L)
  <2>1. d[i].seq \in 1..Len(L) /\ Ahead(d, i - 1, a, d[i].seq - 1, L) /\ u[i] = d[i]
    BY <1>2, <1>4 DEF Sent
  <2>2. i - 1 \in Nat /\ i - 1 <= Len(d)
    BY <1>1
  <2>3. QED
    BY <1>3, <2>1, <2>2
<1>5. Ahead(d, Len(d), a, m, L) /\ Ahead(u, Len(d), a, m, L) /\ Ahead(u, Len(u), a, m, L)
  <2>1. Ahead(d, Len(d), a, m, L) /\ Ahead(u, Len(d), a, m, L)
    BY <1>1, <1>3 DEF Sent
  <2>2. \A j \in 1..Len(d) : j \in 1..Len(u)
    BY <1>1, <1>2
  <2>3. QED
    BY <2>1, <2>2 DEF Ahead
<1>6. \A i \in 1..Len(u) : i \in 1..Len(d) \/ i = Len(d) + 1
  BY <1>1, <1>2
<1>7. CASE frame.type # "event"
  <2>1. \A i \in 1..Len(u) : u[i].type = "event" =>
          u[i].seq \in 1..Len(L) /\ Ahead(u, i - 1, a, u[i].seq - 1, L)
    BY <1>2, <1>4, <1>6, <1>7
  <2>2. Sent(u, a, m, L)
    BY <1>1, <1>2, <1>5, <2>1 DEF Sent
  <2>3. QED
    BY <1>7, <2>2 DEF IsEvent, u
<1>8. ASSUME NEW n \in 1..(m + 1), IsEvent(frame, n), n <= Len(L), NEW b \in {m, n}, m <= b
      PROVE  Sent(u, a, b, L)
  <2>1. u[Len(d) + 1].seq \in 1..Len(L) /\ Ahead(u, (Len(d) + 1) - 1, a, n - 1, L)
    <3>1. u[Len(d) + 1].seq \in 1..Len(L)
      BY <1>1, <1>2, <1>8 DEF IsEvent
    <3>2. (Len(d) + 1) - 1 = Len(d) /\ \A k \in (a + 1)..(n - 1) : k \in (a + 1)..m
      BY <1>1
    <3>3. Ahead(u, Len(d), a, n - 1, L)
      BY <1>5, <3>2 DEF Ahead
    <3>4. QED
      BY <3>1, <3>2, <3>3
  <2>2. Ahead(u, Len(u), a, b, L)
    <3>1. \A k \in (a + 1)..b : k \in (a + 1)..m \/ (k = n /\ b = n)
      BY <1>1, <1>8
    <3>2. Len(d) + 1 \in 1..Len(u) /\ IsEvent(u[Len(d) + 1], n)
      BY <1>1, <1>2, <1>8
    <3>3. QED
      BY <1>5, <3>1, <3>2 DEF Ahead
  <2>3. b \in Nat /\ b <= Len(L)
    BY <1>1, <1>8
  <2>4. \A i \in 1..Len(u) : u[i].type = "event" =>
          u[i].seq \in 1..Len(L) /\ Ahead(u, i - 1, a, u[i].seq - 1, L)
    BY <1>2, <1>4, <1>6, <1>8, <2>1 DEF IsEvent
  <2>5. QED
    BY <1>2, <2>2, <2>3, <2>4 DEF Sent
<1>9. IsEvent(frame, m + 1) /\ m + 1 <= Len(L) => Sent(u, a, m + 1, L)
  BY <1>1, <1>8
<1>10. \A n \in 1..m : IsEvent(frame, n) => Sent(u, a, m, L)
  BY <1>1, <1>8
<1>11. QED
  BY <1>7, <1>9, <1>10 DEF u

\* The handle takes the first frame, and has had the event it carries.
LEMMA SentTaken ==
  ASSUME NEW d, NEW a \in Nat, NEW m, NEW L, Sent(d, a, m, L), d # <<>>,
         NEW b \in Nat, a <= b, Head(d).type = "event" => Head(d).seq <= b
  PROVE  Sent(Tail(d), b, m, L)
<1> DEFINE t == Tail(d)
<1>1. /\ IsSeq(d) /\ IsSeq(t) /\ Len(d) \in Nat /\ Len(d) >= 1 /\ Len(t) = Len(d) - 1
      /\ \A i \in 1..(Len(d) - 1) : t[i] = d[i + 1]
      /\ Head(d) = d[1]
  BY Popped, Length DEF Sent
<1> HIDE DEF t
<1>2. ASSUME NEW k \in Nat, k + 1 <= Len(d), NEW c, Ahead(d, k + 1, a, c, L)
      PROVE  Ahead(t, k, b, c, L)
  <2> SUFFICES ASSUME NEW n \in (b + 1)..c, ~Skipped(L[n])
               PROVE  \E j \in 1..k : IsEvent(t[j], n)
    BY DEF Ahead
  <2>1. n \in Int /\ b < n /\ n \in (a + 1)..c
    OBVIOUS
  <2>2. PICK j \in 1..(k + 1) : IsEvent(d[j], n)
    BY <1>2, <2>1 DEF Ahead
  <2>3. j # 1
    <3> SUFFICES ASSUME j = 1 PROVE FALSE
      OBVIOUS
    <3>1. Head(d).type = "event" /\ Head(d).seq = n
      BY <1>1, <2>2 DEF IsEvent
    <3>2. QED
      BY <2>1, <3>1
  <2>4. j - 1 \in 1..k /\ j - 1 \in 1..(Len(d) - 1) /\ (j - 1) + 1 = j
    BY <1>1, <1>2, <2>3
  <2>5. t[j - 1] = d[j]
    BY <1>1, <2>4
  <2>6. QED
    BY <2>2, <2>4, <2>5
<1>3. ASSUME NEW i \in 1..Len(t), t[i].type = "event"
      PROVE  t[i].seq \in 1..Len(L) /\ Ahead(t, i - 1, b, t[i].seq - 1, L)
  <2>1. i + 1 \in 1..Len(d) /\ t[i] = d[i + 1] /\ (i - 1) + 1 = i /\ (i + 1) - 1 = i
        /\ i - 1 \in Nat /\ i <= Len(d)
    BY <1>1
  <2>2. t[i].seq \in 1..Len(L) /\ Ahead(d, (i - 1) + 1, a, t[i].seq - 1, L)
    BY <1>3, <2>1 DEF Sent
  <2>3. QED
    BY <1>2, <2>1, <2>2
<1>4. Len(t) \in Nat /\ Len(t) + 1 = Len(d)
  BY <1>1
<1>5. Ahead(t, Len(t), b, m, L)
  BY <1>2, <1>4 DEF Sent
<1>6. QED
  BY <1>1, <1>3, <1>5 DEF Sent, t

\* The replay of an attached handle.
LEMMA SentReplay ==
  ASSUME NEW L, NEW a \in Nat, NEW n \in Nat, Len(L) = a + n, NEW d, IsSeq(d), Len(d) = 1 + n,
         d[1].type # "event", \A i \in 1..n : IsEvent(d[1 + i], a + i)
  PROVE  Sent(d, a, Len(L), L)
<1>1. ASSUME NEW k \in 0..n PROVE Ahead(d, 1 + k, a, a + k, L)
  <2> SUFFICES ASSUME NEW m \in (a + 1)..(a + k) PROVE \E j \in 1..(1 + k) : IsEvent(d[j], m)
    BY DEF Ahead
  <2>1. m - a \in 1..n /\ a + (m - a) = m /\ 1 + (m - a) \in 1..(1 + k)
    OBVIOUS
  <2>2. QED
    BY <2>1
<1>2. Ahead(d, Len(d), a, Len(L), L)
  BY <1>1
<1>3. ASSUME NEW i \in 1..Len(d), d[i].type = "event"
      PROVE  d[i].seq \in 1..Len(L) /\ Ahead(d, i - 1, a, d[i].seq - 1, L)
  <2>1. i # 1
    BY <1>3
  <2>2. i - 1 \in 1..n /\ 1 + (i - 1) = i /\ i - 2 \in 0..n /\ 1 + (i - 2) = i - 1
        /\ (a + (i - 1)) - 1 = a + (i - 2) /\ a + (i - 1) \in 1..Len(L)
    BY <2>1
  <2>3. d[i].seq = a + (i - 1)
    BY <2>2 DEF IsEvent
  <2>4. Ahead(d, 1 + (i - 2), a, a + (i - 2), L)
    BY <1>1, <2>2
  <2>5. QED
    BY <2>2, <2>3, <2>4
<1>4. QED
  BY <1>2, <1>3 DEF Sent

-----------------------------------------------------------------------------
(* A page tells its log as far as it has folded it, whatever the log goes  *)
(* on to say.                                                              *)

Page(v, L) ==
    /\ v = [lastSeq |-> v.lastSeq, status |-> v.status,
            items |-> v.items, approvals |-> v.approvals]
    /\ v.lastSeq \in Nat /\ v.lastSeq <= Len(L)
    /\ Told(v.items, SubSeq(L, 1, v.lastSeq))
    /\ IsSeq(v.approvals) /\ ToSet(v.approvals) = Asked(SubSeq(L, 1, v.lastSeq))

LEMMA EmptyPage == Page(InitialTranscript, <<>>)
<1>1. SubSeq(<<>>, 1, 0) = <<>>
  BY SubSeqEmpty
<1>2. \A types : Of(<<>>, types) = {}
  BY DEF Of
<1>3. /\ Pieces(<<>>, "text_delta") = 0
      /\ Pieces(<<>>, "thinking_delta") = 0
  <2>1. Cardinality({}) = 0
    BY FS_EmptySet
  <2>2. ASSUME NEW type PROVE Pieces(<<>>, type) = 0
    <3>1. {i \in Of(<<>>, {type}) : i > Latest(<<>>, Of(<<>>, {"assistant_message"}))} = {}
      BY <1>2
    <3>2. QED
      BY <2>1, <3>1 DEF Pieces
  <2>3. QED
    BY <2>2
<1>4. IsSeq(<<>>) /\ Len(<<>>) = 0 /\ ToSet(<<>>) = {}
  BY Empty
<1>5. Told(<<>>, <<>>)
  <2>1. Table(<<>>)
    BY <1>4 DEF Table, OneEach
  <2>2. Tells({}, <<>>)
    BY <1>2, <1>3 DEF Tells, CallsTold, UsersTold, Thoughts, StreamTold
  <2>3. QED
    BY <1>4, <2>1, <2>2 DEF Told
<1>6. Asked(<<>>) = {}
  BY <1>2 DEF Asked, Pending
<1> SUFFICES ASSUME NEW v, v = InitialTranscript PROVE Page(v, <<>>)
  OBVIOUS
<1>7. /\ v = [lastSeq |-> 0, status |-> "starting", items |-> <<>>, approvals |-> <<>>]
      /\ v.lastSeq = 0 /\ v.status = "starting" /\ v.items = <<>> /\ v.approvals = <<>>
  BY DEF InitialTranscript
<1>8. SubSeq(<<>>, 1, v.lastSeq) = <<>>
  BY <1>1, <1>7
<1>9. /\ v = [lastSeq |-> v.lastSeq, status |-> v.status,
              items |-> v.items, approvals |-> v.approvals]
      /\ v.lastSeq \in Nat /\ v.lastSeq <= Len(<<>>)
  BY <1>4, <1>7
<1>10. Told(v.items, SubSeq(<<>>, 1, v.lastSeq))
  BY <1>5, <1>7, <1>8
<1>11. IsSeq(v.approvals) /\ ToSet(v.approvals) = Asked(SubSeq(<<>>, 1, v.lastSeq))
  BY <1>4, <1>6, <1>7, <1>8
<1>12. QED
  BY <1>9, <1>10, <1>11 DEF Page

LEMMA PageKept ==
  ASSUME NEW v, NEW L, NEW t, IsSeq(L), IsSeq(t), Page(v, L)
  PROVE  Page(v, L \o t)
<1>1. v.lastSeq \in Nat /\ v.lastSeq <= Len(L)
  BY DEF Page
<1>2. SubSeq(L \o t, 1, v.lastSeq) = SubSeq(L, 1, v.lastSeq)
  BY <1>1, PrefixKept
<1>3. Len(L \o t) = Len(L) + Len(t) /\ Len(L) \in Nat /\ Len(t) \in Nat
  BY Joined, Length
<1>4. v.lastSeq <= Len(L \o t)
  BY <1>1, <1>3
<1>5. QED
  BY <1>2, <1>4 DEF Page

\* What the page makes of a result leaves what it tells as it was.
LEMMA PagePasses ==
  ASSUME NEW L, IsSeq(L), NEW items, NEW b \in Nat, NEW c \in Nat, b + c <= Len(L),
         Told(items, SubSeq(L, 1, b)), \A n \in (b + 1)..(b + c) : Skipped(L[n])
  PROVE  /\ Told(items, SubSeq(L, 1, b + c))
         /\ Asked(SubSeq(L, 1, b + c)) = Asked(SubSeq(L, 1, b))
<1> DEFINE T(k) == /\ Told(items, SubSeq(L, 1, b + k))
                   /\ Asked(SubSeq(L, 1, b + k)) = Asked(SubSeq(L, 1, b))
           N == {k \in Nat : k <= c => T(k)}
<1>1. Len(L) \in Nat
  BY Length
<1>2. 0 \in N
  <2>1. b + 0 = b
    OBVIOUS
  <2>2. QED
    BY <2>1
<1>3. ASSUME NEW k \in N PROVE k + 1 \in N
  <2> SUFFICES ASSUME k + 1 <= c PROVE T(k + 1)
    OBVIOUS
  <2> DEFINE told == SubSeq(L, 1, b + k)
             e == L[b + k + 1]
             other == Item("notice", 0, "complete", 1)
  <2>1. b + k \in Nat /\ b + (k + 1) = (b + k) + 1 /\ (b + k) + 1 <= Len(L) /\ b + k <= Len(L)
    BY <1>1
  <2>2. T(k)
    OBVIOUS
  <2>3. SubSeq(L, 1, (b + k) + 1) = Append(told, e) /\ IsSeq(told)
    BY <2>1, PrefixNext, Prefix
  <2>4. e.type = "turn_result"
    <3>1. b + k + 1 \in (b + 1)..(b + c)
      BY <2>1
    <3>2. QED
      BY <3>1 DEF Skipped
  <2>5. other.kind = "notice" /\ IsItem(other)
    BY ItemFields
  <2> HIDE DEF told, e, other
  <2>6. /\ e.type \notin Words \cup {"assistant_message", "user_message", "text_delta",
                                   "thinking_delta"}
        /\ other.kind \notin Keyed
    BY <2>4, <2>5 DEF Words, Keyed
  <2>7. Told(items, told) /\ Asked(told) = Asked(SubSeq(L, 1, b))
    BY <2>2 DEF told
  <2>8. Told(items, Append(told, e))
    BY <2>3, <2>5, <2>6, <2>7, ToldQuiet
  <2>9. Asked(Append(told, e)) = Asked(told)
    BY <2>3, <2>4, AskedNext
  <2>10. QED
    BY <2>1, <2>3, <2>7, <2>8, <2>9
<1> HIDE DEF T
<1>4. N \in SUBSET Nat
  OBVIOUS
<1> HIDE DEF N
<1>5. c \in N
  BY <1>2, <1>3, <1>4, StepByStep
<1>6. T(c)
  BY <1>5 DEF N
<1>7. QED
  BY <1>6 DEF T

\* The page folds an event that at most results come before.
LEMMA PageFolds ==
  ASSUME NEW v, NEW L, IsSeq(L), Page(v, L), NEW s \in (v.lastSeq + 1)..Len(L),
         \A n \in (v.lastSeq + 1)..(s - 1) : Skipped(L[n]), WellFormed(L[s])
  PROVE  Page(ApplyEvent(v, s, L[s]), L) /\ ApplyEvent(v, s, L[s]).lastSeq = s
<1> DEFINE b == v.lastSeq
           e == L[s]
           told == SubSeq(L, 1, s - 1)
           after == ApplyEvent(v, s, e)
<1>1. /\ b \in Nat /\ b <= Len(L) /\ Told(v.items, SubSeq(L, 1, b))
      /\ IsSeq(v.approvals) /\ ToSet(v.approvals) = Asked(SubSeq(L, 1, b))
  BY DEF Page
<1>2. /\ s \in Nat /\ s <= Len(L) /\ s > b /\ s - 1 \in Nat /\ (s - 1) + 1 = s
      /\ s - 1 <= Len(L) /\ (s - 1) - b \in Nat /\ b + ((s - 1) - b) = s - 1 /\ Len(L) \in Nat
  BY <1>1, Length
<1>3. Told(v.items, told) /\ ToSet(v.approvals) = Asked(told)
  <2> SUFFICES ASSUME NEW c \in Nat, c = (s - 1) - b, b + c = s - 1
               PROVE  Told(v.items, told) /\ ToSet(v.approvals) = Asked(told)
    BY <1>2
  <2>1. b + c <= Len(L) /\ \A n \in (b + 1)..(b + c) : Skipped(L[n])
    BY <1>2
  <2>2. /\ Told(v.items, SubSeq(L, 1, b + c))
        /\ Asked(SubSeq(L, 1, b + c)) = Asked(SubSeq(L, 1, b))
    BY <1>1, <2>1, PagePasses
  <2>3. QED
    BY <1>1, <2>2
<1>4. SubSeq(L, 1, (s - 1) + 1) = Append(told, L[(s - 1) + 1]) /\ IsSeq(told)
  BY <1>2, PrefixNext, Prefix
<1>5. SubSeq(L, 1, s) = Append(told, e)
  BY <1>2, <1>4
<1>6. after = [lastSeq   |-> s,
               status    |-> StatusAfter(v.status, e),
               items     |-> ItemsAfter(v.items, s, e),
               approvals |-> ApprovalsAfter(v.approvals, e)]
  BY <1>1, <1>2 DEF ApplyEvent
<1>7. WellFormed(e)
  OBVIOUS
<1> HIDE DEF b, e, told, after
<1>8. Told(ItemsAfter(v.items, s, e), Append(told, e))
  BY <1>3, <1>4, <1>7, ToldAfter
<1>9. /\ IsSeq(ApprovalsAfter(v.approvals, e))
      /\ ToSet(ApprovalsAfter(v.approvals, e)) = Asked(Append(told, e))
  BY <1>1, <1>3, <1>4, ApprovalsNext
<1>10. Page(after, L) /\ after.lastSeq = s
  BY <1>2, <1>5, <1>6, <1>8, <1>9 DEF Page
<1>11. QED
  BY <1>10 DEF after, e

LEMMA PageSeeded ==
  ASSUME NEW v, NEW L, Page(v, L), NEW status
  PROVE  /\ Page(SeedFromSessionInfo(v, status), L)
         /\ SeedFromSessionInfo(v, status).lastSeq = v.lastSeq
BY DEF Page, SeedFromSessionInfo

LEMMA PageShown ==
  ASSUME NEW v, NEW L, IsSeq(L), Page(v, L)
  PROVE  Shows(v, SubSeq(L, 1, v.lastSeq))
<1>1. v.lastSeq \in Nat /\ v.lastSeq <= Len(L)
  BY DEF Page
<1>2. IsSeq(SubSeq(L, 1, v.lastSeq))
  BY <1>1, Prefix
<1>3. QED
  BY <1>2, ToldIsShown DEF Page

-----------------------------------------------------------------------------
(* The page of the session.                                                *)

EventsOf(s) == IsSeq(s) /\ \A e \in ToSet(s) : WellFormed(e)

\* A handle is on its way to every event it has not had.
OnItsWay == IF Attached THEN Sent(down, lastSeq, Len(log), log) ELSE down = <<>>

PageInv ==
    /\ EventsOf(log) /\ EventsOf(script)
    /\ Page(view, log)
    /\ lastSeq \in Nat /\ lastSeq <= view.lastSeq
    /\ OnItsWay

LEMMA PageInit == Init => PageInv
<1> SUFFICES ASSUME Init PROVE PageInv
  OBVIOUS
<1>1. /\ log = <<>> /\ script \in Scripts /\ lastSeq = 0 /\ view = InitialTranscript
      /\ down = <<>> /\ phase = "timer"
  BY DEF Init
<1>2. EventsOf(script)
  BY <1>1, StreamAssumption DEF EventsOf, IsSeq
<1>3. EventsOf(log)
  BY <1>1, Empty DEF EventsOf
<1>4. view.lastSeq = 0
  BY <1>1 DEF InitialTranscript
<1>5. OnItsWay
  BY <1>1 DEF OnItsWay, Attached
<1>6. QED
  BY <1>1, <1>2, <1>3, <1>4, <1>5, EmptyPage DEF PageInv

\* The log goes on, and the page has yet to hear of it.
LEMMA PageBehind ==
  ASSUME PageInv, NEW events, EventsOf(events), log' = log \o events, EventsOf(script'),
         OnItsWay', UNCHANGED <<view, lastSeq>>
  PROVE  PageInv'
<1>1. IsSeq(log) /\ IsSeq(events) /\ Page(view, log)
  BY DEF PageInv, EventsOf
<1>2. IsSeq(log') /\ ToSet(log') = ToSet(log) \cup ToSet(events) /\ Page(view, log')
  BY <1>1, Joined, PageKept
<1>3. EventsOf(log')
  BY <1>2 DEF PageInv, EventsOf
<1>4. QED
  BY <1>2, <1>3 DEF PageInv

\* What no log grows by and no page hears of.
LEMMA PageElsewhere ==
  ASSUME PageInv, UNCHANGED <<log, script, view>>, lastSeq' \in {0, lastSeq}, OnItsWay'
  PROVE  PageInv'
<1>1. lastSeq' \in Nat /\ lastSeq' <= view.lastSeq
  BY DEF PageInv, Page
<1>2. QED
  BY <1>1 DEF PageInv

LEMMA WayUntouched ==
  ASSUME PageInv, UNCHANGED <<log, lastSeq>>,
         \/ down' = <<>> /\ ~Attached'
         \/ down' = down /\ Attached' = Attached
  PROVE  OnItsWay'
<1>1. CASE down' = <<>> /\ ~Attached'
  BY <1>1 DEF OnItsWay
<1>2. CASE down' = down /\ Attached' = Attached
  <2>1. OnItsWay
    BY DEF PageInv
  <2>2. QED
    BY <1>2, <2>1 DEF OnItsWay
<1>3. QED
  BY <1>1, <1>2

\* Two events follow, or a job's end and then the result it ends on.
LEMMA SentEnd ==
  ASSUME NEW d, NEW a \in Nat, NEW n \in Nat, NEW L, IsSeq(L), Sent(d, a, n, L), Len(L) = n + 2,
         NEW f1, IsEvent(f1, n + 1), NEW f2, IsEvent(f2, n + 2)
  PROVE  Sent(Append(Append(d, f1), f2), a, n + 2, L)
<1> DEFINE d1 == Append(d, f1)
<1>1. n + 1 \in Nat /\ (n + 1) + 1 = n + 2 /\ n + 1 <= Len(L) /\ n + 2 <= Len(L)
  OBVIOUS
<1>2. Sent(d1, a, n + 1, L)
  BY <1>1, SentOneMore
<1> HIDE DEF d1
<1>3. Sent(Append(d1, f2), a, (n + 1) + 1, L)
  BY <1>1, <1>2, SentOneMore
<1>4. QED
  BY <1>1, <1>3 DEF d1

LEMMA SentResult ==
  ASSUME NEW d, NEW a \in Nat, NEW n \in Nat, NEW L, IsSeq(L), Sent(d, a, n, L), Len(L) = n + 3,
         Skipped(L[n + 1]), NEW f1, IsEvent(f1, n + 1), NEW f2, IsEvent(f2, n + 2),
         NEW f3, IsEvent(f3, n + 3)
  PROVE  Sent(Append(Append(Append(d, f2), f3), f1), a, n + 3, L)
<1> DEFINE d1 == Append(d, f2)
           d2 == Append(d1, f3)
<1>1. /\ n + 1 \in Nat /\ (n + 1) + 1 = n + 2 /\ n + 1 <= Len(L) /\ n + 2 <= Len(L)
      /\ n + 2 \in Nat /\ (n + 2) + 1 = n + 3 /\ n + 3 <= Len(L) /\ n + 1 \in 1..(n + 3)
  OBVIOUS
<1>2. Sent(d, a, n + 1, L)
  BY <1>1, SentSkipped
<1>3. Sent(d1, a, (n + 1) + 1, L)
  BY <1>1, <1>2, SentOneMore
<1> HIDE DEF d1
<1>4. Sent(d1, a, n + 2, L)
  BY <1>1, <1>3
<1>5. Sent(d2, a, (n + 2) + 1, L)
  BY <1>1, <1>4, SentOneMore
<1> HIDE DEF d2
<1>6. Sent(d2, a, n + 3, L)
  BY <1>1, <1>5
<1>7. Sent(Append(d2, f1), a, n + 3, L)
  BY <1>1, <1>6, SentOneMore
<1>8. QED
  BY <1>7 DEF d1, d2

\* What is emitted is put on the wire, a job's end before the result.
LEMMA WayEmitted ==
  ASSUME PageInv, UNCHANGED <<phase, lastSeq>>, NEW events, EventsOf(events), NEW order,
         Emit(events, order),
         \/ Len(events) = 1 /\ order = << 1 >>
         \/ Len(events) = 2 /\ order = <<1, 2>>
         \/ Len(events) = 3 /\ order = <<2, 3, 1>> /\ Skipped(events[1])
  PROVE  OnItsWay'
<1>1. CASE ~Attached
  <2>1. down' = <<>> /\ ~Attached'
    BY <1>1 DEF PageInv, OnItsWay, Emit, Attached
  <2>2. QED
    BY <2>1 DEF OnItsWay
<1>2. CASE Attached
  <2> DEFINE n == Len(log)
             f1 == EventFrame(n + 1)
             f2 == EventFrame(n + 2)
             f3 == EventFrame(n + 3)
  <2>1. /\ IsSeq(log) /\ IsSeq(events) /\ n \in Nat /\ lastSeq \in Nat
        /\ Sent(down, lastSeq, n, log) /\ IsSeq(down)
    BY <1>2, Length DEF PageInv, EventsOf, OnItsWay, Sent
  <2>2. log' = log \o events /\ Attached' /\ lastSeq' = lastSeq
    BY <1>2 DEF Emit, Attached
  <2>3. /\ IsSeq(log') /\ Len(log') = n + Len(events)
        /\ \A i \in 1..Len(events) : log'[n + i] = events[i]
    BY <2>1, <2>2, Joined
  <2>4. Sent(down, lastSeq, n, log')
    BY <2>1, <2>2, SentLogGrows
  <2>5. IsEvent(f1, n + 1) /\ IsEvent(f2, n + 2) /\ IsEvent(f3, n + 3)
    BY DEF IsEvent, EventFrame
  <2>6. \/ Len(events) = 1 /\ down' = down \o <<f1>>
        \/ Len(events) = 2 /\ down' = down \o <<f1, f2>>
        \/ Len(events) = 3 /\ down' = down \o <<f2, f3, f1>> /\ Skipped(events[1])
    <3> DEFINE frames == [i \in DOMAIN order |-> EventFrame(n + order[i])]
    <3>1. down' = down \o frames
      BY <1>2 DEF Emit
    <3>2. order = << 1 >> => frames = <<f1>>
      OBVIOUS
    <3>3. order = <<1, 2>> => frames = <<f1, f2>>
      OBVIOUS
    <3>4. order = <<2, 3, 1>> => frames = <<f2, f3, f1>>
      OBVIOUS
    <3> HIDE DEF frames, f1, f2, f3
    <3>5. QED
      BY <3>1, <3>2, <3>3, <3>4
  <2>7. ASSUME NEW to, NEW L, to = down', L = log', Sent(to, lastSeq, Len(L), L)
        PROVE  OnItsWay'
    BY <2>2, <2>7 DEF OnItsWay
  <2> SUFFICES ASSUME NEW to, NEW L, to = down', L = log'
               PROVE  Sent(to, lastSeq, Len(L), L)
    BY <2>7
  <2>8. /\ IsSeq(L) /\ Len(L) = n + Len(events) /\ Sent(down, lastSeq, n, L)
        /\ \A i \in 1..Len(events) : L[n + i] = events[i]
    BY <2>3, <2>4
  <2> HIDE DEF n, f1, f2, f3
  <2>9. CASE Len(events) = 1 /\ down' = down \o <<f1>>
    <3>1. to = Append(down, f1) /\ n + 1 <= Len(L) /\ Len(L) = n + 1
      BY <2>1, <2>8, <2>9, Pushed
    <3>2. lastSeq \in Nat /\ IsSeq(L) /\ Sent(down, lastSeq, n, L) /\ IsEvent(f1, n + 1)
      BY <2>1, <2>5, <2>8
    <3>3. Sent(Append(down, f1), lastSeq, n + 1, L)
      BY <3>1, <3>2, SentOneMore
    <3>4. QED
      BY <3>1, <3>3
  <2>10. CASE Len(events) = 2 /\ down' = down \o <<f1, f2>>
    <3>1. to = Append(Append(down, f1), f2) /\ Len(L) = n + 2
      BY <2>1, <2>8, <2>10, PushedTwo
    <3>2. QED
      BY <2>1, <2>5, <2>8, <3>1, SentEnd
  <2>11. CASE Len(events) = 3 /\ down' = down \o <<f2, f3, f1>> /\ Skipped(events[1])
    <3>1. to = Append(Append(Append(down, f2), f3), f1) /\ Len(L) = n + 3
      BY <2>1, <2>8, <2>11, PushedThree
    <3>2. Skipped(L[n + 1])
      BY <2>8, <2>11
    <3>3. QED
      BY <2>1, <2>5, <2>8, <3>1, <3>2, SentResult
  <2>12. QED
    BY <2>6, <2>9, <2>10, <2>11
<1>3. QED
  BY <1>1, <1>2

LEMMA EndIsEvents ==
  /\ EventsOf(EndEvents) /\ Len(EndEvents) = 2
  /\ \A e : IsSeq(<<e>> \o EndEvents) /\ Len(<<e>> \o EndEvents) = 3 /\ (<<e>> \o EndEvents)[1] = e
  /\ \A e : WellFormed(e) => EventsOf(<<e>> \o EndEvents)
<1> DEFINE e1 == [type |-> "session_closed"]
           e2 == StatusChanged("closed")
<1>1. EndEvents = <<e1, e2>> /\ WellFormed(e1) /\ WellFormed(e2)
  BY DEF EndEvents, StatusChanged, WellFormed
<1> HIDE DEF e1, e2
<1>2. /\ <<e1, e2>> \in Seq({e1, e2}) /\ Len(<<e1, e2>>) = 2
      /\ \A e \in ToSet(<<e1, e2>>) : e \in {e1, e2}
  BY DEF ToSet
<1>3. EventsOf(EndEvents) /\ Len(EndEvents) = 2
  BY <1>1, <1>2 DEF EventsOf, IsSeq
<1>4. ASSUME NEW e
      PROVE  /\ IsSeq(<<e>> \o EndEvents) /\ Len(<<e>> \o EndEvents) = 3
             /\ (<<e>> \o EndEvents)[1] = e
             /\ WellFormed(e) => EventsOf(<<e>> \o EndEvents)
  <2> DEFINE one == <<e>>
  <2>1. IsSeq(one) /\ Len(one) = 1 /\ ToSet(one) = {e} /\ one[1] = e
    BY One
  <2> HIDE DEF one
  <2>2. /\ IsSeq(one \o EndEvents) /\ Len(one \o EndEvents) = Len(one) + Len(EndEvents)
        /\ \A i \in 1..Len(one) : (one \o EndEvents)[i] = one[i]
        /\ ToSet(one \o EndEvents) = ToSet(one) \cup ToSet(EndEvents)
    BY <1>3, <2>1, Joined DEF EventsOf
  <2>3. QED
    BY <1>3, <2>1, <2>2 DEF EventsOf, one
<1>5. QED
  BY <1>3, <1>4

LEMMA PageHandles ==
  ASSUME PageInv, NEW frame, Known(frame), Handle(frame),
         UNCHANGED <<script, view, lastSeq, phase>>
  PROVE  PageInv'
<1>1. CASE UNCHANGED <<log, down>>
  <2>1. OnItsWay'
    BY <1>1, WayUntouched DEF Attached
  <2>2. QED
    BY <1>1, <2>1, PageElsewhere
<1>2. CASE UNCHANGED log /\ down' = IF Attached THEN Append(down, ProtocolError) ELSE down
  <2>1. OnItsWay'
    <3>1. CASE Attached
      <4>1. IsSeq(log) /\ lastSeq \in Nat /\ Sent(down, lastSeq, Len(log), log)
        BY <3>1 DEF PageInv, EventsOf, OnItsWay
      <4>2. ProtocolError.type # "event"
        BY DEF ProtocolError
      <4>3. Sent(Append(down, ProtocolError), lastSeq, Len(log), log)
        BY <4>1, <4>2, SentOneMore
      <4>4. QED
        BY <1>2, <3>1, <4>3 DEF OnItsWay, Attached
    <3>2. CASE ~Attached
      BY <1>2, <3>2 DEF PageInv, OnItsWay, Attached
    <3>3. QED
      BY <3>1, <3>2
  <2>2. QED
    BY <1>2, <2>1, PageElsewhere
<1>3. ASSUME NEW e, WellFormed(e), Emit(<<e>>, << 1 >>)
      PROVE  PageInv'
  <2>1. EventsOf(<<e>>) /\ Len(<<e>>) = 1
    BY <1>3, One DEF EventsOf
  <2>2. OnItsWay'
    BY <1>3, <2>1, WayEmitted
  <2>3. log' = log \o <<e>> /\ EventsOf(script')
    BY <1>3 DEF Emit, PageInv
  <2>4. QED
    BY <2>1, <2>2, <2>3, PageBehind
<1>4. CASE Emit(EndEvents, <<1, 2>>)
  <2>1. OnItsWay'
    BY <1>4, EndIsEvents, WayEmitted
  <2>2. log' = log \o EndEvents /\ EventsOf(script')
    BY <1>4 DEF Emit, PageInv
  <2>3. QED
    BY <2>1, <2>2, EndIsEvents, PageBehind
<1>5. \/ UNCHANGED <<log, down>>
      \/ UNCHANGED log /\ down' = IF Attached THEN Append(down, ProtocolError) ELSE down
      \/ Emit(<<[type |-> "user_message", uuid |-> frame.id]>>, << 1 >>)
      \/ Emit(<<[type |-> "permission_resolved", id |-> frame.id]>>, << 1 >>)
      \/ Emit(EndEvents, <<1, 2>>)
  BY DEF Handle, Known
<1>6. /\ WellFormed([type |-> "user_message", uuid |-> frame.id])
      /\ WellFormed([type |-> "permission_resolved", id |-> frame.id])
  BY DEF WellFormed
<1>7. QED
  BY <1>1, <1>2, <1>3, <1>4, <1>5, <1>6

LEMMA PageSays ==
  ASSUME PageInv, EngineSays
  PROVE  PageInv'
<1> DEFINE e == Head(script)
<1>1. /\ script # <<>> /\ script' = Tail(script) /\ UNCHANGED <<view, lastSeq, phase>>
      /\ \/ e.type = "turn_result" /\ Emit(<<e>> \o EndEvents, <<2, 3, 1>>)
         \/ Emit(<<e>>, << 1 >>)
  BY DEF EngineSays, client
<1>2. EventsOf(script)
  BY DEF PageInv
<1>3. IsSeq(Tail(script)) /\ e \in ToSet(script) /\ ToSet(Tail(script)) \subseteq ToSet(script)
  BY <1>1, <1>2, Popped DEF EventsOf
<1>4. EventsOf(script') /\ WellFormed(e)
  BY <1>1, <1>2, <1>3 DEF EventsOf
<1> HIDE DEF e
<1>5. CASE Emit(<<e>>, << 1 >>)
  <2>1. EventsOf(<<e>>) /\ Len(<<e>>) = 1
    BY <1>4, One DEF EventsOf
  <2>2. OnItsWay'
    BY <1>1, <1>5, <2>1, WayEmitted
  <2>3. log' = log \o <<e>>
    BY <1>5 DEF Emit
  <2>4. QED
    BY <1>1, <1>4, <2>1, <2>2, <2>3, PageBehind
<1>6. CASE e.type = "turn_result" /\ Emit(<<e>> \o EndEvents, <<2, 3, 1>>)
  <2> DEFINE events == <<e>> \o EndEvents
  <2>1. EventsOf(events) /\ Len(events) = 3 /\ events[1] = e
    BY <1>4, EndIsEvents
  <2>2. Emit(events, <<2, 3, 1>>)
    BY <1>6
  <2> HIDE DEF events
  <2>3. Skipped(events[1])
    BY <1>6, <2>1 DEF Skipped
  <2>4. OnItsWay'
    BY <1>1, <2>1, <2>2, <2>3, WayEmitted
  <2>5. log' = log \o events
    BY <2>2 DEF Emit
  <2>6. QED
    BY <1>1, <1>4, <2>1, <2>4, <2>5, PageBehind
<1>7. QED
  BY <1>1, <1>5, <1>6

LEMMA PageAttaches ==
  ASSUME PageInv, Attach
  PROVE  PageInv'
<1> SUFFICES ASSUME NEW first, first = <<AttachedFrame>>, NEW n, n = Len(log) - lastSeq,
                    NEW run, run = Run(lastSeq, n)
             PROVE  PageInv'
  OBVIOUS
<1>1. /\ phase' = "attached" /\ UNCHANGED <<log, script, view, lastSeq>>
      /\ down' = first \o run
  BY DEF Attach, server, client, Run
<1>2. /\ IsSeq(log) /\ Len(log) \in Nat /\ lastSeq \in Nat /\ lastSeq <= Len(log)
  BY Length DEF PageInv, EventsOf, Page
<1>3. n \in Nat /\ Len(log) = lastSeq + n
  BY <1>2
<1>4. IsSeq(first) /\ Len(first) = 1 /\ first[1].type # "event"
  BY One DEF AttachedFrame
<1>5. /\ IsSeq(run) /\ Len(run) = n
      /\ \A i \in 1..n : run[i].type = "event" /\ run[i].seq = lastSeq + i
  BY <1>3, RunIsSeq
<1> SUFFICES ASSUME NEW to, to = first \o run PROVE PageInv'
  OBVIOUS
<1>6. /\ IsSeq(to) /\ Len(to) = 1 + n /\ to[1] = first[1]
      /\ \A i \in 1..n : to[1 + i] = run[i]
  <2>1. /\ IsSeq(first \o run) /\ Len(first \o run) = Len(first) + Len(run)
        /\ \A i \in 1..Len(first) : (first \o run)[i] = first[i]
        /\ \A i \in 1..Len(run) : (first \o run)[Len(first) + i] = run[i]
    <3>1. IsSeq(first) /\ IsSeq(run)
      BY <1>4, <1>5
    <3>2. QED
      BY ONLY <3>1, Joined
  <2>2. 1 \in 1..Len(first) /\ \A i \in 1..n : i \in 1..Len(run) /\ Len(first) + i = 1 + i
    BY <1>4, <1>5
  <2>3. QED
    BY <1>4, <1>5, <2>1, <2>2
<1>7. \A i \in 1..n : IsEvent(to[1 + i], lastSeq + i)
  BY <1>5, <1>6 DEF IsEvent
<1>8. Sent(to, lastSeq, Len(log), log)
  BY <1>2, <1>3, <1>4, <1>6, <1>7, SentReplay
<1>9. OnItsWay'
  BY <1>1, <1>8 DEF OnItsWay, Attached
<1>10. QED
  BY <1>1, <1>9, PageElsewhere

\* An event of the log is folded once: the page has had it, from an earlier
\* handle, or nothing that it tells is missing before it.
LEMMA PageReceives ==
  ASSUME PageInv, Receive
  PROVE  PageInv'
<1> DEFINE frame == Head(down)
<1>1. /\ Attached /\ Attached' /\ down # <<>> /\ down' = Tail(down) /\ UNCHANGED <<log, script>>
      /\ \/ /\ frame.type # "event" \/ frame.seq <= lastSeq
            /\ UNCHANGED <<lastSeq, view>>
         \/ /\ frame.type = "attached" /\ lastSeq' = lastSeq
            /\ view' = SeedFromSessionInfo(view, frame.status)
         \/ /\ frame.type = "event" /\ ~(frame.seq <= lastSeq) /\ lastSeq' = frame.seq
            /\ view' = ApplyEvent(view, frame.seq, log[frame.seq])
  BY DEF Receive, server, Attached
<1>2. /\ EventsOf(log) /\ IsSeq(log) /\ EventsOf(script) /\ Page(view, log)
      /\ lastSeq \in Nat /\ lastSeq <= view.lastSeq /\ view.lastSeq \in Nat
      /\ Sent(down, lastSeq, Len(log), log)
  BY <1>1 DEF PageInv, EventsOf, Page, OnItsWay
<1>3. ASSUME lastSeq' \in Nat, lastSeq <= lastSeq', frame.type = "event" => frame.seq <= lastSeq'
      PROVE  OnItsWay'
  <2>1. Sent(Tail(down), lastSeq', Len(log), log)
    BY <1>1, <1>2, <1>3, SentTaken
  <2>2. QED
    BY <1>1, <2>1 DEF OnItsWay
<1>4. CASE (frame.type # "event" \/ frame.seq <= lastSeq) /\ UNCHANGED <<lastSeq, view>>
  <2>1. OnItsWay'
    BY <1>2, <1>3, <1>4
  <2>2. QED
    BY <1>1, <1>4, <2>1, PageElsewhere
<1>5. CASE /\ frame.type = "attached" /\ lastSeq' = lastSeq
           /\ view' = SeedFromSessionInfo(view, frame.status)
  <2>1. Page(view', log) /\ view'.lastSeq = view.lastSeq
    BY <1>2, <1>5, PageSeeded
  <2>2. OnItsWay'
    BY <1>2, <1>3, <1>5
  <2>3. QED
    BY <1>1, <1>2, <1>5, <2>1, <2>2 DEF PageInv
<1>6. CASE /\ frame.type = "event" /\ ~(frame.seq <= lastSeq) /\ lastSeq' = frame.seq
           /\ view' = ApplyEvent(view, frame.seq, log[frame.seq])
  <2> DEFINE s == frame.seq
  <2>1. s \in 1..Len(log) /\ \A n \in (lastSeq + 1)..(s - 1) : Skipped(log[n])
    <3>1. 1 \in 1..Len(down) /\ Head(down) = down[1]
      <4>1. Len(down) >= 1 /\ Head(down) = down[1] /\ Len(down) \in Nat
        BY <1>1, <1>2, Popped, Length DEF Sent
      <4>2. QED
        BY <4>1
    <3>2. s \in 1..Len(log) /\ Ahead(down, 1 - 1, lastSeq, s - 1, log)
      BY <1>2, <1>6, <3>1 DEF Sent
    <3>3. 1..(1 - 1) = {}
      OBVIOUS
    <3>4. QED
      BY <3>2, <3>3 DEF Ahead
  <2>2. s \in Nat /\ lastSeq <= s /\ lastSeq' = s /\ Len(log) \in Nat
    BY <1>2, <1>6, <2>1, Length
  <2>3. OnItsWay'
    BY <1>3, <1>6, <2>2
  <2> HIDE DEF s
  <2>4. view' = ApplyEvent(view, s, log[s])
    BY <1>6 DEF s
  <2>5. CASE s <= view.lastSeq
    <3>1. view' = view
      BY <2>4, <2>5 DEF ApplyEvent
    <3>2. QED
      BY <1>1, <1>2, <2>2, <2>3, <2>5, <3>1 DEF PageInv
  <2>6. CASE ~(s <= view.lastSeq)
    <3>1. /\ s \in (view.lastSeq + 1)..Len(log)
          /\ \A n \in (view.lastSeq + 1)..(s - 1) : n \in (lastSeq + 1)..(s - 1)
      BY <1>2, <2>1, <2>2, <2>6
    <3>2. WellFormed(log[s])
      BY <1>2, <2>1, Length DEF EventsOf
    <3>3. Page(ApplyEvent(view, s, log[s]), log) /\ ApplyEvent(view, s, log[s]).lastSeq = s
      BY <1>2, <2>1, <3>1, <3>2, PageFolds
    <3>4. Page(view', log) /\ view'.lastSeq = s
      BY <2>4, <3>3
    <3>5. QED
      BY <1>1, <1>2, <2>2, <2>3, <3>4 DEF PageInv
  <2>7. QED
    BY <2>5, <2>6
<1>7. QED
  BY <1>1, <1>4, <1>5, <1>6

LEMMA PageNext ==
  ASSUME OrderInv, PageInv, [Next]_vars
  PROVE  PageInv'
<1> USE DEF server, client
<1>1. CASE EngineSays
  BY <1>1, PageSays
<1>2. CASE FrameArrives
  <2>1. UNCHANGED <<script, view, lastSeq, phase>>
    BY <1>2 DEF FrameArrives
  <2>2. CASE up # <<>> /\ Handle(Head(up))
    <3>1. Known(Head(up))
      BY <2>2, Popped DEF OrderInv, LineTypes, Frames
    <3>2. QED
      BY <2>1, <2>2, <3>1, PageHandles
  <2>3. CASE oldUp # <<>> /\ Handle(Head(oldUp))
    <3>1. Known(Head(oldUp))
      BY <2>3, Popped DEF OrderInv, LineTypes, Frames
    <3>2. QED
      BY <2>1, <2>3, <3>1, PageHandles
  <2>4. QED
    BY <1>2, <2>2, <2>3 DEF FrameArrives
<1>3. CASE Receive
  BY <1>3, PageReceives
<1>4. CASE Attach
  BY <1>4, PageAttaches
<1>5. ASSUME UNCHANGED <<log, script, view, lastSeq>>,
             \/ down' = <<>> /\ ~Attached'
             \/ down' = down /\ Attached' = Attached
      PROVE  PageInv'
  BY <1>5, WayUntouched, PageElsewhere
<1>6. CASE Connect
  BY <1>5, <1>6 DEF Connect, Attached
<1>7. CASE Open
  BY <1>5, <1>7 DEF Open, Attached
<1>8. CASE Drop
  BY <1>5, <1>8 DEF Drop, Attached
<1>9. CASE Type
  BY <1>5, <1>9 DEF Type, Attached
<1>10. ASSUME NEW q, Decide(q)
       PROVE  PageInv'
  BY <1>5, <1>10 DEF Decide, Attached
<1>11. CASE Detach
  BY <1>5, <1>11 DEF Detach, Leaves, Attached
<1>12. CASE CloseSession
  BY <1>5, <1>12 DEF CloseSession, Leaves, Attached
<1>13. CASE Remount
  <2>1. /\ UNCHANGED <<log, script, view, down>> /\ lastSeq' \in {0, lastSeq}
        /\ ~Attached /\ ~Attached'
    BY <1>13 DEF Remount, Attached
  <2>2. OnItsWay'
    BY <2>1 DEF PageInv, OnItsWay
  <2>3. QED
    BY <2>1, <2>2, PageElsewhere
<1>14. CASE UNCHANGED vars
  BY <1>5, <1>14 DEF vars, Attached
<1>15. QED
  BY <1>1, <1>2, <1>3, <1>4, <1>6, <1>7, <1>8, <1>9, <1>10, <1>11, <1>12, <1>13, <1>14 DEF Next

\* What the page shows, of an interactive session or of a job's, is what the log
\* tells up to the last event it folded: each call once and in the state last
\* reported, each user message once, the text streamed since the last full
\* message, the open questions; through replays by several handles and repeated
\* user messages (applyEvent in transcript.ts, the reducer of use-session.ts).
THEOREM TranscriptTellsHolds == Spec => []TranscriptTells
<1>1. Init => OrderInv /\ PageInv
  BY OrderInit, PageInit
<1>2. OrderInv /\ PageInv /\ [Next]_vars => OrderInv' /\ PageInv'
  BY OrderNext, PageNext
<1>3. PageInv => TranscriptTells
  BY PageShown DEF PageInv, EventsOf, TranscriptTells
<1>4. QED
  BY <1>1, <1>2, <1>3, PTL DEF Spec

-----------------------------------------------------------------------------
(* What a handle of any session has been given.                            *)

HandedInv ==
    /\ IsSeq(seen)
    /\ \A i \in 1..Len(seen) : seen[i] \in 1..lastSeq
    /\ \A i, j \in 1..Len(seen) : i < j => seen[i] < seen[j]
    /\ \A n \in 1..lastSeq : Skipped(log[n]) \/ \E i \in 1..Len(seen) : seen[i] = n

\* What a handle was given stays in its log.
LEMMA HandedKept ==
  ASSUME PageInv, HandedInv, UNCHANGED <<seen, lastSeq>>, NEW events, IsSeq(events),
         log' = log \o events
  PROVE  HandedInv'
<1>1. lastSeq \in Nat /\ lastSeq <= Len(log) /\ IsSeq(log) /\ Len(log) \in Nat
  BY Length DEF PageInv, Page, EventsOf
<1>2. \A n \in 1..Len(log) : log'[n] = log[n]
  BY <1>1, Joined
<1>3. \A n \in 1..lastSeq : log'[n] = log[n]
  BY <1>1, <1>2
<1>4. QED
  BY <1>3 DEF HandedInv

LEMMA HandedSame ==
  ASSUME HandedInv, UNCHANGED <<seen, lastSeq, log>>
  PROVE  HandedInv'
BY DEF HandedInv

\* The next event is handed on, and only results lie between it and the last.
LEMMA HandedNext ==
  ASSUME PageInv, HandedInv, Receive
  PROVE  HandedInv'
<1> DEFINE frame == Head(down)
<1>1. /\ Attached /\ down # <<>> /\ log' = log
      /\ \/ UNCHANGED <<lastSeq, seen>>
         \/ /\ frame.type = "event" /\ ~(frame.seq <= lastSeq) /\ lastSeq' = frame.seq
            /\ seen' = Append(seen, frame.seq)
  BY DEF Receive, server, Attached
<1>2. CASE UNCHANGED <<lastSeq, seen>>
  BY <1>1, <1>2, HandedSame
<1>3. CASE /\ frame.type = "event" /\ ~(frame.seq <= lastSeq) /\ lastSeq' = frame.seq
           /\ seen' = Append(seen, frame.seq)
  <2> DEFINE s == frame.seq
  <2>1. /\ lastSeq \in Nat /\ Sent(down, lastSeq, Len(log), log)
    BY <1>1 DEF PageInv, OnItsWay
  <2>2. s \in 1..Len(log) /\ \A n \in (lastSeq + 1)..(s - 1) : Skipped(log[n])
    <3>1. 1 \in 1..Len(down) /\ Head(down) = down[1]
      <4>1. Len(down) >= 1 /\ Head(down) = down[1] /\ Len(down) \in Nat
        BY <1>1, <2>1, Popped, Length DEF Sent
      <4>2. QED
        BY <4>1
    <3>2. s \in 1..Len(log) /\ Ahead(down, 1 - 1, lastSeq, s - 1, log)
      BY <1>3, <2>1, <3>1 DEF Sent
    <3>3. 1..(1 - 1) = {}
      OBVIOUS
    <3>4. QED
      BY <3>2, <3>3 DEF Ahead
  <2>3. s \in Nat /\ lastSeq < s /\ lastSeq' = s
    BY <1>3, <2>1, <2>2
  <2>4. seen' = Append(seen, s)
    BY <1>3
  <2> HIDE DEF s
  <2>5. /\ IsSeq(seen) /\ Len(seen) \in Nat
        /\ \A i \in 1..Len(seen) : seen[i] \in 1..lastSeq
        /\ \A i, j \in 1..Len(seen) : i < j => seen[i] < seen[j]
        /\ \A n \in 1..lastSeq : Skipped(log[n]) \/ \E i \in 1..Len(seen) : seen[i] = n
    BY Length DEF HandedInv
  <2>6. /\ IsSeq(seen') /\ Len(seen') = Len(seen) + 1
        /\ \A i \in 1..Len(seen) : seen'[i] = seen[i]
        /\ seen'[Len(seen) + 1] = s
    BY <2>4, <2>5, Appended
  <2>7. \A i \in 1..Len(seen') : i \in 1..Len(seen) \/ i = Len(seen) + 1
    BY <2>5, <2>6
  <2>8. \A i \in 1..Len(seen') : seen'[i] \in 1..s
    BY <2>1, <2>3, <2>5, <2>6, <2>7
  <2>9. ASSUME NEW i \in 1..Len(seen'), NEW j \in 1..Len(seen'), i < j
        PROVE  seen'[i] < seen'[j]
    <3>1. i \in 1..Len(seen) /\ seen'[i] = seen[i] /\ seen[i] \in 1..lastSeq
      BY <2>5, <2>6, <2>7, <2>9
    <3>2. CASE j \in 1..Len(seen)
      BY <2>5, <2>6, <2>9, <3>1, <3>2
    <3>3. CASE j = Len(seen) + 1
      BY <2>1, <2>3, <2>6, <3>1, <3>3
    <3>4. QED
      BY <2>7, <3>2, <3>3
  <2>10. ASSUME NEW n \in 1..s
         PROVE  Skipped(log[n]) \/ \E i \in 1..Len(seen') : seen'[i] = n
    <3>1. CASE n \in 1..lastSeq
      <4>1. \A i \in 1..Len(seen) : i \in 1..Len(seen')
        BY <2>5, <2>6
      <4>2. QED
        BY <2>5, <2>6, <3>1, <4>1
    <3>2. CASE n \in (lastSeq + 1)..(s - 1)
      BY <2>2, <3>2 DEF s
    <3>3. CASE n = s
      <4>1. Len(seen) + 1 \in 1..Len(seen')
        BY <2>5, <2>6
      <4>2. QED
        BY <2>6, <3>3, <4>1
    <3>4. QED
      BY <2>1, <2>3, <3>1, <3>2, <3>3
  <2>11. QED
    BY <1>1, <2>3, <2>6, <2>8, <2>9, <2>10 DEF HandedInv
<1>4. QED
  BY <1>1, <1>2, <1>3

LEMMA HandedStep ==
  ASSUME OrderInv, PageInv, HandedInv, [Next]_vars
  PROVE  HandedInv'
<1> USE DEF server, client
<1>1. ASSUME UNCHANGED <<seen, lastSeq>>, NEW events, IsSeq(events), log' = log \o events
      PROVE  HandedInv'
  BY <1>1, HandedKept
<1>2. \A e : IsSeq(<<e>>) /\ IsSeq(<<e>> \o EndEvents)
  BY One, EndIsEvents
<1>3. IsSeq(EndEvents)
  BY EndIsEvents DEF EventsOf
<1>4. CASE EngineSays
  <2>1. /\ UNCHANGED <<seen, lastSeq>>
        /\ \/ log' = log \o (<<Head(script)>> \o EndEvents)
           \/ log' = log \o <<Head(script)>>
    BY <1>4 DEF EngineSays, Emit
  <2>2. QED
    BY <1>1, <1>2, <2>1
<1>5. CASE FrameArrives
  <2>1. UNCHANGED <<seen, lastSeq>>
    BY <1>5 DEF FrameArrives
  <2>2. ASSUME NEW frame, Known(frame), Handle(frame)
        PROVE  HandedInv'
    <3>1. \/ UNCHANGED log
          \/ log' = log \o <<[type |-> "user_message", uuid |-> frame.id]>>
          \/ log' = log \o <<[type |-> "permission_resolved", id |-> frame.id]>>
          \/ log' = log \o EndEvents
      BY <2>2 DEF Handle, Known, Emit
    <3>2. QED
      BY <1>1, <1>2, <1>3, <2>1, <3>1, HandedSame
  <2>3. CASE up # <<>> /\ Handle(Head(up))
    <3>1. Known(Head(up))
      BY <2>3, Popped DEF OrderInv, LineTypes, Frames
    <3>2. QED
      BY <2>2, <2>3, <3>1
  <2>4. CASE oldUp # <<>> /\ Handle(Head(oldUp))
    <3>1. Known(Head(oldUp))
      BY <2>4, Popped DEF OrderInv, LineTypes, Frames
    <3>2. QED
      BY <2>2, <2>4, <3>1
  <2>5. QED
    BY <1>5, <2>3, <2>4 DEF FrameArrives
<1>6. CASE Receive
  BY <1>6, HandedNext
<1>7. CASE Remount
  <2>1. seen' = <<>> /\ lastSeq' = 0
    BY <1>7 DEF Remount
  <2>2. 1..0 = {} /\ IsSeq(<<>>) /\ Len(<<>>) = 0
    BY Empty
  <2>3. QED
    BY <2>1, <2>2 DEF HandedInv
<1>8. CASE Attach \/ Connect \/ Open \/ Drop \/ Type \/ Detach \/ CloseSession
  <2>1. UNCHANGED <<log, seen, lastSeq>>
    BY <1>8 DEF Attach, Connect, Open, Drop, Type, Detach, CloseSession
  <2>2. QED
    BY <2>1, HandedSame
<1>9. ASSUME NEW q, Decide(q)
      PROVE  HandedInv'
  <2>1. UNCHANGED <<log, seen, lastSeq>>
    BY <1>9 DEF Decide
  <2>2. QED
    BY <2>1, HandedSame
<1>10. CASE UNCHANGED vars
  <2>1. UNCHANGED <<log, seen, lastSeq>>
    BY <1>10 DEF vars
  <2>2. QED
    BY <2>1, HandedSame
<1>11. QED
  BY <1>4, <1>5, <1>6, <1>7, <1>8, <1>9, <1>10 DEF Next

\* A handle of any session is given the events in their order and none twice,
\* and up to the last one nothing is missing but a result: what a job's end
\* overtakes inside the emission is all that a handle loses (#emit of the runner,
\* onmessage of the client).
THEOREM HandedInOrderHolds == Spec => []HandedInOrder
<1>1. Init => OrderInv /\ PageInv /\ HandedInv
  <2>1. Init => HandedInv
    <3> SUFFICES ASSUME Init PROVE HandedInv
      OBVIOUS
    <3>1. seen = <<>> /\ lastSeq = 0
      BY DEF Init
    <3>2. 1..0 = {} /\ IsSeq(<<>>) /\ Len(<<>>) = 0
      BY Empty
    <3>3. QED
      BY <3>1, <3>2 DEF HandedInv
  <2>2. QED
    BY <2>1, OrderInit, PageInit
<1>2. OrderInv /\ PageInv /\ HandedInv /\ [Next]_vars => OrderInv' /\ PageInv' /\ HandedInv'
  BY OrderNext, PageNext, HandedStep
<1>3. HandedInv => HandedInOrder
  <2> SUFFICES ASSUME HandedInv PROVE HandedInOrder
    OBVIOUS
  <2>1. DOMAIN seen = 1..Len(seen) /\ ToSet(seen) = {seen[i] : i \in 1..Len(seen)}
    BY Length DEF HandedInv
  <2>2. QED
    BY <2>1 DEF HandedInv, HandedInOrder, Skipped
<1>4. QED
  BY <1>1, <1>2, <1>3, PTL DEF Spec

=============================================================================
