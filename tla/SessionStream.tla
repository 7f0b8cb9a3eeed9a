--------------------------- MODULE SessionStream ---------------------------
(***************************************************************************)
(* A page attached to a session over a connection that drops: the server's *)
(* side of the socket (attachClient and handleCommand in                   *)
(* packages/server/src/server.ts), the client's handle with its outbox     *)
(* and reconnects (packages/client/src/index.ts), and the transcript the   *)
(* React hook folds (packages/react/src/use-session.ts).                   *)
(*                                                                         *)
(* What the engine says is a script; in between, the user's frames arrive. *)
(* A frame on the wire is lost when the connection drops before it was     *)
(* read.  Frames of a socket the page closed itself are still delivered,   *)
(* in any order with those of its next socket.  Listeners of the session   *)
(* run inside an emission, and one of them (a job's) may close the session *)
(* there: the sockets behind it then see the end before the result.        *)
(*                                                                         *)
(* A definition that directly precedes the one it resembles (AttachSkips,  *)
(* DropForGood, OpenKeepingOutbox; ApplyUnguarded in Transcript) is a       *)
(* faulty variant, used to show that a check can fail.                     *)
(***************************************************************************)
EXTENDS Transcript

CONSTANTS
  Scripts,      \* what the engine may say, sequences of events
  JobSession,   \* the session belongs to a job, whose queue closes it on its result
  MaxMessages,  \* bound on the messages the user types
  MaxDrops,     \* bound on dropped connections and failed attempts to connect
  MaxMounts     \* bound on the handles the page creates

ASSUME StreamAssumption ==
  /\ \A s \in Scripts : s \in Seq(ToSet(s)) /\ \A e \in ToSet(s) : WellFormed(e)
  /\ JobSession \in BOOLEAN
  /\ {MaxMessages, MaxDrops, MaxMounts} \subseteq Nat

VARIABLES
  log,      \* the runner's events, numbered by their position
  script,   \* what the engine still has to say
  handled,  \* the user's messages, as the server came to handle them
  phase,    \* the handle's socket
  down,     \* frames on their way to the client
  up,       \* frames on their way to the server
  oldUp,    \* those of sockets the page closed
  lastSeq,  \* #lastSeq of the handle
  outbox,   \* #outbox
  seen,     \* the events handed to the handle's listeners
  view,     \* the transcript of the page
  typed,    \* messages typed so far
  answered, \* questions the user has answered
  mounts, drops,
  closeRequested \* closeSession() was called

vars == <<log, script, handled, phase, down, up, oldUp, lastSeq, outbox, seen,
          view, typed, answered, mounts, drops, closeRequested>>

server == <<log, script, handled>>
client == <<lastSeq, outbox, seen, view, typed, answered, mounts, closeRequested>>

\* connecting: the socket was opened with afterSeq; attached: the server has
\* taken it; open: the client knows.
Phase == {"timer", "connecting", "attached", "open", "detached"}

Types == {log[i].type : i \in DOMAIN log}
Ended == "session_closed" \in Types
SessionStatus ==
  LET changes == Of(log, {"status_changed"})
  IN  IF changes = {} THEN "starting" ELSE log[Max(changes)].status

OpenQuestions ==
  {log[i].id : i \in Of(log, {"permission_requested"})}
    \ {log[i].id : i \in Of(log, {"permission_resolved"})}

StatusChanged(s) == [type |-> "status_changed", status |-> s]
EventFrame(seq) == [type |-> "event", seq |-> seq]
AttachedFrame == [type |-> "attached", status |-> SessionStatus]
ProtocolError == [type |-> "protocol_error"]

Message(n) == [type |-> "user_message", mount |-> mounts, id |-> n]
Decision(q) == [type |-> "permission_decision", id |-> q]
CloseFrame == [type |-> "close"]

Init ==
  /\ log = <<>>
  /\ script \in Scripts
  /\ handled = <<>>
  /\ phase = "timer"
  /\ down = <<>> /\ up = <<>> /\ oldUp = <<>>
  /\ lastSeq = 0 /\ outbox = <<>> /\ seen = <<>>
  /\ view = InitialTranscript
  /\ typed = 0 /\ answered = {} /\ mounts = 1 /\ drops = 0
  /\ closeRequested = FALSE

-----------------------------------------------------------------------------
(* The session and the server's side of the socket.                        *)

Attached == phase \in {"attached", "open"}

\* Events enter the log in their order; they reach the socket in the order the
\* listeners' calls nest.
Emit(events, order) ==
  /\ log' = log \o events
  /\ down' = IF Attached
             THEN down \o [i \in DOMAIN order |-> EventFrame(Len(log) + order[i])]
             ELSE down

EndEvents == <<[type |-> "session_closed"], StatusChanged("closed")>>

\* The engine goes on.  A job's result ends its session inside the emission.
EngineSays ==
  /\ script # <<>> /\ ~Ended
  /\ script' = Tail(script)
  /\ IF Head(script).type = "turn_result" /\ JobSession
     THEN Emit(<<Head(script)>> \o EndEvents, <<2, 3, 1>>)
     ELSE Emit(<<Head(script)>>, <<1>>)
  /\ UNCHANGED <<handled, phase, up, oldUp, drops, client>>

\* handleCommand of one frame: a message to a closed session is refused, an
\* answer to a question that is settled is ignored.
Handle(frame) ==
  CASE frame.type = "user_message" ->
         /\ handled' = Append(handled, frame)
         /\ IF Ended
            THEN /\ down' = IF Attached THEN Append(down, ProtocolError) ELSE down
                 /\ UNCHANGED log
            ELSE Emit(<<[type |-> "user_message", uuid |-> frame.id]>>, <<1>>)
    [] frame.type = "permission_decision" ->
         /\ UNCHANGED handled
         /\ IF frame.id \in OpenQuestions
            THEN Emit(<<[type |-> "permission_resolved", id |-> frame.id]>>, <<1>>)
            ELSE UNCHANGED <<log, down>>
    [] frame.type = "close" ->
         /\ UNCHANGED handled
         /\ IF Ended THEN UNCHANGED <<log, down>> ELSE Emit(EndEvents, <<1, 2>>)

FrameArrives ==
  \/ /\ up # <<>> /\ phase \in {"attached", "open"}
     /\ Handle(Head(up))
     /\ up' = Tail(up)
     /\ UNCHANGED <<oldUp, script, phase, drops, client>>
  \/ /\ oldUp # <<>>
     /\ Handle(Head(oldUp))
     /\ oldUp' = Tail(oldUp)
     /\ UNCHANGED <<up, script, phase, drops, client>>

AttachSkips ==
  /\ phase = "connecting"
  /\ phase' = "attached"
  /\ down' = <<AttachedFrame>> \o [i \in 1..Max({0, Len(log) - lastSeq - 1}) |-> EventFrame(lastSeq + i + 1)]
  /\ UNCHANGED <<server, up, oldUp, drops, client>>
\* attachClient: the snapshot, the log past afterSeq, then live events.
Attach ==
  /\ phase = "connecting"
  /\ phase' = "attached"
  /\ down' = <<AttachedFrame>> \o [i \in 1..(Len(log) - lastSeq) |-> EventFrame(lastSeq + i)]
  /\ UNCHANGED <<server, up, oldUp, drops, client>>

-----------------------------------------------------------------------------
(* The client's handle and the page.                                       *)

\* #connect
Connect ==
  /\ phase = "timer"
  /\ phase' = "connecting"
  /\ UNCHANGED <<server, down, up, oldUp, drops, client>>

OpenKeepingOutbox ==
  /\ phase = "attached"
  /\ phase' = "open"
  /\ up' = up \o outbox
  /\ UNCHANGED <<server, down, oldUp, drops, client>>
\* onopen: the outbox is flushed.
Open ==
  /\ phase = "attached"
  /\ phase' = "open"
  /\ up' = up \o outbox
  /\ outbox' = <<>>
  /\ UNCHANGED <<server, down, oldUp, drops, lastSeq, seen, view, typed, answered,
                 mounts, closeRequested>>

DropForGood ==
  /\ phase \in {"connecting", "attached", "open"} /\ drops < MaxDrops
  /\ drops' = drops + 1
  /\ phase' = "lost"
  /\ down' = <<>> /\ up' = <<>>
  /\ UNCHANGED <<server, oldUp, client>>
\* The connection fails or drops: what is on the wire is lost, and onclose arms
\* the timer of the next attempt.
Drop ==
  /\ phase \in {"connecting", "attached", "open"} /\ drops < MaxDrops
  /\ drops' = drops + 1
  /\ phase' = "timer"
  /\ down' = <<>> /\ up' = <<>>
  /\ UNCHANGED <<server, oldUp, client>>

\* onmessage: an event the handle has had is dropped, any other is handed to
\* the listeners, the page's reducer among them.
Receive ==
  /\ phase = "open" /\ down # <<>>
  /\ down' = Tail(down)
  /\ LET frame == Head(down) IN
       CASE frame.type = "attached" ->
              /\ view' = SeedFromSessionInfo(view, frame.status)
              /\ UNCHANGED <<lastSeq, seen>>
         [] frame.type = "event" ->
              IF frame.seq <= lastSeq
              THEN UNCHANGED <<lastSeq, seen, view>>
              ELSE /\ lastSeq' = frame.seq
                   /\ seen' = Append(seen, frame.seq)
                   /\ view' = ApplyEvent(view, frame.seq, log[frame.seq])
         [] OTHER -> UNCHANGED <<lastSeq, seen, view>>
  /\ UNCHANGED <<server, phase, up, oldUp, drops, outbox, typed, answered, mounts,
                 closeRequested>>

\* #sendFrame
Send(frame) ==
  IF phase = "open"
  THEN up' = Append(up, frame) /\ UNCHANGED outbox
  ELSE outbox' = Append(outbox, frame) /\ UNCHANGED up

Type ==
  /\ phase # "detached" /\ typed < MaxMessages
  /\ typed' = typed + 1
  /\ Send(Message(typed + 1))
  /\ UNCHANGED <<server, phase, down, oldUp, drops, lastSeq, seen, view, answered,
                 mounts, closeRequested>>

\* The user answers a question the page shows.
Decide(q) ==
  /\ phase # "detached" /\ q \in ToSet(view.approvals) \ answered
  /\ answered' = answered \cup {q}
  /\ Send(Decision(q))
  /\ UNCHANGED <<server, phase, down, oldUp, drops, lastSeq, seen, view, typed,
                 mounts, closeRequested>>

\* detach: the socket is closed, what was sent on it still arrives.
Leaves(sentLast) ==
  /\ phase' = "detached"
  /\ oldUp' = oldUp \o (IF Attached THEN up ELSE <<>>) \o sentLast
  /\ up' = <<>> /\ down' = <<>>

Detach ==
  /\ phase # "detached"
  /\ Leaves(<<>>)
  /\ UNCHANGED <<server, drops, client>>

\* closeSession: the close frame is sent, or queued, and the handle detaches.
CloseSession ==
  /\ phase # "detached"
  /\ closeRequested' = TRUE
  /\ Leaves(IF phase = "open" THEN <<CloseFrame>> ELSE <<>>)
  /\ outbox' = IF phase = "open" THEN outbox ELSE Append(outbox, CloseFrame)
  /\ UNCHANGED <<server, drops, lastSeq, seen, view, typed, answered, mounts>>

\* The page attaches with a new handle and keeps its transcript (StrictMode's
\* second mount, a changed client).
Remount ==
  /\ phase = "detached" /\ ~closeRequested /\ mounts < MaxMounts
  /\ mounts' = mounts + 1
  /\ phase' = "timer"
  /\ lastSeq' = 0 /\ seen' = <<>> /\ outbox' = <<>>
  /\ UNCHANGED <<server, down, up, oldUp, drops, view, typed, answered, closeRequested>>

Next ==
  \/ EngineSays \/ FrameArrives \/ Attach
  \/ Connect \/ Open \/ Drop \/ Receive \/ Type
  \/ \E q \in ToSet(view.approvals) : Decide(q)
  \/ Detach \/ CloseSession \/ Remount

\* The timer fires, a connection the network lets through is taken, frames
\* arrive in order, and the engine goes on.
Fairness ==
  /\ WF_vars(Connect) /\ WF_vars(Attach) /\ WF_vars(Open)
  /\ WF_vars(Receive) /\ WF_vars(FrameArrives) /\ WF_vars(EngineSays)

Spec == Init /\ [][Next]_vars /\ Fairness

-----------------------------------------------------------------------------
\* The handle implements the stream it promises: every event, replayed or live,
\* once and in order, through drops and reconnects.
Stream == INSTANCE EventStream
ImplementsStream == Stream!Spec

\* A handle of any session, of a job's too, is given the events in their order,
\* none twice, and none is missing up to the last but a result.  (Of a session
\* that is no job's ImplementsStream says more.)
HandedInOrder ==
  /\ \A i, j \in DOMAIN seen : i < j => seen[i] < seen[j]
  /\ \A n \in 1..lastSeq : n \in ToSet(seen) \/ log[n].type = "turn_result"

\* A page that stays attached comes to show the session as it is.
CaughtUp ==
  <>[](phase = "detached" \/ (view.lastSeq = Len(log) /\ view.status = SessionStatus))

\* The page shows what the log tells up to the last event it folded, through
\* replays by several handles and duplicated user messages.
TranscriptTells == Shows(view, SubSeq(log, 1, view.lastSeq))

\* The server handles the messages one handle sends at most once each and in
\* the order they were typed; a drop may lose some.
MessagesInOrder ==
  \A i, j \in DOMAIN handled :
    i < j /\ handled[i].mount = handled[j].mount => handled[i].id < handled[j].id

\* "Ask the server to terminate the session": a requested close, which no
\* reconnect can resend, reaches the session if the network stays up.
CloseReaches == closeRequested ~> Ended
=============================================================================
