--------------------------- MODULE SessionRunner ---------------------------
(***************************************************************************)
(* One live session of the Claude engine (packages/core/src/runner.ts):    *)
(* it owns the query() of the agent SDK, the streaming input queue, the    *)
(* table of permission questions that block the model, and the log that    *)
(* its listeners follow.                                                   *)
(*                                                                         *)
(* The SDK and the CLI process behind it are the environment: they take    *)
(* messages, ask for permission, end turns, end their stream or throw, and *)
(* what they had already sent may still come after the session was closed. *)
(* Listeners run inside #emit, before the handler that emitted goes on; a  *)
(* listener that ends the session there (closesOn) is part of the step.    *)
(*                                                                         *)
(* The log keeps the events that say something about questions and the     *)
(* end of a turn or of the session; the others only pass through.          *)
(*                                                                         *)
(* A definition that directly precedes the one it resembles, such as       *)
(* StateChangedAnyway before StateChanged, is a faulty variant of it.      *)
(* Nothing uses it; put in its place it shows that a property can fail.    *)
(***************************************************************************)
EXTENDS Naturals, Sequences, SequencesExt

CONSTANTS
  Question,         \* the canUseTool calls the model makes
  AskUserQuestion,  \* the ones that are questions to the user
  Configs,          \* the configurations to consider, see Config
  LateMessages,     \* what the CLI had sent may be handled after a close
  MaxMessages       \* bound on the messages sent to the session

\* What a session is created with, and the event on which a listener ends it:
\* the job queue on the first result, the auth watcher on the init message.
Config == [questionBehavior : {"ask", "auto", "deny"},
           prompt : BOOLEAN,
           closesOn : {"nothing", "system_init", "turn_result"}]

ASSUME RunnerAssumption ==
  /\ AskUserQuestion \subseteq Question
  /\ Configs \subseteq Config
  /\ LateMessages \in BOOLEAN
  /\ MaxMessages \in Nat

VARIABLES
  config,       \* #config, never changed
  status,       \* #status
  closed,       \* #closed
  pending,      \* #pending, in the order the questions were asked
  told,         \* what each canUseTool promise was resolved with
  log,          \* #events
  query,        \* #query: not created yet, up, or its stream is over
  turn,         \* the CLI is in a turn
  interrupted,  \* the CLI was told to stop this turn
  inbox,        \* messages the input queue holds for the SDK
  done,         \* the input queue takes no more
  sent          \* messages accepted so far (for the bound)

runnerVars == <<config, status, closed, pending, told, log, query, turn,
                interrupted, inbox, done, sent>>

Terminal == {"closed", "failed"}
Status == {"starting", "running", "awaiting_approval", "idle"} \cup Terminal
Answer == {"allow", "deny"}

Requested(q) == [type |-> "permission_requested", id |-> q]
Resolved(q, behavior, by) ==
  [type |-> "permission_resolved", id |-> q, behavior |-> behavior, by |-> by]
TurnResult == [type |-> "turn_result"]
SessionError == [type |-> "session_error"]
SessionClosed(reason) == [type |-> "session_closed", reason |-> reason]

\* The status after #setStatus(s): terminal states win.
Becomes(s) == IF status \in Terminal THEN status ELSE s

-----------------------------------------------------------------------------
RunnerInit ==
  /\ config \in Configs
  /\ status = "starting"
  /\ closed = FALSE
  /\ pending = <<>>
  /\ told = [q \in Question |-> "unasked"]
  /\ log = <<>>
  /\ query = "none"
  /\ turn = FALSE
  /\ interrupted = FALSE
  /\ inbox = (IF config.prompt THEN 1 ELSE 0)
  /\ done = FALSE
  /\ sent = inbox

\* #settleApproval of one open question.
Settle(q, behavior, by) ==
  /\ q \in ToSet(pending)
  /\ pending' = RemoveAt(pending, CHOOSE i \in DOMAIN pending : pending[i] = q)
  /\ told' = [told EXCEPT ![q] = behavior]
  /\ log' = Append(log, Resolved(q, behavior, by))
  /\ status' = IF pending' = <<>> /\ status = "awaiting_approval"
               THEN "running" ELSE status

EndsForgettingQuestions(events, s, reason) ==
  /\ ~closed
  /\ closed' = TRUE /\ done' = TRUE /\ pending' = <<>> /\ told' = told
  /\ log' = log \o events \o <<SessionClosed(reason)>>
  /\ status' = IF s = "failed" THEN s ELSE "closed"
\* close(): every open question is denied before the end is announced.
Ends(events, s, reason) ==
  /\ ~closed
  /\ closed' = TRUE
  /\ done' = TRUE
  /\ pending' = <<>>
  /\ told' = [q \in Question |-> IF q \in ToSet(pending) THEN "deny" ELSE told[q]]
  /\ log' = log \o events
                \o [i \in DOMAIN pending |-> Resolved(pending[i], "deny", "policy")]
                \o <<SessionClosed(reason)>>
  /\ status' = IF s = "failed" THEN s ELSE "closed"

\* fail(), and a query that throws.
Fails == Ends(<<SessionError>>, "failed", "error")

-----------------------------------------------------------------------------
\* #run goes on once the history is backfilled.
QueryStarts ==
  /\ query = "none"
  /\ query' = IF closed THEN "over" ELSE "up"
  /\ status' = IF closed \/ config.prompt THEN status ELSE Becomes("idle")
  /\ UNCHANGED <<config, closed, pending, told, log, turn, interrupted, inbox, done, sent>>

\* sendMessage: a queue whose consumer has gone drops what is pushed.
SendMessage ==
  /\ ~closed /\ sent < MaxMessages
  /\ sent' = sent + 1
  /\ inbox' = IF done THEN inbox ELSE inbox + 1
  /\ UNCHANGED <<config, status, closed, pending, told, log, query, turn, interrupted, done>>

\* The SDK leaves the prompt's iterator.
InputReturns ==
  /\ query = "up"
  /\ done' = TRUE
  /\ UNCHANGED <<config, status, closed, pending, told, log, query, turn, interrupted,
                 inbox, sent>>

\* The server that requires an API key learns from the init message that the
\* session runs on a subscription, and fails it.
watchAuthSource == config.closesOn = "system_init" /\ Fails

\* What the CLI sends is handled while the query is up, after a close too.
Heard == query = "up" /\ (closed => LateMessages)

\* The CLI takes a message and opens a turn with its init message, once every
\* question of the turn before is off its hands.
InitArrives ==
  /\ Heard /\ ~closed /\ ~turn /\ inbox > 0 /\ pending = <<>>
  /\ turn' = TRUE
  /\ inbox' = inbox - 1
  /\ \/ watchAuthSource
     \/ /\ config.closesOn # "system_init"
        /\ status' = Becomes("running")
        /\ UNCHANGED <<closed, pending, told, log, done>>
  /\ UNCHANGED <<config, query, interrupted, sent>>

StateChangedAnyway ==
  /\ Heard
  /\ status' = Becomes(IF turn THEN "running" ELSE "idle")
  /\ UNCHANGED <<config, closed, pending, told, log, query, turn, interrupted, inbox, done, sent>>
\* session_state_changed: a pending question outranks it.
StateChanged ==
  /\ Heard /\ pending = <<>>
  /\ status' = Becomes(IF turn THEN "running" ELSE "idle")
  /\ UNCHANGED <<config, closed, pending, told, log, query, turn, interrupted, inbox, done, sent>>

\* questionBehavior: 'auto' takes the recommended options, 'deny' refuses.
ByPolicy(q) == q \in AskUserQuestion /\ config.questionBehavior # "ask"
PolicyAnswer == IF config.questionBehavior = "auto" THEN "allow" ELSE "deny"

\* canUseTool: a question the policy answers, or one that waits for a client.
Asks(q) ==
  /\ Heard /\ turn /\ told[q] = "unasked"
  /\ \/ /\ ByPolicy(q)
        /\ told' = [told EXCEPT ![q] = PolicyAnswer]
        /\ log' = log \o <<Requested(q), Resolved(q, PolicyAnswer, "policy")>>
        /\ UNCHANGED <<status, pending>>
     \/ /\ ~ByPolicy(q)
        /\ told' = [told EXCEPT ![q] = "asked"]
        /\ pending' = Append(pending, q)
        /\ log' = Append(log, Requested(q))
        /\ status' = Becomes("awaiting_approval")
  /\ UNCHANGED <<config, closed, query, turn, interrupted, inbox, done, sent>>

SettleOnly(q, behavior, by) ==
  /\ Settle(q, behavior, by)
  /\ UNCHANGED <<config, closed, query, turn, interrupted, inbox, done, sent>>

\* resolvePermission, by a socket's frame or over REST.
Decides(q, behavior) == SettleOnly(q, behavior, "client")

\* The approval timer.
TimesOut(q) == SettleOnly(q, "deny", "timeout")

\* The abort signal of a call whose turn was stopped.
Aborts(q) == interrupted /\ SettleOnly(q, "deny", "policy")

Interrupt ==
  /\ query = "up" /\ ~closed /\ turn /\ ~interrupted
  /\ interrupted' = TRUE
  /\ UNCHANGED <<config, status, closed, pending, told, log, query, turn, inbox, done, sent>>

\* A result message: the CLI finishes a turn when nothing it asked is open, or
\* when it was interrupted.
TurnEnds ==
  /\ Heard /\ turn /\ (pending = <<>> \/ interrupted)
  /\ turn' = FALSE
  /\ interrupted' = FALSE
  /\ \/ /\ config.closesOn = "turn_result"
        /\ Ends(<<TurnResult>>, status, "server")
     \/ /\ closed \/ config.closesOn # "turn_result"
        /\ log' = Append(log, TurnResult)
        /\ status' = IF pending = <<>> THEN Becomes("idle") ELSE status
        /\ UNCHANGED <<closed, pending, told, done>>
  /\ UNCHANGED <<config, query, inbox, sent>>

\* The stream of the query ends by itself: the questions stay as they are.
StreamEnds ==
  /\ query = "up"
  /\ query' = "over"
  /\ turn' = FALSE
  /\ closed' = TRUE
  /\ done' = TRUE
  /\ log' = IF closed THEN log ELSE Append(log, SessionClosed("server"))
  /\ status' = Becomes("closed")
  /\ UNCHANGED <<config, pending, told, interrupted, inbox, sent>>

\* It throws.
StreamThrows ==
  /\ query = "up"
  /\ query' = "over"
  /\ turn' = FALSE
  /\ Fails
  /\ UNCHANGED <<config, interrupted, inbox, sent>>

\* A client, the registry or the queue closes the session.
CloseCalled ==
  /\ \E reason \in {"client", "server"} : Ends(<<>>, status, reason)
  /\ UNCHANGED <<config, query, turn, interrupted, inbox, sent>>

RunnerNext ==
  \/ QueryStarts \/ SendMessage \/ InputReturns \/ InitArrives \/ StateChanged
  \/ Interrupt \/ TurnEnds \/ StreamEnds \/ StreamThrows \/ CloseCalled
  \/ \E q \in Question :
       \/ Asks(q) \/ TimesOut(q) \/ Aborts(q)
       \/ \E behavior \in Answer : Decides(q, behavior)

-----------------------------------------------------------------------------
Positions(e) == {i \in DOMAIN log : log[i] = e}

\* Status, log and model agree on every question.  A session that lives says
\* 'awaiting_approval' exactly while one is open: the status is what clients, the
\* guard and the job's observers read.  Whoever is first to answer it, the
\* client, the timer, the abort signal or the end of the session, the model is
\* told once what the log says once, after the question was announced.
QuestionsAgree ==
  /\ status \notin Terminal => (status = "awaiting_approval" <=> pending # <<>>)
  /\ \A q \in Question :
       LET answers == {i \in DOMAIN log : /\ log[i].type = "permission_resolved"
                                          /\ log[i].id = q}
       IN  /\ told[q] \in Answer <=> answers # {}
           /\ \A i \in answers : /\ answers = {i}
                                 /\ log[i].behavior = told[q]
                                 /\ \E k \in Positions(Requested(q)) : k < i

=============================================================================
