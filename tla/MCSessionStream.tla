-------------------------- MODULE MCSessionStream --------------------------
EXTENDS SessionStream

OtherBlock == [type |-> "redacted_thinking"]
User(uuid) == [type |-> "user_message", uuid |-> uuid]
Assist(uuid, blocks) == [type |-> "assistant_message", uuid |-> uuid, blocks |-> blocks]
Delta(kind) == [type |-> kind]
Result(id, error) == [type |-> "tool_result", id |-> id, error |-> error]
Dispatched(id, deferred) == [type |-> "execution_dispatched", id |-> id, deferred |-> deferred]
Execution(outcome, id) == [type |-> outcome, id |-> id]
Asked(id) == [type |-> "permission_requested", id |-> id]
TurnResult == [type |-> "turn_result"]

\* A turn that streams and calls a tool in the client; a deferred call and an
\* encrypted thought; a resumed session, whose last user message the engine
\* repeats, and a question.
Calls == <<Delta("text_delta"), Delta("text_delta"), Assist("a", <<TextBlock, ToolUse("c")>>),
           Dispatched("c", FALSE), Execution("execution_result", "c"), Result("c", TRUE)>>
Defers == <<Delta("thinking_delta"), Assist("a", <<ThinkingBlock(0), ThinkingBlock(0)>>),
            Assist("b", <<ToolUse("d")>>), Dispatched("d", TRUE), StatusChanged("parked"),
            Execution("execution_failed", "d")>>
Resumes == <<User(0), Assist("a", <<ThinkingBlock(1), OtherBlock, TextBlock>>), User(0), Asked("q"),
             TurnResult>>
ThreeTurns == {Calls, Defers, Resumes}

\* What a job says: its result ends it.
Job == {<<Delta("text_delta"), Assist("a", <<ToolUse("c")>>), Result("c", FALSE), TurnResult>>}
=============================================================================
