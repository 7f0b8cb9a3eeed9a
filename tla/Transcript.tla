----------------------------- MODULE Transcript -----------------------------
(***************************************************************************)
(* The transcript reducer (packages/react/src/transcript.ts): what a page  *)
(* shows of a session, folded from the events of its log.  A text is the   *)
(* number of pieces it was put together from; 0 is the empty text.         *)
(***************************************************************************)
EXTENDS Naturals, Sequences, FiniteSetsExt, SequencesExt

\* A block of an assistant message.  A thinking block that was encrypted has
\* no text of its own.
TextBlock == [type |-> "text", text |-> 1]
ThinkingBlock(text) == [type |-> "thinking", text |-> text]
ToolUse(id) == [type |-> "tool_use", id |-> id]

\* What is in a message: blocks of these types, or of some other type.
IsBlock(b) ==
  /\ b.type = "thinking" => b.text \in Nat
  /\ b.type = "tool_use" => b = ToolUse(b.id)

WellFormed(e) ==
  e.type = "assistant_message" =>
    e.blocks \in Seq(ToSet(e.blocks)) /\ \A b \in ToSet(e.blocks) : IsBlock(b)

\* The elements of s outside S, in their order.
Without(s, S) ==
  LET kept[n \in 0..Len(s)] ==
        IF n = 0 THEN <<>>
        ELSE IF s[n] \in S THEN kept[n - 1] ELSE Append(kept[n - 1], s[n])
  IN  kept[Len(s)]

\* The item that shows what is being streamed of a message, and its thought.
Streaming == <<"streaming">>
StreamingThinking == <<"streaming-thinking">>

Streamed(item) == \/ item.kind = "assistant_text" /\ item.id = Streaming
                  \/ item.kind = "thinking" /\ item.id = StreamingThinking

Item(kind, id, state, text) == [kind |-> kind, id |-> id, state |-> state, text |-> text]

At(items, kind, id) == {i \in DOMAIN items : items[i].kind = kind /\ items[i].id = id}

TextOf(items, kind, id) ==
  IF At(items, kind, id) = {} THEN 0 ELSE items[Min(At(items, kind, id))].text

Upsert(items, item) ==
  LET at == At(items, item.kind, item.id)
  IN  IF at = {} THEN Append(items, item) ELSE [items EXCEPT ![Min(at)] = item]

\* Every item of a tool call takes its state from what is known of the call;
\* a call the transcript does not show is ignored.
ToolBecomes(items, id, state) ==
  [i \in DOMAIN items |->
     IF items[i].kind = "tool_call" /\ items[i].id = id
     THEN [items[i] EXCEPT !.state = state] ELSE items[i]]

\* One block of an assistant message; the streamed thought fills one block.
AddBlock(acc, block, id) ==
  LET thought == IF block.type # "thinking" THEN 0
                 ELSE IF block.text > 0 THEN block.text ELSE acc.thought
  IN  CASE block.type = "text" ->
             [acc EXCEPT !.items = Upsert(@, Item("assistant_text", id, "complete", block.text))]
        [] block.type = "thinking" ->
             [items |-> IF thought = 0 THEN acc.items
                        ELSE Upsert(acc.items, Item("thinking", id, "complete", thought)),
              thought |-> 0]
        [] block.type = "tool_use" ->
             [acc EXCEPT !.items = Upsert(@, Item("tool_call", block.id, "running", 0))]
        [] OTHER -> acc

\* The full message supersedes what was streamed of it.
Assistant(items, e) ==
  LET start == [items   |-> Without(items, {item \in ToSet(items) : Streamed(item)}),
                thought |-> TextOf(items, "thinking", StreamingThinking)]
      after[n \in 0..Len(e.blocks)] ==
        IF n = 0 THEN start ELSE AddBlock(after[n - 1], e.blocks[n], <<e.uuid, n>>)
  IN  after[Len(e.blocks)].items

\* The item a streamed piece is added to.
StreamPiece(items, kind, id) == Upsert(items, Item(kind, id, "streaming", TextOf(items, kind, id) + 1))

ItemsAfter(items, seq, e) ==
  CASE e.type = "user_message"         -> Upsert(items, Item("user", e.uuid, "complete", 1))
    [] e.type = "tool_result"          -> ToolBecomes(items, e.id, IF e.error THEN "failed" ELSE "settled")
    [] e.type = "assistant_message"    -> Assistant(items, e)
    [] e.type = "text_delta"           -> StreamPiece(items, "assistant_text", Streaming)
    [] e.type = "thinking_delta"       -> StreamPiece(items, "thinking", StreamingThinking)
    [] e.type = "execution_dispatched" -> ToolBecomes(items, e.id, IF e.deferred THEN "deferred" ELSE "pending")
    [] e.type = "execution_result"     -> ToolBecomes(items, e.id, "settled")
    [] e.type = "execution_failed"     -> ToolBecomes(items, e.id, "failed")
    [] e.type \in {"turn_result", "file_delivered", "session_error", "session_closed"} ->
         Append(items, Item(e.type, seq, "complete", 1))
    [] OTHER -> items

ApprovalsAfter(approvals, e) ==
  CASE e.type = "permission_requested" -> Append(approvals, e.id)
    [] e.type = "permission_resolved"  -> Without(approvals, {e.id})
    [] OTHER -> approvals

StatusAfter(status, e) == IF e.type = "status_changed" THEN e.status ELSE status

InitialTranscript == [lastSeq |-> 0, status |-> "starting", items |-> <<>>, approvals |-> <<>>]

ApplyUnguarded(state, seq, e) ==
  [lastSeq   |-> seq,
   status    |-> StatusAfter(state.status, e),
   items     |-> ItemsAfter(state.items, seq, e),
   approvals |-> ApprovalsAfter(state.approvals, e)]
\* applyEvent: an event the state has seen, or one behind it, changes nothing.
ApplyEvent(state, seq, e) ==
  IF seq <= state.lastSeq THEN state
  ELSE [lastSeq   |-> seq,
        status    |-> StatusAfter(state.status, e),
        items     |-> ItemsAfter(state.items, seq, e),
        approvals |-> ApprovalsAfter(state.approvals, e)]

\* seedFromSessionInfo: the snapshot's status counts until an event arrived.
SeedFromSessionInfo(state, status) ==
  IF state.lastSeq = 0 THEN [state EXCEPT !.status = status] ELSE state

-----------------------------------------------------------------------------
(* What the transcript of a log should show, said of the log itself.       *)

Latest(log, S) == IF S = {} THEN 0 ELSE Max(S)
Of(log, types) == {i \in DOMAIN log : log[i].type \in types}

UsesTool(e, id) ==
  e.type = "assistant_message" /\ \E k \in DOMAIN e.blocks : e.blocks[k] = ToolUse(id)

\* The last word about a call after it was shown.
ToolState(log, id) ==
  LET shown == Latest(log, {i \in DOMAIN log : UsesTool(log[i], id)})
      said == {i \in Of(log, {"tool_result", "execution_dispatched", "execution_result",
                              "execution_failed"}) : i > shown /\ log[i].id = id}
      e == log[Max(said)]
  IN  CASE said = {} -> "running"
        [] OTHER ->
             CASE e.type = "tool_result" -> IF e.error THEN "failed" ELSE "settled"
               [] e.type = "execution_dispatched" -> IF e.deferred THEN "deferred" ELSE "pending"
               [] e.type = "execution_result" -> "settled"
               [] e.type = "execution_failed" -> "failed"

Pieces(log, type) ==
  Cardinality({i \in Of(log, {type}) : i > Latest(log, Of(log, {"assistant_message"}))})

\* The transcript of a log: one item per call, in the state last reported; one
\* per user message, however often it was replayed; the text streamed since the
\* last full message, and none before it; no empty thought; the questions that
\* were asked and not resolved.
Shows(view, log) ==
  /\ \A i \in Of(log, {"assistant_message"}) : \A k \in DOMAIN log[i].blocks :
       log[i].blocks[k].type = "tool_use" =>
         LET id == log[i].blocks[k].id
             at == At(view.items, "tool_call", id)
         IN  Cardinality(at) = 1 /\ \A n \in at : view.items[n].state = ToolState(log, id)
  /\ \A i \in Of(log, {"user_message"}) : Cardinality(At(view.items, "user", log[i].uuid)) = 1
  /\ TextOf(view.items, "assistant_text", Streaming) = Pieces(log, "text_delta")
  /\ TextOf(view.items, "thinking", StreamingThinking) = Pieces(log, "thinking_delta")
  /\ \A i \in DOMAIN view.items : view.items[i].kind = "thinking" => view.items[i].text > 0
  /\ ToSet(view.approvals) =
       {log[i].id : i \in {k \in Of(log, {"permission_requested"}) :
          ~\E r \in Of(log, {"permission_resolved"}) : r > k /\ log[r].id = log[k].id}}
=============================================================================
