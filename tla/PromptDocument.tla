--------------------------- MODULE PromptDocument ---------------------------
(***************************************************************************)
(* The document of a prompt area and the handlers that edit it             *)
(* (use-prompt-area.ts, use-prompt-area-events.ts).  One action is one     *)
(* handler with the render and the effect its onChange sets off, and ends  *)
(* with the editor showing its value.  Composing text and the search       *)
(* behind a dropdown are left out.  A definition that directly precedes    *)
(* the one it resembles (here and in PromptText) is a faulty variant, used *)
(* to show that a check can fail.                                          *)
(***************************************************************************)
EXTENDS PromptDom

CONSTANTS Launches,      \* the triggers with mode launch
          Typed,         \* characters the user types
          Suggested,     \* the values a dropdown offers, each its own label
          Texts,         \* texts set or appended
          Foreign,       \* clipboards filled in another editor or application
          Values,        \* values the parent sets
          Documents,     \* initial values
          MaxLength,     \* the maxLength prop
          MaxUndo,       \* MAX_UNDO_HISTORY
          MaxEdits,      \* bound: edits and copies of a behaviour
          MaxMoves,      \* bound: times the user selects or opens a chip
          MaxSpan,       \* bound: characters the user selects
          Cap            \* bound: no edit adds to a text longer than this

VARIABLES value,      \* the segments last given to onChange
          dom,        \* the children of the editor
          sentinel,   \* the <br> behind a trailing line break is among them, last
          sel,        \* the selection [from, to], a caret when both are equal
          active,     \* activeTrigger
          editing,    \* editingChip: the chip whose dropdown is open, by segment index
          launched,   \* what an opened launcher holds for its insertChip
          markdown,   \* the markdown prop
          history,    \* undoState, and undoBaseState while its timer runs
          clipboard,  \* what was copied or cut here last
          did,        \* history: the operation that led here
          edits, moves

vars == <<value, dom, sentinel, sel, active, editing, launched, markdown, history, clipboard,
          did, edits, moves>>

NotEditing == [at |-> 0, chip |-> TextSegment(<<>>)]
NothingLaunched == [segments |-> <<>>, trigger |-> NoTrigger]
EmptyClipboard == [segments |-> <<>>, text |-> <<>>]
Caret(p) == [from |-> p, to |-> p]
IsCaret == sel.from = sel.to

Read == readSegmentsFromDOM(dom, sentinel)
Chars == segmentsToPlainText(value)
HasRoom == Len(Chars) < Cap

\* what the browser itself leaves of an edit of a range, and what is read of it
Spliced(segs, from, to, t) ==
    mergeAdjacentTextSegments(Before(segs, from) \o NonEmptyText(t) \o After(segs, to))
ReadAfter(from, to, t, kept) ==
    readSegmentsFromDOM(normalizeEditorDOM(Spliced(value, from, to, t)), kept)
\* the browser's edit may take the sentinel with it
SentinelLeft == {sentinel, FALSE}

\* runTriggerDetection, dismissTrigger
Detect(segs, at) ==
    /\ LET text == segmentsToPlainText(segs)
       IN  active' = detectActiveTrigger(text, Min({at, Len(text)}))
    /\ editing' = NotEditing
Dismiss == active' = NoTrigger /\ editing' = NotEditing
KeepTrigger == UNCHANGED <<active, editing>>

\* the undo history: an edit records what it starts from, and ends all redoing
NoHistory == [undo |-> <<>>, redo |-> <<>>, base |-> <<>>]
Recorded(h, segs) ==
    LET stack == Append(h.undo, segs)
    IN  [h EXCEPT !.undo = IF Len(stack) > MaxUndo THEN Tail(stack) ELSE stack, !.redo = <<>>]
\* what a session of typing started from, recorded
Flushed(h) == IF h.base = <<>> THEN h ELSE [Recorded(h, h.base[1]) EXCEPT !.base = <<>>]
pushUndo == history' = Recorded(history, Read)
Typing == history' = [history EXCEPT !.base = IF @ = <<>> THEN <<value>> ELSE @]
Unrecorded == UNCHANGED history

\* bound: undoing, pausing and leaving the field come while steps are left
StepsLeft == edits + moves <= MaxEdits

Done(op) ==
    /\ edits < MaxEdits /\ edits' = edits + 1
    /\ did' = op
    /\ UNCHANGED moves
Render(segs, decorated) ==
    /\ dom' = renderSegmentsToDOM(segs, decorated)
    /\ sentinel' = EndsWithBreak(dom')
\* onChange, renderSegmentsToDOM and setCursorAtOffset
Commit(op, segs, at) ==
    /\ Done(op)
    /\ value' = segs
    /\ Render(segs, markdown)
    /\ sel' = Caret(findDOMPosition(dom', at))
    /\ UNCHANGED markdown
\* onChange and a render that restores the caret saved among the old children
CommitRestoring(op, segs, old, at) ==
    /\ Done(op)
    /\ value' = segs
    /\ Render(segs, markdown)
    /\ sel' = Caret(restoreCursorPosition(dom', saveCursorPosition(old, at)))
    /\ UNCHANGED markdown
\* the value effect after an onChange that rendered nothing
Settled(segs) == IF markdown THEN normalizeListPrefixes(segs, TRUE) ELSE segs

ShiftForgotten(renumbered, at) == Edit(renumbered.segments, at)
\* the caret goes where the rewritten numbers shift it
Remapped(renumbered, at) == Edit(renumbered.segments, remapOffset(at, renumbered.edits))
CommitEdit(op, result) == Commit(op, result.segments, result.caret)
\* numbers are a projection of position: rebuilt on every structural edit
applyEditResult(op, result) ==
    CommitEdit(op, IF markdown THEN Remapped(renumberOrderedListSegments(result.segments), result.caret)
                   ELSE result)

-----------------------------------------------------------------------------
(* Typing.                                                                 *)

\* handleInput: cut to maxLength, or a typed list marker, or numbers rebuilt
Input(segs, at, t, formatted) ==
    IF Len(t) > MaxLength THEN Edit(truncateSegmentsToLength(segs, MaxLength), Min({at, MaxLength}))
    ELSE IF markdown /\ formatted # NoEdit THEN formatted
    ELSE IF markdown /\ hasOrderedListRun(t) THEN Remapped(renumberOrderedListSegments(segs), at)
    ELSE Edit(segs, at)
\* when what was read is the new value, nothing renders
CommitRead(op, segs, edit, kept) ==
    /\ Done(op)
    /\ value' = edit.segments
    /\ dom' = renderSegmentsToDOM(edit.segments, markdown)
    /\ sentinel' = IF value' = segs THEN kept ELSE EndsWithBreak(dom')
    /\ sel' = Caret(findDOMPosition(dom', edit.caret))
    /\ UNCHANGED markdown
InputRead(op, segs, at, kept) ==
    /\ CommitRead(op, segs, Input(segs, at, segmentsToPlainText(segs),
                                  autoFormatListPrefix(segs, at)), kept)
    /\ active' = detectActiveTrigger(segmentsToPlainText(value'), sel'.from)
    /\ editing' = NotEditing
    /\ IF \/ Len(segmentsToPlainText(segs)) > MaxLength
          \/ markdown /\ autoFormatListPrefix(segs, at) # NoEdit
       THEN Unrecorded ELSE Typing
    /\ UNCHANGED <<launched, clipboard>>
\* what the browser's edit left is read
handleInput(op, from, to, t, at) ==
    \E kept \in SentinelLeft :
        LET segs == ReadAfter(from, to, t, kept)
        IN  InputRead(op, segs, Min({at, Len(segmentsToPlainText(segs))}), kept)

Launching(c) == c \in Launches /\ isValidTriggerPosition(Chars, sel.from, Position[c])
Resolving(c) == c = " " /\ active.char \in ResolvesOnSpace /\ active.query # <<>>

Type(c) ==
    /\ HasRoom /\ ~Launching(c) /\ ~Resolving(c)
    /\ handleInput("type", sel.from, sel.to, <<c>>, sel.from + 1)

\* the character never enters the editor; insertChip keeps the segments of now
Launch(c) ==
    /\ HasRoom /\ Launching(c) /\ launched = NothingLaunched
    /\ Done("launch")
    /\ launched' = [segments |-> replaceTextRange(Read, sel.from, sel.from, <<c>>),
                    trigger |-> [char |-> c, start |-> sel.from, query |-> <<>>]]
    /\ UNCHANGED <<value, dom, sentinel, sel, active, editing, markdown, history, clipboard>>
InsertLaunched(v) ==
    /\ launched # NothingLaunched
    /\ LET chip == resolveChip(launched.segments, launched.trigger, v, v, FALSE)
       IN  Commit("launched", chip.segments, chip.caret)
    /\ launched' = NothingLaunched
    /\ KeepTrigger /\ Unrecorded /\ UNCHANGED clipboard

\* Space on a trigger word
autoResolveActiveTrigger ==
    /\ HasRoom /\ Resolving(" ")
    /\ LET chip == resolveChip(Read, active, active.query, active.query, TRUE)
       IN  Commit("resolve", chip.segments, chip.caret)
    /\ Dismiss
    /\ Unrecorded /\ UNCHANGED <<launched, clipboard>>

-----------------------------------------------------------------------------
(* Keys.                                                                   *)

\* Enter or Shift+Enter in a list line
ContinueList ==
    /\ HasRoom /\ markdown /\ InList(Chars, sel.from)
    /\ applyEditResult("continue", insertListContinuation(Read, sel.from))
    /\ KeepTrigger /\ Unrecorded /\ UNCHANGED <<launched, clipboard>>
NewlineKeepsSelected ==
    /\ HasRoom /\ ~(markdown /\ InList(Chars, sel.from))
    /\ applyEditResult("newline", Edit(replaceTextRange(Read, sel.from, sel.from, <<NL>>), sel.from + 1))
    /\ KeepTrigger /\ pushUndo /\ UNCHANGED <<launched, clipboard>>
\* Shift+Enter elsewhere
InsertNewline ==
    /\ HasRoom /\ ~(markdown /\ InList(Chars, sel.from))
    /\ applyEditResult("newline", Edit(replaceTextRange(Read, sel.from, sel.to, <<NL>>), sel.from + 1))
    /\ KeepTrigger /\ pushUndo /\ UNCHANGED <<launched, clipboard>>
\* Tab and Shift+Tab, while no trigger is active
Indent ==
    /\ HasRoom /\ markdown /\ active = NoTrigger /\ InList(Chars, sel.from)
    /\ indentListItem(Read, sel.from) # NoEdit
    /\ applyEditResult("indent", indentListItem(Read, sel.from))
    /\ KeepTrigger /\ Unrecorded /\ UNCHANGED <<launched, clipboard>>
Outdent ==
    /\ markdown /\ active = NoTrigger /\ InList(Chars, sel.from)
    /\ outdentListItem(Read, sel.from) # NoEdit
    /\ applyEditResult("outdent", outdentListItem(Read, sel.from))
    /\ KeepTrigger /\ Unrecorded /\ UNCHANGED <<launched, clipboard>>
\* Cmd+B and Cmd+I
CommitSelection(op, wrapped) ==
    /\ Done(op)
    /\ value' = wrapped.segments
    /\ Render(wrapped.segments, markdown)
    /\ sel' = [from |-> findDOMPosition(dom', wrapped.from), to |-> findDOMPosition(dom', wrapped.to)]
    /\ UNCHANGED markdown
Wrap(op, marker) ==
    /\ HasRoom /\ markdown /\ ~IsCaret
    /\ CommitSelection(op, toggleMarkdownWrap(Read, sel.from, sel.to, marker))
    /\ KeepTrigger /\ pushUndo /\ UNCHANGED <<launched, clipboard>>

\* Backspace or Delete over a selection
DeleteSelection ==
    /\ ~IsCaret
    /\ applyEditResult("delete", Edit(replaceTextRange(Read, sel.from, sel.to, <<>>), sel.from))
    /\ active' = detectActiveTrigger(segmentsToPlainText(value'), sel'.from)
    /\ editing' = NotEditing /\ pushUndo /\ UNCHANGED <<launched, clipboard>>

ChipsEndingAt(at) == {i \in DOMAIN dom : dom[i].kind = "chip" /\ NodeEnd(dom, i) = at}
ChipsStartingAt(at) == {i \in DOMAIN dom : dom[i].kind = "chip" /\ NodeStart(dom, i) = at}
\* the caret stands at the end of a text node inside an emphasised span a chip follows
ChipsBehindSpan(at) ==
    {i \in 2..Len(dom) :
        /\ dom[i].kind = "chip" /\ dom[i - 1].marker > 0
        /\ at - NodeStart(dom, i - 1)
              \in {dom[i - 1].marker, Len(dom[i - 1].text) - dom[i - 1].marker}}

removeChipNodeFromDOM(op, i) ==
    /\ CommitRestoring(op, removeChipAtIndex(Read, i), dom, sel.from)
    /\ Detect(value', sel'.from)
revertChipNodeToText(i) ==
    /\ Commit("revert", revertChipAtIndex(Read, i), OffsetOf(Read, i + 1))
    /\ Detect(value', sel'.from)

Unprefixes == markdown /\ removeListPrefix(Read, sel.from) # NoEdit
\* Backspace: the list prefix, else the chip behind, else one character
RemovePrefix ==
    /\ IsCaret /\ Unprefixes
    /\ applyEditResult("unprefix", removeListPrefix(Read, sel.from))
    /\ active' = detectActiveTrigger(segmentsToPlainText(value'), sel'.from)
    /\ editing' = NotEditing /\ Unrecorded /\ UNCHANGED <<launched, clipboard>>
handleChipBackspace ==
    /\ IsCaret /\ ~Unprefixes
    /\ \E i \in ChipsEndingAt(sel.from) :
          IF dom[i].chip.autoResolved THEN revertChipNodeToText(i)
          ELSE removeChipNodeFromDOM("unchip", i)
    /\ Unrecorded /\ UNCHANGED <<launched, clipboard>>
Backspace ==
    /\ IsCaret /\ ~Unprefixes /\ sel.from > 0 /\ ChipsEndingAt(sel.from) = {}
    /\ handleInput("erase", sel.from - 1, sel.from, <<>>, sel.from - 1)

\* Delete: the chip ahead, else one character
ChipAhead == IF ChipsStartingAt(sel.from) # {} THEN ChipsStartingAt(sel.from)
             ELSE ChipsBehindSpan(sel.from)
handleChipForwardDelete ==
    /\ IsCaret
    /\ \E i \in ChipAhead : removeChipNodeFromDOM("unchip ahead", i)
    /\ Unrecorded /\ UNCHANGED <<launched, clipboard>>
DeleteForward ==
    /\ IsCaret /\ sel.from < Len(Chars) /\ ChipAhead = {}
    /\ handleInput("erase", sel.from, sel.from + 1, <<>>, sel.from)

-----------------------------------------------------------------------------
(* Chips and the dropdown.                                                 *)

\* a click on a chip whose trigger reopens its dropdown
OpenChip ==
    /\ edits < MaxEdits /\ moves < MaxMoves /\ moves' = moves + 1
    /\ \E i \in DOMAIN dom :
          /\ dom[i].kind = "chip" /\ dom[i].chip.trigger \notin Launches
          /\ editing' = [at |-> i, chip |-> dom[i].chip]
          /\ active' = [char |-> dom[i].chip.trigger, start |-> 0, query |-> <<>>]
    /\ did' = "open"
    /\ UNCHANGED <<value, dom, sentinel, sel, launched, markdown, history, clipboard, edits>>

Offers == active # NoTrigger /\ active.char \notin Launches
selectSuggestion(v) ==
    /\ HasRoom /\ Offers /\ editing = NotEditing
    /\ LET chip == resolveChip(Read, active, v, v, FALSE)
       IN  Commit("select", chip.segments, chip.caret)
    /\ Dismiss /\ Unrecorded /\ UNCHANGED <<launched, clipboard>>

\* the segment the open chip is now: where it was clicked if the same value is
\* there, else the only chip with its value
SameChip(segs, i) == /\ i \in DOMAIN segs /\ IsChip(segs[i])
                     /\ segs[i].trigger = editing.chip.trigger /\ segs[i].value = editing.chip.value
OpenChipAt(segs) ==
    LET matches == {i \in DOMAIN segs : SameChip(segs, i)}
    IN  IF SameChip(segs, editing.at) THEN {editing.at}
        ELSE IF Cardinality(matches) = 1 THEN matches ELSE {}
replaceInPlace(v) ==
    /\ HasRoom /\ Offers /\ editing # NotEditing
    /\ \E i \in OpenChipAt(Read) :
          LET segs == ReplaceAt(Read, i, ChipSegment(active.char, v, v, FALSE))
              spaced == i = Len(segs) \/ IsChip(segs[i + 1])
              next == IF spaced THEN InsertAt(segs, i + 1, TextSegment(<<" ">>)) ELSE segs
          IN  Commit("replace", next, OffsetOf(next, i + 1) + (IF spaced THEN 1 ELSE 0))
    /\ Dismiss /\ pushUndo /\ UNCHANGED <<launched, clipboard>>
\* the field lost focus, or Escape was pressed
handleBlur ==
    /\ active # NoTrigger /\ StepsLeft
    /\ did' = "dismissed"
    /\ Dismiss /\ UNCHANGED <<value, dom, sentinel, sel, launched, markdown, history, clipboard, edits, moves>>
replaceNothing ==
    /\ Offers /\ editing # NotEditing /\ OpenChipAt(Read) = {}
    /\ did' = "nothing"
    /\ Dismiss /\ UNCHANGED <<value, dom, sentinel, sel, launched, markdown, history, clipboard, edits, moves>>

-----------------------------------------------------------------------------
(* The clipboard, the handle and the props.                                *)

\* external text: bullets and numbers normalized, trigger words resolved
Pasted(t) ==
    LET bulleted == normalizeListPrefixText(t, TRUE)
    IN  IF ~markdown THEN t
        ELSE IF hasOrderedListRun(bulleted)
        THEN segmentsToPlainText(renumberOrderedListSegments(<<TextSegment(bulleted)>>).segments)
        ELSE bulleted
PasteText(t) ==
    /\ HasRoom
    /\ \E kept \in SentinelLeft :
       LET in == Pasted(t)
           nodes == normalizeEditorDOM(Spliced(value, sel.from, sel.to, in))
           segs == readSegmentsFromDOM(nodes, kept)
       IN  CommitRestoring("paste",
               IF ResolvesOnSpace = {} THEN Settled(segs) ELSE resolveTriggersInSegments(segs),
               nodes, sel.from + Len(in))
    /\ Detect(value', sel'.from) /\ pushUndo /\ UNCHANGED <<launched, clipboard>>
\* segments copied here, put at the caret (a selection is deleted first)
insertSegmentsAtCursor(segs, copied, at) ==
    mergeAdjacentTextSegments(Before(segs, at) \o copied \o After(segs, at))
PasteSegments(copied) ==
    /\ HasRoom /\ IsCaret
    /\ CommitRestoring("paste segments", insertSegmentsAtCursor(Read, copied, sel.from),
                       dom, sel.from)
    /\ Detect(value', sel'.from) /\ pushUndo /\ UNCHANGED <<launched, clipboard>>
PasteNothing ==
    /\ Done("nothing pasted")
    /\ pushUndo
    /\ UNCHANGED <<value, dom, sentinel, sel, active, editing, launched, markdown, clipboard>>
\* what is pasted here: its segments when they are ones and hold a chip, else its text
parseSegmentsFromClipboard(items) ==
    IF \A i \in DOMAIN items : items[i].type \in {"text", "chip"} THEN items ELSE <<>>
handlePaste(c) ==
    LET parsed == parseSegmentsFromClipboard(c.segments)
    IN  \/ parsed # <<>> /\ PasteSegments(parsed)
        \/ parsed = <<>> /\ c.text # <<>> /\ PasteText(c.text)
        \/ parsed = <<>> /\ c.text = <<>> /\ PasteNothing

\* a selection's fragment: each text node, chip and break in it, no decoration
walkFragmentNodes(segs, from, to) == Before(After(segs, from), to - from)
serializeFragmentToSegments(fragment) == mergeAdjacentTextSegments(fragment)
serializeFragmentToPlainText(fragment) == segmentsToPlainText(fragment)
Copied(fragment) ==
    [segments |-> IF \E i \in DOMAIN fragment : IsChip(fragment[i])
                  THEN serializeFragmentToSegments(fragment) ELSE <<>>,
     text |-> serializeFragmentToPlainText(fragment)]
\* copying nothing empties the clipboard
handleCopy ==
    /\ Done("copied")
    /\ clipboard' = Copied(walkFragmentNodes(Read, sel.from, sel.to)) /\ clipboard' # clipboard
    /\ UNCHANGED <<value, dom, sentinel, sel, active, editing, launched, markdown, history>>
handleCut ==
    /\ clipboard' = Copied(walkFragmentNodes(Read, sel.from, sel.to))
    /\ \E kept \in SentinelLeft :
       LET nodes == normalizeEditorDOM(Spliced(value, sel.from, sel.to, <<>>))
           segs == readSegmentsFromDOM(nodes, kept)
       IN  /\ CommitRestoring("cut", Settled(segs), nodes, sel.from)
           /\ Detect(segs, sel.from)
    /\ pushUndo /\ UNCHANGED launched

insertChip(v) ==
    /\ HasRoom
    /\ CommitRestoring("insertChip",
           Read \o <<ChipSegment("@", v, v, FALSE), TextSegment(<<" ">>)>>, dom, sel.from)
    /\ KeepTrigger /\ Unrecorded /\ UNCHANGED <<launched, clipboard>>
setText(t) ==
    /\ Commit("setText", plainTextToSegments(t), Len(t))
    /\ KeepTrigger /\ pushUndo /\ UNCHANGED <<launched, clipboard>>
appendText(t) ==
    /\ HasRoom
    /\ LET next == IF Read # <<>> /\ IsText(Last(Read))
                   THEN Front(Read) \o <<TextSegment(Last(Read).text \o t)>>
                   ELSE Read \o <<TextSegment(t)>>
       IN  Commit("appendText", next, OffsetOf(next, Len(next) + 1))
    /\ KeepTrigger /\ pushUndo /\ UNCHANGED <<launched, clipboard>>
clear ==
    /\ value # <<>>
    /\ Commit("clear", <<>>, 0)
    /\ history' = NoHistory
    /\ KeepTrigger /\ UNCHANGED <<launched, clipboard>>

\* the parent flips the mode, or sets another value
toggleMarkdown ==
    /\ Done("toggle")
    /\ markdown' = ~markdown
    /\ value' = normalizeListPrefixes(value, markdown')
    /\ Render(value', markdown')
    /\ sel' = Caret(restoreCursorPosition(dom', saveCursorPosition(dom, sel.from)))
    /\ KeepTrigger /\ Unrecorded /\ UNCHANGED <<launched, clipboard>>
SetValue(segs) ==
    /\ segs # value
    /\ CommitRestoring("value", Settled(segs), dom, sel.from)
    /\ KeepTrigger /\ Unrecorded /\ UNCHANGED <<launched, clipboard>>

\* Ctrl+Z and Ctrl+Shift+Z record a typing session first
Move(op, segs, next) ==
    /\ value' = segs
    /\ Render(segs, markdown)
    /\ sel' = Caret(restoreCursorPosition(dom', saveCursorPosition(dom, sel.from)))
    /\ history' = next
    /\ did' = op
    /\ UNCHANGED <<active, editing, launched, markdown, clipboard, edits>>
UndoUnflushed ==
    LET h == history
    IN  /\ h.undo # <<>> /\ StepsLeft /\ moves' = moves + 1
        /\ Move("undo", Last(h.undo),
                [h EXCEPT !.undo = Front(@), !.redo = Append(@, Read)])
Undo ==
    LET h == Flushed(history)
    IN  /\ h.undo # <<>> /\ StepsLeft /\ moves' = moves + 1
        /\ Move("undo", Last(h.undo),
                [h EXCEPT !.undo = Front(@), !.redo = Append(@, Read)])
Redo ==
    LET h == Flushed(history)
    IN  /\ h.redo # <<>> /\ StepsLeft /\ UNCHANGED moves
        /\ Move("redo", Last(h.redo),
                [h EXCEPT !.undo = Append(@, Read), !.redo = Front(@)])
\* the typing paused for UNDO_DEBOUNCE_MS, or there was nothing to redo
TypingPauses ==
    /\ history.base # <<>> /\ StepsLeft
    /\ history' = Flushed(history)
    /\ did' = "paused"
    /\ UNCHANGED <<value, dom, sentinel, sel, active, editing, launched, markdown, clipboard, edits, moves>>

\* the user's own caret: anywhere but inside a chip
Places == {p \in 0..Len(Chars) : \A i \in DOMAIN value :
              IsChip(value[i]) => p <= OffsetOf(value, i) \/ p >= OffsetOf(value, i + 1)}
Select ==
    /\ edits < MaxEdits /\ moves < MaxMoves /\ moves' = moves + 1
    /\ \E f \in Places, t \in Places :
          f <= t /\ t <= f + MaxSpan /\ sel' = [from |-> f, to |-> t] /\ sel' # sel
    /\ did' = "moved"
    /\ UNCHANGED <<value, dom, sentinel, active, editing, launched, markdown, history, clipboard, edits>>

-----------------------------------------------------------------------------
Init ==
    /\ value \in Documents
    /\ sel = Caret(0)
    /\ active = NoTrigger /\ editing = NotEditing /\ launched = NothingLaunched
    /\ markdown \in BOOLEAN
    /\ value = Settled(value)
    /\ dom = renderSegmentsToDOM(value, markdown) /\ sentinel = EndsWithBreak(dom)
    /\ history = NoHistory /\ clipboard = EmptyClipboard
    /\ did = "nothing" /\ edits = 0 /\ moves = 0

Next ==
    \/ \E c \in Typed : Type(c)
    \/ \E c \in Launches : Launch(c)
    \/ autoResolveActiveTrigger
    \/ ContinueList \/ InsertNewline \/ Indent \/ Outdent
    \/ Wrap("bold", <<"*", "*">>) \/ Wrap("italic", <<"*">>)
    \/ DeleteSelection \/ RemovePrefix \/ Backspace \/ DeleteForward
    \/ handleChipBackspace \/ handleChipForwardDelete
    \/ OpenChip \/ replaceNothing \/ handleBlur
    \/ \E v \in Suggested : selectSuggestion(v) \/ replaceInPlace(v) \/ insertChip(v) \/ InsertLaunched(v)
    \/ \E t \in Texts : setText(t) \/ appendText(t)
    \/ \E c \in Foreign \cup {clipboard} : handlePaste(c)
    \/ \E d \in Values : SetValue(d)
    \/ handleCopy \/ handleCut \/ clear \/ toggleMarkdown
    \/ Undo \/ Redo \/ TypingPauses
    \/ Select

Spec == Init /\ [][Next]_vars

-----------------------------------------------------------------------------
(* Properties.                                                             *)

\* The document keeps no empty text, the selection lies in it, and what the
\* editor shows reads back as the value, cut into lines and decorations or not:
\* the next edit starts from what is read.
TypeOK ==
    /\ \A i \in DOMAIN value : IsText(value[i]) => value[i].text # <<>>
    /\ 0 <= sel.from /\ sel.from <= sel.to /\ sel.to <= Len(Chars)
    /\ mergeAdjacentTextSegments(Read) = mergeAdjacentTextSegments(value)

\* letters and chips: what no list operation may touch
Content(segs) == SelectSeq(segs, LAMBDA x : IsChip(x) \/ x.text[1] \notin
                                    Digits \cup Marks \cup {".", " ", NL})
Structural == {"continue", "indent", "outdent", "unprefix", "newline", "delete"}

\* After every structural edit each numbered line shows its place: how many lines
\* of its level stand in its run, which a plain line, a line of a shallower level
\* or a bullet of its own level ends ("a projection of position", list-ops).
Place(items, i) ==
    LET Ends(k) == \/ items[k].kind = "none"
                   \/ items[k].indent < items[i].indent
                   \/ items[k].kind = "bullet" /\ items[k].indent = items[i].indent
        Peers == {k \in 1..i : /\ items[k].kind = "numbered" /\ items[k].indent = items[i].indent
                               /\ \A m \in k..i : ~Ends(m)}
    IN  Cardinality(Peers)
NumberedByPosition ==
    [][markdown /\ did' \in Structural =>
        LET items == Items(segmentsToPlainText(value'))
        IN  \A i \in DOMAIN items : items[i].kind = "numbered" => items[i].number = Place(items, i)
      ]_vars

\* The caret keeps its place in the text while numbers above it change their
\* width and prefixes come and go: the same letters and chips lie before and
\* behind it, without those of a selection the edit replaced.
OverChip == ~IsCaret /\ ChipsStartingAt(sel.from) # {}
OpensWithElement(segs) == segs # <<>> /\ (IsChip(segs[1]) \/ segs[1].text[1] = NL)
CaretKeepsPlace ==
    [][did' \in Structural \cup {"type"} /\ ~(did' = "newline" /\ OverChip) =>
        LET to == IF did' \in {"newline", "delete", "type"} THEN sel.to ELSE sel.from
            head == Content(Before(value, sel.from))
            tail == Content(After(value, to))
        IN  \/ head = <<>> /\ OpensWithElement(value')
            \/ did' = "type" /\ Len(Chars) + 1 - (sel.to - sel.from) > MaxLength
            \/ /\ IsPrefix(head, Content(Before(value', sel'.from)))
               /\ Content(After(value', sel'.from)) = tail
               /\ did' # "type" => head = Content(Before(value', sel'.from))
      ]_vars

BesideStar == \/ sel.from > 0 /\ Chars[sel.from] = "*"
              \/ sel.to < Len(Chars) /\ Chars[sel.to + 1] = "*"
GivesBack(back) == /\ segmentsToPlainText(back.segments) = Chars
                   /\ back.from = sel.from /\ back.to = sel.to
TogglesBack(marker, wrapped, once) ==
    \/ Len(marker) = 1 /\ BesideStar /\ ~wrapped
    \/ wrapped /\ IsWrapped(segmentsToPlainText(once.segments), once.from, once.to, marker)
    \/ GivesBack(toggleMarkdownWrap(once.segments, once.from, once.to, marker))
\* Cmd+B or Cmd+I twice gives back the text and the selection, other
\* marks around it included, unless a lone * must tell itself from a neighbour
\* or the mark lies within its own kind.
WrapTogglesBack ==
    markdown => \A marker \in {<<"*">>, <<"*", "*">>} :
        TogglesBack(marker, IsWrapped(Chars, sel.from, sel.to, marker),
                    toggleMarkdownWrap(Read, sel.from, sel.to, marker))
\* A selection with a chip that is cut and pasted where it was is back, its chips,
\* lines and marks as they were, wherever it began and ended; unless nothing but
\* line breaks is left, which without the sentinel read as an empty editor.
CutPastesBack(c) ==
    c.segments # <<>> /\ (sentinel \/ ~OnlyBreaks(PlainNodes(Spliced(value, sel.from, sel.to, <<>>)))) =>
        Atoms(insertSegmentsAtCursor(ReadAfter(sel.from, sel.to, <<>>, sentinel),
                                     parseSegmentsFromClipboard(c.segments), sel.from)) = Atoms(Read)
\* What is done and taken back at once leaves no trace.
TakenBack == ~IsCaret => /\ WrapTogglesBack
                         /\ CutPastesBack(Copied(walkFragmentNodes(Read, sel.from, sel.to)))

\* The history is a line of documents with the present one in it.  Undo and redo
\* move along it, typing that no timer recorded yet included, and lose none but the
\* oldest, when that typing is recorded in a history that is full; and an edit the
\* history records can be undone to exactly what it started from, whatever
\* unrecorded edits, undos, pauses and dropped snapshots came before (events.ts:109).
Behind(h) == h.undo \o h.base
Line(h, segs) ==
    [i \in DOMAIN Behind(h) |-> Atoms(Behind(h)[i])] \o <<Atoms(segs)>>
    \o (IF h.base = <<>> THEN Reverse([i \in DOMAIN h.redo |-> Atoms(h.redo[i])]) ELSE <<>>)
RecordedEdits == {"newline", "bold", "italic", "delete", "replace", "paste",
                  "paste segments", "cut", "setText", "appendText"}
UndoMovesAlong ==
    [][/\ did' \in {"undo", "redo"} =>
             Line(history', value') =
                 IF history.base # <<>> /\ Len(history.undo) = MaxUndo
                 THEN Tail(Line(history, value)) ELSE Line(history, value)
       /\ (\/ did' \in RecordedEdits /\ history.base = <<>>
           \/ did' \in {"type", "erase"} /\ history.base # history'.base) =>
             Atoms(Last(Behind(history'))) = Atoms(value)]_vars

\* An edit changes nothing but what it is about.  A newline lands where the
\* selection was and all other text but digits stays; formatting, list edits and mode
\* changes leave the chips as they are (of the text around them nothing is said); a
\* word becomes one chip in its place, the letters and chips before and behind it kept.
Chips(segs) == SelectSeq(segs, IsChip)
Rest(segs) == SelectSeq(Atoms(segs), LAMBDA x : IsChip(x) \/ x.text[1] \notin Digits)
WordInOneNode == \E i \in DOMAIN dom :
    /\ dom[i].kind = "text" /\ NodeStart(dom, i) <= active.start
    /\ active.start + 1 + Len(active.query) <= NodeEnd(dom, i)
Fresh == /\ active.start + 1 + Len(active.query) <= Len(Chars)
         /\ Slice(Chars, active.start, active.start + 1 + Len(active.query))
               = <<active.char>> \o active.query
ResolvedInPlace(head, tail, after) ==
    LET chip == after[Len(head) + 1]
    IN  /\ after = head \o <<chip>> \o tail
        /\ IsChip(chip) /\ chip.trigger = active.char
        /\ ~Contains(tail, chip) => Content(After(value', sel'.from)) = tail
EditsInPlace ==
    [][/\ did' = "newline" /\ ~OverChip =>
             Rest(value') = Rest(Spliced(value, sel.from, sel.to, <<NL>>))
       /\ (\/ did' \in {"continue", "indent", "outdent", "unprefix", "bold", "italic", "toggle"}
           \/ did' = "erase" /\ Len(Chars) <= MaxLength) => Chips(value') = Chips(value)
       /\ did' \in {"resolve", "select"} /\ Fresh /\ WordInOneNode =>
             ResolvedInPlace(Content(Before(value, active.start)),
                             Content(After(value, active.start + 1 + Len(active.query))),
                             Content(Atoms(value')))]_vars
=============================================================================
