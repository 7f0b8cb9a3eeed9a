----------------------------- MODULE PromptText -----------------------------
(***************************************************************************)
(* The text engine of the prompt area (prompt-area-engine.ts) and its list *)
(* operations (prompt-area-list-ops.ts).  A document is a sequence of      *)
(* segments, text or chip; every operation works on offsets into the plain *)
(* text the segments spell, a chip standing there for its trigger and its  *)
(* display text.  A character is a string: " ", "\n", the glyph "o", a     *)
(* digit, "f" for a code fence ``` and "u" for the head of an URL.         *)
(***************************************************************************)
EXTENDS Integers, Sequences, FiniteSets, SequencesExt

CONSTANT Radix          \* of list numbers: 10 in the code, smaller in a run
ASSUME RadixAssumption == Radix \in 2..10

NL == "\n"
Glyph == "o"
Marks == {Glyph, "-", "*"}
Numerals == <<"0", "1", "2", "3", "4", "5", "6", "7", "8", "9">>
Digits == {Numerals[d] : d \in 1..Radix}

TextSegment(t) == [type |-> "text", text |-> t]
ChipSegment(c, v, shown, auto) ==
    [type |-> "chip", trigger |-> c, value |-> v, displayText |-> shown, autoResolved |-> auto]
IsText(seg) == seg.type = "text"
IsChip(seg) == seg.type = "chip"
NonEmptyText(t) == IF t = <<>> THEN <<>> ELSE <<TextSegment(t)>>

Concat(seqs) == LET upTo[i \in 0..Len(seqs)] == IF i = 0 THEN <<>> ELSE upTo[i - 1] \o seqs[i]
                IN  upTo[Len(seqs)]
\* JavaScript's slice: from offset i up to offset j
Slice(t, i, j) == SubSeq(t, i + 1, j)
TextOf(seg) == IF IsText(seg) THEN seg.text ELSE <<seg.trigger>> \o seg.displayText
segmentsToPlainText(segs) == Concat([i \in DOMAIN segs |-> TextOf(segs[i])])
plainTextToSegments(t) == NonEmptyText(t)
\* the offset at which segment i begins
OffsetOf(segs, i) ==
    LET upTo[k \in 0..i - 1] == IF k = 0 THEN 0 ELSE upTo[k - 1] + Len(TextOf(segs[k]))
    IN  upTo[i - 1]

mergeKeepingEmpty(segs) ==
    FoldLeft(LAMBDA acc, seg :
                IF acc # <<>> /\ IsText(seg) /\ IsText(Last(acc))
                     THEN Front(acc) \o <<TextSegment(Last(acc).text \o seg.text)>>
                     ELSE Append(acc, seg),
             <<>>, segs)
mergeAdjacentTextSegments(segs) ==
    FoldLeft(LAMBDA acc, seg :
                IF seg = TextSegment(<<>>) THEN acc
                ELSE IF acc # <<>> /\ IsText(seg) /\ IsText(Last(acc))
                     THEN Front(acc) \o <<TextSegment(Last(acc).text \o seg.text)>>
                     ELSE Append(acc, seg),
             <<>>, segs)

\* every character and every chip as a segment of its own
Atoms(segs) == Concat([i \in DOMAIN segs |->
    IF IsChip(segs[i]) THEN <<segs[i]>>
    ELSE [k \in DOMAIN segs[i].text |-> TextSegment(<<segs[i].text[k]>>)]])
Before(segs, at) == LET x == Atoms(segs)
                    IN  SubSeq(x, 1, Max({0} \cup {i \in DOMAIN x : OffsetOf(x, i + 1) <= at}))
After(segs, at) == LET x == Atoms(segs)
                   IN  SubSeq(x, Min({Len(x) + 1} \cup {i \in DOMAIN x : OffsetOf(x, i) >= at}), Len(x))

\* whole segments while they fit; the text that crosses the limit is cut, a chip dropped
truncateSegmentsToLength(segs, limit) ==
    LET Fits(i) == OffsetOf(segs, i + 1) <= limit
        n == Max({0} \cup {i \in DOMAIN segs : Fits(i)})
    IN  SubSeq(segs, 1, n) \o
        (IF n < Len(segs) /\ IsText(segs[n + 1])
         THEN NonEmptyText(Slice(segs[n + 1].text, 0, limit - OffsetOf(segs, n + 1)))
         ELSE <<>>)

isInlineWhitespace(c) == c \in {" ", NL}

-----------------------------------------------------------------------------
(* Triggers: Position maps a trigger character to "start" or "any".        *)

CONSTANTS Position,       \* the configured triggers
          ResolvesOnSpace \* those with resolveOnSpace

isValidTriggerPosition(t, at, position) ==
    at > 0 => IF position = "start" THEN t[at] = NL ELSE isInlineWhitespace(t[at])

NoTrigger == [char |-> "", start |-> 0, query |-> <<>>]

\* the word the caret ends, when it opens with a trigger that is valid there
detectActiveTrigger(t, caret) ==
    LET from == Max({0} \cup {q \in 1..caret : isInlineWhitespace(t[q])})
    IN  IF /\ from < caret
           /\ t[from + 1] \in DOMAIN Position
           /\ isValidTriggerPosition(t, from, Position[t[from + 1]])
        THEN [char |-> t[from + 1], start |-> from, query |-> Slice(t, from + 1, caret)]
        ELSE NoTrigger

\* the text of trigger.start .. its end becomes the chip and a space; every text
\* segment that holds part of the word gets a chip of its own, chips in it go
resolveChip(segs, trigger, value, shown, auto) ==
    LET from == trigger.start
        to == from + 1 + Len(trigger.query)
        chip == ChipSegment(trigger.char, value, shown, auto)
        Unspaced(rest) == IF rest # <<>> /\ isInlineWhitespace(rest[1]) THEN Tail(rest) ELSE rest
        Resolved(i) ==
            LET seg == segs[i]
                a == OffsetOf(segs, i)
                b == a + Len(TextOf(seg))
            IN  IF b <= from \/ a >= to THEN <<seg>>
                ELSE IF IsChip(seg) THEN <<>>
                ELSE NonEmptyText(Slice(seg.text, 0, Max({0, from - a})))
                     \o <<chip, TextSegment(<<" ">> \o Unspaced(Slice(seg.text, Min({b, to}) - a, b - a)))>>
        merged == mergeAdjacentTextSegments(Concat([i \in DOMAIN segs |-> Resolved(i)]))
        same == {i \in DOMAIN merged : IsChip(merged[i]) /\ merged[i].value = value
                      /\ merged[i].displayText = shown /\ merged[i].trigger = trigger.char}
    IN  [segments |-> merged,
         caret |-> IF same = {} THEN Len(segmentsToPlainText(merged))
                   ELSE OffsetOf(merged, Max(same) + 1) + 1]

removeChipAtIndex(segs, i) == mergeAdjacentTextSegments(RemoveAt(segs, i))
revertChipAtIndex(segs, i) ==
    mergeAdjacentTextSegments(ReplaceAt(segs, i, TextSegment(TextOf(segs[i]))))

\* one text: a trigger that resolves by itself, at a word boundary and with a
\* word behind it, becomes a chip
splitTextByTriggerPatterns(t) ==
    LET WordEnd(p) == Min({Len(t)} \cup {q \in p..Len(t) - 1 : isInlineWhitespace(t[q + 1])})
        Opens(p) == /\ t[p + 1] \in ResolvesOnSpace
                    /\ isValidTriggerPosition(t, p, Position[t[p + 1]])
                    /\ WordEnd(p) > p + 1
        from[p \in 0..Len(t)] ==
            LET opens == {q \in p..Len(t) - 1 : Opens(q)}
                q == Min(opens)
                word == Slice(t, q + 1, WordEnd(q))
            IN  IF opens = {} THEN NonEmptyText(Slice(t, p, Len(t)))
                ELSE NonEmptyText(Slice(t, p, q))
                     \o <<ChipSegment(t[q + 1], word, word, TRUE)>> \o from[WordEnd(q)]
    IN  from[0]

resolveTriggersInSegments(segs) ==
    mergeAdjacentTextSegments(Concat([i \in DOMAIN segs |->
        IF IsChip(segs[i]) THEN <<segs[i]>> ELSE splitTextByTriggerPatterns(segs[i].text)]))

-----------------------------------------------------------------------------
(* Editing a range, and the emphasis markers.                              *)

\* the replacement goes into the first text segment the range touches that does
\* not begin after it, or before a chip for an insertion; otherwise to the end
replaceTextRange(segs, from, to, replacement) ==
    LET A(i) == OffsetOf(segs, i)
        B(i) == OffsetOf(segs, i + 1)
        Touched(i) == IF from = to THEN A(i) <= to /\ B(i) >= from ELSE A(i) < to /\ B(i) > from
        Takes(i) == IF IsChip(segs[i]) THEN from = to /\ A(i) = from
                                       ELSE Touched(i) /\ A(i) <= from
        takers == {i \in DOMAIN segs : Takes(i)}
        Here(i) == IF takers # {} /\ i = Min(takers) THEN <<TextSegment(replacement)>> ELSE <<>>
        Edited(i) ==
            LET seg == segs[i] IN
            IF IsChip(seg) THEN Here(i) \o (IF B(i) <= from \/ A(i) >= to THEN <<seg>> ELSE <<>>)
            ELSE IF ~Touched(i) THEN <<seg>>
            ELSE NonEmptyText(Slice(seg.text, 0, Max({0, from - A(i)}))) \o Here(i)
                 \o NonEmptyText(Slice(seg.text, Min({B(i), to}) - A(i), Len(seg.text)))
    IN  mergeAdjacentTextSegments(Concat([i \in DOMAIN segs |-> Edited(i)])
            \o (IF takers = {} THEN NonEmptyText(replacement) ELSE <<>>))

\* the markers lie around the selection, and a single one is not part of a longer
IsWrapped(t, from, to, marker) ==
    LET n == Len(marker) IN
    /\ from >= n /\ Slice(t, from - n, from) = marker
    /\ to + n <= Len(t) /\ Slice(t, to, to + n) = marker
    /\ n = 1 => /\ from > 1 => t[from - 1] # marker[1]
                /\ to + 1 < Len(t) => t[to + 2] # marker[1]

toggleFrontFirst(segs, from, to, marker) ==
    LET n == Len(marker) IN
    IF IsWrapped(segmentsToPlainText(segs), from, to, marker)
    THEN [segments |-> replaceTextRange(replaceTextRange(segs, to, to + n, <<>>), from - n, from, <<>>),
          from |-> from - n, to |-> to - n]
    ELSE [segments |-> replaceTextRange(replaceTextRange(segs, from, from, marker), to, to, marker),
          from |-> from + n, to |-> to + n]
toggleMarkdownWrap(segs, from, to, marker) ==
    LET n == Len(marker) IN
    IF IsWrapped(segmentsToPlainText(segs), from, to, marker)
    THEN [segments |-> replaceTextRange(replaceTextRange(segs, to, to + n, <<>>), from - n, from, <<>>),
          from |-> from - n, to |-> to - n]
    ELSE [segments |-> replaceTextRange(replaceTextRange(segs, to, to, marker), from, from, marker),
          from |-> from + n, to |-> to + n]

-----------------------------------------------------------------------------
(* Lists: lines, their prefixes and their numbers.                         *)

LineStart(t, at) == Max({0} \cup {q \in 1..at : t[q] = NL})
LineEnd(t, at) == Min({Len(t)} \cup {q \in at..Len(t) - 1 : t[q + 1] = NL})
LineAt(t, at) == Slice(t, LineStart(t, at), LineEnd(t, at))
LineStarts(t) == SelectSeq([i \in 1..Len(t) + 1 |-> i - 1], LAMBDA q : q = 0 \/ t[q] = NL)
\* how many characters from offset i on are in S
RunOf(t, i, S) == Max({n \in 0..Len(t) - i : \A k \in 1..n : t[i + k] \in S})
Indented(level) == [i \in 1..2 * level |-> " "]

NumberOf(digits) == FoldLeft(LAMBDA n, d : n * Radix + (CHOOSE v \in 1..Radix : Numerals[v] = d) - 1,
                             0, digits)
NumeralFor(n) == LET f[k \in 0..n] == IF k < Radix THEN <<Numerals[k + 1]>>
                                      ELSE Append(f[k \div Radix], Numerals[(k % Radix) + 1])
                 IN  f[n]

\* classifies a line; the offsets are relative to its start
ListItem(line, w, d) ==
    LET Has(i, S) == i < Len(line) /\ line[i + 1] \in S
    IN  IF Has(w, Marks) /\ Has(w + 1, {" "})
        THEN [kind |-> "bullet", indent |-> w \div 2, marker |-> line[w + 1], prefix |-> w + 2]
        ELSE IF d > 0 /\ Has(w + d, {"."}) /\ Has(w + d + 1, {" "})
        THEN [kind |-> "numbered", indent |-> w \div 2, number |-> NumberOf(Slice(line, w, w + d)),
              from |-> w, upto |-> w + d, prefix |-> w + d + 2]
        ELSE [kind |-> "none"]
parseListLine(line) ==
    LET Spaced(w) == ListItem(line, w, RunOf(line, w, Digits)) IN Spaced(RunOf(line, 0, {" "}))

\* the list line around the caret, with its place in the text
getListContext(t, caret) ==
    [item |-> parseListLine(LineAt(t, caret)), start |-> LineStart(t, caret)]
InList(t, caret) == getListContext(t, caret).item.kind # "none"
ContentStart(ctx) == ctx.start + ctx.item.prefix

NoEdit == [segments |-> <<>>, caret |-> -1]
Edit(segs, caret) == [segments |-> segs, caret |-> caret]

\* "- " or "* " typed at the start of a line becomes the bullet glyph
autoFormatListPrefix(segs, caret) ==
    LET t == segmentsToPlainText(segs)
        start == LineStart(t, caret)
        typed == Slice(t, start, caret)
        w == RunOf(typed, 0, {" "})
    IN  IF Len(typed) = w + 2 /\ typed[w + 1] \in {"-", "*"} /\ typed[w + 2] = " "
        THEN Edit(replaceTextRange(segs, start, caret, SubSeq(typed, 1, w) \o <<Glyph, " ">>), caret)
        ELSE NoEdit

\* Enter in a list line: the next item, or on an empty item one level out, or no list
insertListContinuation(segs, caret) ==
    LET t == segmentsToPlainText(segs)
        ctx == getListContext(t, caret)
        item == ctx.item
        content == Slice(t, ContentStart(ctx), LineEnd(t, caret))
        next == <<NL>> \o Indented(item.indent) \o
                (IF item.kind = "bullet" THEN <<item.marker, " ">>
                 ELSE NumeralFor(item.number + 1) \o <<".", " ">>)
    IN  IF \A i \in DOMAIN content : content[i] = " "
        THEN IF item.indent > 0
             THEN Edit(replaceTextRange(segs, ctx.start, ctx.start + 2, <<>>),
                       Max({ctx.start, caret - 2}))
             ELSE Edit(replaceTextRange(segs, ctx.start, ContentStart(ctx), <<>>), ctx.start)
        ELSE Edit(replaceTextRange(segs, caret, caret, next), caret + Len(next))

\* at most one level deeper than the list line above
indentListItem(segs, caret) ==
    LET t == segmentsToPlainText(segs)
        ctx == getListContext(t, caret)
        above == IF ctx.start = 0 THEN [kind |-> "none"]
                 ELSE parseListLine(LineAt(t, ctx.start - 1))
        deepest == IF above.kind = "none" THEN 0 ELSE above.indent + 1
    IN  IF ctx.item.indent >= deepest THEN NoEdit
        ELSE Edit(replaceTextRange(segs, ctx.start, ctx.start, Indented(1)), caret + 2)

outdentListItem(segs, caret) ==
    LET ctx == getListContext(segmentsToPlainText(segs), caret) IN
    IF ctx.item.indent = 0 THEN NoEdit
    ELSE Edit(replaceTextRange(segs, ctx.start, ctx.start + 2, <<>>), Max({ctx.start, caret - 2}))

\* Backspace in the prefix drops the marker and keeps the level's indentation
removeListPrefix(segs, caret) ==
    LET ctx == getListContext(segmentsToPlainText(segs), caret) IN
    IF ctx.item.kind = "none" \/ caret > ContentStart(ctx) THEN NoEdit
    ELSE Edit(replaceTextRange(segs, ctx.start, ContentStart(ctx), Indented(ctx.item.indent)),
              ctx.start + 2 * ctx.item.indent)

Lines(t) == LET starts == LineStarts(t) IN [i \in DOMAIN starts |-> LineAt(t, starts[i])]
Items(t) == LET lines == Lines(t) IN [i \in DOMAIN lines |-> parseListLine(lines[i])]
Unlines(lines) == Concat([i \in DOMAIN lines |-> (IF i = 1 THEN <<>> ELSE <<NL>>) \o lines[i]])
IsFence(line) == LET w == RunOf(line, 0, {" "}) IN w < Len(line) /\ line[w + 1] = "f"
swapListPrefixLine(line, markdown) ==
    LET w == RunOf(line, 0, {" "})
        old == IF markdown THEN "-" ELSE Glyph
        new == IF markdown THEN Glyph ELSE "-"
    IN  IF w + 1 < Len(line) /\ line[w + 1] = old /\ line[w + 2] = " "
        THEN ReplaceAt(line, w + 1, new) ELSE line
\* the lines inside, or on, a pair of fences
fenceProtectedLineIndices(lines) ==
    LET fences == SelectSeq([i \in DOMAIN lines |-> i], LAMBDA i : IsFence(lines[i]))
    IN  {i \in DOMAIN lines : \E k \in DOMAIN fences :
            k % 2 = 1 /\ k < Len(fences) /\ fences[k] <= i /\ i <= fences[k + 1]}
SwapPrefixes(lines, markdown) ==
    LET kept == fenceProtectedLineIndices(lines)
    IN  [i \in DOMAIN lines |-> IF i \in kept THEN lines[i] ELSE swapListPrefixLine(lines[i], markdown)]
normalizeListPrefixText(t, markdown) == Unlines(SwapPrefixes(Lines(t), markdown))
\* the same over the text segments, each of which begins a line of its own
normalizeListPrefixes(segs, markdown) ==
    LET LinesOf(i) == IF IsText(segs[i]) THEN Lines(segs[i].text) ELSE <<>>
        all == Concat([i \in DOMAIN segs |-> LinesOf(i)])
        swapped == SwapPrefixes(all, markdown)
        Earlier(i) == Len(Concat([k \in 1..i - 1 |-> LinesOf(k)]))
    IN  [i \in DOMAIN segs |->
            IF IsChip(segs[i]) THEN segs[i]
            ELSE TextSegment(Unlines(SubSeq(swapped, Earlier(i) + 1, Earlier(i) + Len(LinesOf(i)))))]

\* two numbered lines of one level in a row, from 1 on or in sequence so far
RunAmong(items) ==
    LET OfLevel(i, level) == items[i].kind = "numbered" /\ items[i].indent = level
    IN  \E i \in DOMAIN items, j \in DOMAIN items :
            /\ i < j
            /\ items[i].kind = "numbered"
            /\ \A k \in i..j : OfLevel(k, items[i].indent)
            /\ i = 1 \/ ~OfLevel(i - 1, items[i].indent)
            /\ \/ items[i].number = 1
               \/ \A k \in i + 1..j : items[k].number = items[k - 1].number + 1
hasOrderedListRun(t) == RunAmong(Items(t))

\* a numbered line takes the next number of its level and closes the deeper ones
Numbered(counters, edits, start, item, kept) ==
    LET level == item.indent
        n == IF level \in kept THEN counters[level] + 1 ELSE 1
    IN  [counters |-> [l \in kept \cup {level} |-> IF l = level THEN n ELSE counters[l]],
         edits |-> IF n = item.number THEN edits
                   ELSE Append(edits, [from |-> start + item.from, upto |-> start + item.upto,
                                       digits |-> NumeralFor(n)])]
CountedAcrossPlainLines(acc, start, item) ==
    LET kept == {l \in DOMAIN acc.counters : l <= item.indent}
    IN  IF item.kind = "none" THEN acc
        ELSE IF item.kind = "bullet"
        THEN [acc EXCEPT !.counters = [l \in kept \ {item.indent} |-> acc.counters[l]]]
        ELSE Numbered(acc.counters, acc.edits, start, item, kept)
\* one counter per level: a plain line closes all of them, a bullet those of its
\* level and deeper
Counted(acc, start, item) ==
    LET kept == {l \in DOMAIN acc.counters : l <= item.indent}
    IN  IF item.kind = "none" THEN [acc EXCEPT !.counters = <<>>]
        ELSE IF item.kind = "bullet"
        THEN [acc EXCEPT !.counters = [l \in kept \ {item.indent} |-> acc.counters[l]]]
        ELSE Numbered(acc.counters, acc.edits, start, item, kept)
renumberOrderedListLines(t) ==
    FoldLeft(LAMBDA acc, start : Counted(acc, start, parseListLine(LineAt(t, start))),
             [counters |-> <<>>, edits |-> <<>>], LineStarts(t)).edits

\* where an offset goes when the digit runs are rewritten
remapOffset(at, edits) ==
    LET Delta(e) == Len(e.digits) - (e.upto - e.from)
        shift == FoldLeft(LAMBDA s, e : IF e.upto <= at THEN s + Delta(e) ELSE s, 0, edits)
        inside == SelectSeq(edits, LAMBDA e : e.from < at /\ at < e.upto)
    IN  IF inside = <<>> THEN at + shift
        ELSE inside[1].from + shift + Min({at - inside[1].from, Len(inside[1].digits)})

\* from the last edit to the first, so that earlier offsets stay valid
WithDigits(segs, edits) ==
    [segments |-> FoldRight(LAMBDA e, s : replaceTextRange(s, e.from, e.upto, e.digits), edits, segs),
     edits |-> edits]
renumberOrderedListSegments(segs) ==
    WithDigits(segs, renumberOrderedListLines(segmentsToPlainText(segs)))
=============================================================================
