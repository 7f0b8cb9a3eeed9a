------------------------------ MODULE PromptDom ------------------------------
(***************************************************************************)
(* The children of the editor element (dom-helpers.ts, cursor-helpers.ts): *)
(* what renderSegmentsToDOM makes of a document, what readSegmentsFromDOM  *)
(* reads back, and where a caret offset lies among the children.  Text is  *)
(* one child per line, cut further by the decorations, each of which is an *)
(* element that reads as a text segment of its own; a line break is a <br>.*)
(***************************************************************************)
EXTENDS PromptText

TextNode(t) == IF t = <<>> THEN <<>> ELSE <<[kind |-> "text", text |-> t, marker |-> 0]>>
\* marker: how many characters of each end lie in a text node of their own
Decoration(t, marker) == [kind |-> "decoration", text |-> t, marker |-> marker]
Break == [kind |-> "br", text |-> <<NL>>, marker |-> 0]
ChipNode(seg) == [kind |-> "chip", chip |-> seg, text |-> TextOf(seg), marker |-> 0]

\* cuts every text node at the matches of a pattern; MatchEnd(t, p) is where the
\* match that begins at p ends, p itself when none does
Decorate(nodes, MatchEnd(_, _), Marker(_)) ==
    LET Cut(t) ==
            LET from[p \in 0..Len(t)] ==
                    LET hits == {q \in p..Len(t) - 1 : MatchEnd(t, q) > q}
                        q == Min(hits)
                        e == MatchEnd(t, q)
                    IN  IF hits = {} THEN TextNode(Slice(t, p, Len(t)))
                        ELSE TextNode(Slice(t, p, q))
                             \o <<Decoration(Slice(t, q, e), Marker(Slice(t, q, e)))>> \o from[e]
            IN  from[0]
    IN  Concat([i \in DOMAIN nodes |->
            IF nodes[i].kind = "text" THEN Cut(nodes[i].text) ELSE <<nodes[i]>>])

\* the indentation of a list line
ListIndentEnd(t, p) ==
    LET w == RunOf(t, 0, {" "})
    IN  IF p = 0 /\ w > 0 /\ parseListLine(t).kind # "none" THEN w ELSE p
\* the glyph that leads a line
BulletEnd(t, p) == IF t[p + 1] = Glyph /\ RunOf(t, 0, {" "}) = p THEN p + 1 ELSE p
\* an URL up to the next space, without the full stops behind it
UrlEnd(t, p) ==
    LET e == p + RunOf(t, p, {t[i] : i \in DOMAIN t} \ {" "})
    IN  IF t[p + 1] # "u" THEN p
        ELSE Max({q \in p + 1..e : t[q] # "."})
\* ***x***, **x** or *x*, the longest marker first, the nearest closing one
StarsAt(t, p, n) == p + n <= Len(t) /\ \A i \in p + 1..p + n : t[i] = "*"
EmphasisOf(t, p) ==
    LET Closings(n) == {q \in p + n + 1..Len(t) : StarsAt(t, q, n)}
        opens == {n \in 1..3 : StarsAt(t, p, n) /\ Closings(n) # {}}
    IN  IF opens = {} THEN [marker |-> 0, end |-> p]
        ELSE [marker |-> Max(opens), end |-> Min(Closings(Max(opens))) + Max(opens)]
EmphasisEnd(t, p) == EmphasisOf(t, p).end

NoMarker(t) == 0
decorateListIndentInEditor(nodes) == Decorate(nodes, ListIndentEnd, NoMarker)
decorateBulletsInEditor(nodes) == Decorate(nodes, BulletEnd, NoMarker)
decorateURLsInEditor(nodes) == Decorate(nodes, UrlEnd, NoMarker)
decorateMarkdownInEditor(nodes) == Decorate(nodes, EmphasisEnd, LAMBDA t : EmphasisOf(t, 0).marker)
\* the passes that need whole lines run first
decorateEditor(nodes, markdown) ==
    LET lists == IF markdown THEN decorateBulletsInEditor(decorateListIndentInEditor(nodes)) ELSE nodes
        urls == decorateURLsInEditor(lists)
    IN  IF markdown THEN decorateMarkdownInEditor(urls) ELSE urls

\* one text node per line, a <br> between lines, an element per chip
PlainNodes(segs) ==
    Concat([i \in DOMAIN segs |->
        IF IsChip(segs[i]) THEN <<ChipNode(segs[i])>>
        ELSE LET lines == Lines(segs[i].text)
             IN  Concat([k \in DOMAIN lines |->
                    (IF k = 1 THEN <<>> ELSE <<Break>>) \o TextNode(lines[k])])])
renderSegmentsToDOM(segs, markdown) == decorateEditor(PlainNodes(segs), markdown)
\* decorations unwrapped and adjacent text nodes merged, after the browser's edit
normalizeEditorDOM(segs) == PlainNodes(mergeAdjacentTextSegments(segs))

\* breaks alone are the browser's filler of an emptied editor, unless the sentinel that
\* renderSegmentsToDOM puts behind a trailing break still stands
OnlyBreaks(nodes) == \A i \in DOMAIN nodes : nodes[i].kind = "br"
EndsWithBreak(nodes) == nodes # <<>> /\ Last(nodes).kind = "br"
readSegmentsFromDOM(nodes, sentinel) ==
    IF OnlyBreaks(nodes) /\ ~sentinel THEN <<>>
    ELSE [i \in DOMAIN nodes |-> IF nodes[i].kind = "chip" THEN nodes[i].chip ELSE TextSegment(nodes[i].text)]

-----------------------------------------------------------------------------
(* Offsets and children.                                                   *)

NodeStart(nodes, i) == Len(Concat([k \in 1..i - 1 |-> nodes[k].text]))
NodeEnd(nodes, i) == NodeStart(nodes, i) + Len(nodes[i].text)
\* the child an offset falls into: the first one that does not end before it
ChildAt(nodes, at) == {i \in DOMAIN nodes : at <= NodeEnd(nodes, i)}
\* where the caret comes to stand for an offset: behind a chip or a break it falls on
findDOMPosition(nodes, at) ==
    LET i == Min(ChildAt(nodes, at))
    IN  IF ChildAt(nodes, at) = {} THEN Len(Concat([k \in DOMAIN nodes |-> nodes[k].text]))
        ELSE IF nodes[i].kind \in {"chip", "br"} THEN NodeEnd(nodes, i) ELSE at

\* saved as a child's index and an offset in it, restored among other children
saveCursorPosition(nodes, at) ==
    LET i == Min(ChildAt(nodes, at))
    IN  IF ChildAt(nodes, at) = {} THEN [child |-> Len(nodes) + 1, offset |-> 0]
        ELSE IF nodes[i].kind \in {"chip", "br"} THEN [child |-> i + 1, offset |-> 0]
        ELSE LET into == at - NodeStart(nodes, i)
                 m == nodes[i].marker
                 tail == Len(nodes[i].text) - m
             IN  [child |-> i,      \* in a decoration, the offset in its inner text node
                  offset |-> IF m = 0 \/ into <= m THEN into
                             ELSE IF into <= tail THEN into - m ELSE into - tail]
restoreCursorPosition(nodes, saved) ==
    IF nodes = <<>> THEN 0
    ELSE IF saved.child > Len(nodes) THEN NodeEnd(nodes, Len(nodes))
    ELSE IF nodes[saved.child].kind = "text"
         THEN NodeStart(nodes, saved.child) + Min({saved.offset, Len(nodes[saved.child].text)})
         ELSE NodeEnd(nodes, saved.child)
=============================================================================
