-------------------------- MODULE MCPromptDocument --------------------------
(* Documents with nested and numbered lists, emphasis, an URL and chips, one *)
(* with a chip behind a lone line break; a text with a fenced line.          *)
EXTENDS PromptDocument

Triggers == [c \in {"@", "/"} |-> IF c = "/" THEN "start" ELSE "any"]
A == <<"A">>
ChipA == ChipSegment("@", A, A, FALSE)
TagB == ChipSegment("@", <<"b">>, <<"b">>, TRUE)
T(t) == TextSegment(t)
MCDocuments ==
    { <<>>,
      <<T(<<"1", ".", " ", "a", NL, "1", "0", ".", " ", "b">>)>>,
      <<T(<<"1", ".", " ", "a", NL, " ", " ", "1", ".", " ">>), ChipA>>,
      <<T(<<"o", " ", "*", "a", "*">>), ChipA>>,
      <<T(<<"u", " ", "@", "b">>), T(<<NL>>), TagB>> }
MCSuggested == {A}
MCTexts == {<<"f", NL, "-", " ", NL, "f">>}
MCValues == {<<T(<<NL>>), ChipA>>}
MCForeign == { [segments |-> <<ChipA, T(<<NL, "a">>)>>, text |-> <<"@", "A", NL, "a">>],
               [segments |-> <<[type |-> "image"]>>, text |-> <<"-", " ", "@", "b">>] }
=============================================================================
