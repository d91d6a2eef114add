--------------------------- MODULE MCCollabEditor ---------------------------
\* TLC instance of CollabEditor, under the assumptions of its theorems.
EXTENDS CollabEditorProofs, MCText

\* Texts without a space: at most three of two letters and the line break.
OneWordTexts == UNION {[1 .. k -> {"a", "b", NL}] : k \in 0 .. 3}

\* Texts of several words that keep their order: words come and go.
Vocabulary == <<<<"a">>, <<"b", "a">>, <<"b", NL, "b">>, <<"c">>>>

OrderedTexts ==
  {Join(SelectSeq(Vocabulary, LAMBDA word : word \in chosen), SP) :
     chosen \in SUBSET ToSet(Vocabulary)}

RoundTripTexts == OneWordTexts \cup OrderedTexts
=============================================================================
