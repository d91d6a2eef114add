------------------------- MODULE MCChangesetCreation -------------------------
\* TLC instances of ChangesetCreation.
EXTENDS ChangesetCreation, MCText

CONSTANT MaxWords

\* Words with common beginnings, with common ends, with a line break, and
\* the empty one.
Vocabulary == {<<"a">>, <<"b">>, <<"b", "a">>, <<"b", NL>>, <<>>}

BoundedTexts == Texts(Vocabulary, MaxWords, SP)

\* JS::diff pairs words wherever they stand, and the '=' for a moved one is
\* written where the new text has it (changeset.cpp:181).
ASSUME MovedWordIsMisplaced ==
  LET old == <<SP, "a">>
      new == <<"a", SP>>
  IN  ApplyChangeset(old, CreateChangeset(old, new)) # new

\* JS::collapse adds a count of line breaks to a first count of -1, which
\* stands for none (changeset.cpp:218); a count of 0 is not written.
ASSUME MergeLosesLineBreak ==
  Merge(Op(InsertChars, 1, -1, -1), Op(InsertChars, 2, 1, -1)).newlines = 0
=============================================================================
