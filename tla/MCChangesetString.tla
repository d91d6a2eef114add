-------------------------- MODULE MCChangesetString --------------------------
\* TLC instance of ChangesetString.
EXTENDS ChangesetString

\* Numbers of one, two and three digits; no line break, a count lost in a
\* merge, a count; with and without an attribute.
Ops ==
  {Op(kind, length, lines, a) :
     kind \in {InsertChars, SkipOverChars, KeepChars}, length \in {1, 37},
     lines \in {-1, 0, 2}, a \in {-1, 0}}

OpLists == UNION {[1 .. n -> Ops] : n \in 0 .. 2}

\* Banks with characters of the format itself: an operator, a digit, the
\* separator, a letter that is no digit.
Banks == UNION {[1 .. n -> {"+", "1", "$", "_"}] : n \in 0 .. 2}

\* The ends of an int, and negative numbers, which 64 bits are written for.
ExtremeOps ==
  {Op(kind, length, lines, a) :
     kind \in {InsertChars, KeepChars}, length \in {MaxInt, MinInt, -1, 0},
     lines \in {MaxInt, MinInt}, a \in {MaxInt, -2}}

BoundedChangesets ==
  {MakeChangeset(3, 1300, ops, bank) : ops \in OpLists, bank \in Banks}
    \cup {MakeChangeset(1300, 3, ops, bank) : ops \in [1 .. 1 -> Ops], bank \in Banks}
    \cup {MakeChangeset(old, new, ops, <<>>) :
            old \in {0, MaxInt}, new \in {0, MaxInt - 1, MaxInt}, ops \in [1 .. 1 -> ExtremeOps]}

\* No prefix, no sizes, no difference, sizes that are no numbers, operators
\* without a number, an operation far behind the sizes, no separator; numbers
\* beyond an int (1z141z4 is 2^32), at and beyond the end of 64 bits, and
\* sizes and line breaks whose sums leave an int.
BoundedGarbage ==
  {<<>>, <<"Z", "1">>, <<"Z", ":">>, <<"Z", ":", "1">>, <<"Z", ":", "1", ">">>,
   <<"Z", ":", "_", "<", "Z", "$">>, <<"Z", ":", "1", ">", "1", "+", "=", "$">>,
   <<"Z", ":", "1", "<", "2", "$", "$", "$", "+", "1">>,
   <<"Z", ":", "1", ">", "1", "|", "1", "|", "2", "*", "_">>,
   <<"Z", ":", "1", "z", "1", "4", "1", "z", "4", ">", "z", "z", "z", "z",
     "z", "z", "+", "z", "z", "z", "z", "z", "z", "=", "3", "w", "5", "e",
     "1", "1", "2", "6", "4", "s", "g", "s", "f", "-", "3", "w", "5", "e",
     "1", "1", "2", "6", "4", "s", "g", "s", "g", "$">>,
   <<"Z", ":", "z", "i", "k", "0", "z", "j", ">", "z", "i", "k", "0", "z",
     "j", "|", "z", "i", "k", "0", "z", "j", "|", "z", "i", "k", "0", "z",
     "j", "=", "z", "i", "k", "0", "z", "k", "*", "z", "z", "z", "z", "z",
     "z", "z", "z", "z", "z", "z", "z", "z", "z", "-", "1", "$">>,
   <<"Z", ":", "z", "i", "k", "0", "z", "k", "<", "1", "|", "1", "|", "z",
     "i", "k", "0", "z", "k", "|", "z", "z", "z", "z", "z", "z", "+", "1",
     "$">>}
=============================================================================
