--------------------------- MODULE ChangesetString ---------------------------
(***************************************************************************)
(* The text format of a changeset (lib/changeset.cpp, 39-125): toString as *)
(* an operator, fromString as a state machine whose loop looks for one     *)
(* operation at a time, from a position that only it moves.                *)
(*                                                                         *)
(* Here characters matter: a string is a sequence of one-letter strings.   *)
(* Of the letters beyond base 36 only the prefix's Z and the underscore,   *)
(* which a regular expression takes for a letter and strtoul does not,     *)
(* are modelled.                                                           *)
(***************************************************************************)
EXTENDS Changeset

CONSTANTS
  Written,      \* the changesets that are written and read back
  Garbage       \* strings that are read and were not written by toString

Text == Seq(STRING)

VARIABLES
  source,       \* the changeset str was written from, or NoChangeset
  str,          \* the argument of fromString
  pos,          \* where the next operation is looked for, from 0
  newLines, attrib,
  changeset,    \* the result
  pc

vars == <<source, str, pos, newLines, attrib, changeset, pc>>

----------------------------------------------------------------------------
(* Numbers.                                                                *)

Base36 == <<"0", "1", "2", "3", "4", "5", "6", "7", "8", "9", "a", "b", "c",
            "d", "e", "f", "g", "h", "i", "j", "k", "l", "m", "n", "o", "p",
            "q", "r", "s", "t", "u", "v", "w", "x", "y", "z">>

WordChar == ToSet(Base36) \cup {"Z", "_"}      \* \w

MaxInt == 32767 * 65536 + 65535

MinInt == -MaxInt - 1

Int32 == MinInt .. MaxInt

\* quint64, and unsigned long where that has 64 bits: four times 16 bits, the
\* lowest first.
Radix == 65536

Word == 0 .. Radix - 1

Quint64 == Word \X Word \X Word \X Word

Zero == <<0, 0, 0, 0>>

ULongMax == <<Radix - 1, Radix - 1, Radix - 1, Radix - 1>>

\* An int handed to a quint64, and a quint64 stored in an int (88, 89, 104).
ToQuint64(num) ==
  LET sign == IF num < 0 THEN Radix - 1 ELSE 0
  IN  <<num % Radix, (num \div Radix) % Radix, sign, sign>>

ToInt(v) == Radix * (IF 2 * v[2] < Radix THEN v[2] ELSE v[2] - Radix) + v[1]

\* Sums and differences of ints.  Where they overflow the build wraps.
Plus(a, b) ==
  CASE b > 0 /\ a > MaxInt - b -> (a - MaxInt - 1) + (b - MaxInt - 1)
    [] b < 0 /\ a < MinInt - b -> (a + MaxInt + 1) + (b + MaxInt + 1)
    [] OTHER                   -> a + b

Minus(a, b) ==
  CASE b < 0 /\ a > MaxInt + b -> (a - MaxInt - 1) - (b + MaxInt + 1)
    [] b > 0 /\ a < MinInt + b -> (a + MaxInt + 1) - (b - MaxInt - 1)
    [] OTHER                   -> a - b

\* value / 36 and value % 36, by long division.
Div36(v) ==
  LET r3 == Radix * (v[4] % 36) + v[3]
      r2 == Radix * (r3 % 36) + v[2]
      r1 == Radix * (r2 % 36) + v[1]
  IN  [quotient  |-> <<r1 \div 36, r2 \div 36, r3 \div 36, v[4] \div 36>>,
       remainder |-> r1 % 36]

Base36Enc[value \in Quint64] ==
  LET division == Div36(value)
  IN  (IF division.quotient = Zero THEN <<>> ELSE Base36Enc[division.quotient])
        \o <<Base36[division.remainder + 1]>>

DigitValue(c) == IF c = "Z" THEN 35 ELSE (CHOOSE d \in 1 .. 36 : Base36[d] = c) - 1

\* 36 * v + d, or the greatest value where that is out of range.
AddDigit(v, d) ==
  LET s1 == 36 * v[1] + d
      s2 == 36 * v[2] + s1 \div Radix
      s3 == 36 * v[3] + s2 \div Radix
      s4 == 36 * v[4] + s3 \div Radix
  IN  IF s4 >= Radix THEN ULongMax
      ELSE <<s1 % Radix, s2 % Radix, s3 % Radix, s4>>

\* The digits at the beginning, as strtoul reads them.
Base36Dec(text) ==
  LET digits == {n \in 0 .. Len(text) : \A k \in 1 .. n : text[k] # "_"}
      last   == CHOOSE n \in digits : \A m \in digits : m <= n
  IN  FoldLeft(LAMBDA value, c : AddDigit(value, DigitValue(c)), Zero, Left(text, last))

----------------------------------------------------------------------------
(* Writing.                                                                *)

PackNum(num) == Base36Enc[ToQuint64(num)]

\* What toString writes before the operator: its attribute and line breaks.
Modifiers(lines, attribute) ==
  (IF attribute # -1 THEN <<"*">> \o PackNum(attribute) ELSE <<>>)
    \o (IF lines > 0 THEN <<"|">> \o PackNum(lines) ELSE <<>>)

OpText(op) == Modifiers(op.newlines, op.attrib) \o <<op.kind>> \o PackNum(op.opLength)

OpsText(ops) == FlattenSeq([i \in DOMAIN ops |-> OpText(ops[i])])

\* Mutant of Sizes: a text that shrinks is written like one that grows.
SizesUnsigned(cs) ==
  <<"Z", ":">> \o PackNum(cs.oldLength) \o <<">">>
    \o PackNum(IF cs.newLength >= cs.oldLength
               THEN Minus(cs.newLength, cs.oldLength) ELSE Minus(cs.oldLength, cs.newLength))

Sizes(cs) ==
  <<"Z", ":">> \o PackNum(cs.oldLength)
    \o (IF cs.newLength >= cs.oldLength
        THEN <<">">> \o PackNum(Minus(cs.newLength, cs.oldLength))
        ELSE <<"<">> \o PackNum(Minus(cs.oldLength, cs.newLength)))

ChangesetToString(cs) == Sizes(cs) \o OpsText(cs.ops) \o <<"$">> \o cs.bank

ASSUME StringsAreTexts ==
  Garbage \subseteq Text /\ \A cs \in Written : ChangesetToString(cs) \in Text

----------------------------------------------------------------------------
(* Reading.                                                                *)

NoChangeset == MakeChangeset(0, 0, <<>>, <<>>)      \* Changeset()

\* \w+ from position i on: the position of its last letter, i - 1 if none.
WordEnd(s, i) ==
  CHOOSE e \in i - 1 .. Len(s) :
    /\ \A k \in i .. e : s[k] \in WordChar
    /\ e = Len(s) \/ s[e + 1] \notin WordChar

\* ^Z:(\w+)([><])(\w+)
SizesMatch(s) ==
  /\ Left(s, 2) = <<"Z", ":">>
  /\ LET sign == WordEnd(s, 3) + 1
     IN  /\ sign > 3 /\ sign < Len(s)
         /\ s[sign] \in {">", "<"} /\ s[sign + 1] \in WordChar

\* ([=\+\-\*\|]\w+) from position p (from 0) on, wherever the first one is.
OpStarts(s, p) ==
  {k \in p + 1 .. Len(s) - 1 :
     s[k] \in {"=", "+", "-", "*", "|"} /\ s[k + 1] \in WordChar}

FirstOp(s, p) ==
  LET first == CHOOSE k \in OpStarts(s, p) : \A j \in OpStarts(s, p) : k <= j
  IN  SubSeq(s, first, WordEnd(s, first + 1))

Init ==
  /\ \/ source \in Written /\ str = ChangesetToString(source)
     \/ source = NoChangeset /\ str \in Garbage
  /\ pos = 0 /\ newLines = -1 /\ attrib = -1
  /\ changeset = NoChangeset
  /\ pc = "sizes"

Refuse ==
  /\ pc = "sizes" /\ ~SizesMatch(str)
  /\ pc' = "done"
  /\ UNCHANGED <<source, str, pos, newLines, attrib, changeset>>

ReadSizes ==
  /\ pc = "sizes" /\ SizesMatch(str)
  /\ LET sign == WordEnd(str, 3) + 1
         end  == WordEnd(str, sign + 1)
         old  == ToInt(Base36Dec(SubSeq(str, 3, sign - 1)))
         diff == ToInt(Base36Dec(SubSeq(str, sign + 1, end)))
         new  == IF str[sign] = ">" THEN Plus(old, diff) ELSE Minus(old, diff)
     IN  /\ changeset' = MakeChangeset(old, new, <<>>, <<>>)
         /\ pos' = end
  /\ pc' = "ops"
  /\ UNCHANGED <<source, str, newLines, attrib>>

\* Mutant of TakeOp: the attribute is kept for the next operation.
TakeOpKeepsAttrib(c, value) ==
  \/ /\ c = "|"
     /\ newLines' = Plus(IF newLines = -1 THEN 0 ELSE newLines, value)
     /\ UNCHANGED <<attrib, changeset>>
  \/ /\ c = "*"
     /\ attrib' = value
     /\ UNCHANGED <<newLines, changeset>>
  \/ /\ c \in {KeepChars, InsertChars, SkipOverChars}
     /\ changeset' = [changeset EXCEPT !.ops = Append(@, Op(c, value, newLines, attrib))]
     /\ newLines' = -1 /\ UNCHANGED attrib

\* Line breaks and an attribute wait for the operation they belong to.
TakeOp(c, value) ==
  \/ /\ c = "|"
     /\ newLines' = Plus(IF newLines = -1 THEN 0 ELSE newLines, value)
     /\ UNCHANGED <<attrib, changeset>>
  \/ /\ c = "*"
     /\ attrib' = value
     /\ UNCHANGED <<newLines, changeset>>
  \/ /\ c \in {KeepChars, InsertChars, SkipOverChars}
     /\ changeset' = [changeset EXCEPT !.ops = Append(@, Op(c, value, newLines, attrib))]
     /\ newLines' = -1 /\ attrib' = -1

\* Mutants of Passed: the character behind is counted; an attribute is not passed.
PassedOneMore(op) == Len(op) + 1

PassedNoAttribute(op) == IF op[1] = "*" THEN 0 ELSE Len(op)

\* opsMatch.matchedLength()
Passed(op) == Len(op)

\* One iteration of the loop.  The position moves by the length of what was
\* found, not to its end.
ReadOp ==
  /\ pc = "ops" /\ OpStarts(str, pos) # {}
  /\ LET op == FirstOp(str, pos)
     IN  /\ TakeOp(op[1], ToInt(Base36Dec(Tail(op))))
         /\ pos' = pos + Passed(op)
  /\ UNCHANGED <<source, str, pc>>

ReadBank ==
  /\ pc = "ops" /\ OpStarts(str, pos) = {}
  /\ changeset' = [changeset EXCEPT !.bank = Mid(str, pos + 1)]
  /\ pc' = "done"
  /\ UNCHANGED <<source, str, pos, newLines, attrib>>

Next == Refuse \/ ReadSizes \/ ReadOp \/ ReadBank

Spec == Init /\ [][Next]_vars

----------------------------------------------------------------------------
WasWritten == source # NoChangeset

\* No character of the bank starts an operation.
PlainBank(cs) == OpStarts(<<"$">> \o cs.bank, 0) = {}

\* What a string can tell of an operation: a count of line breaks that is not
\* positive is not written.
Legible(cs) ==
  [cs EXCEPT !.ops = [i \in DOMAIN @ |->
     [@[i] EXCEPT !.newlines = IF @ > 0 THEN @ ELSE -1]]]

\* Whatever string is read, each number of the result is one an int holds, cut
\* from the 64 bits read or wrapped in a sum (88-94, 104-107), so that a length
\* may well be negative; and the position stays in the string (101-121).
TypeOK ==
  /\ pos \in 0 .. Len(str) /\ newLines \in Int32 /\ attrib \in Int32
  /\ changeset.oldLength \in Int32 /\ changeset.newLength \in Int32
  /\ \A i \in DOMAIN changeset.ops :
       LET op == changeset.ops[i]
       IN  {op.opLength, op.newlines, op.attrib} \subseteq Int32
  /\ pc \in {"sizes", "ops", "done"}

\* As long as the search has not left the operations, what was read and what
\* is pending, written again, is what was passed (the loop, 101-121).
PassedIsRead ==
  LET dollar == Len(str) - Len(source.bank) - 1
  IN  WasWritten /\ pc = "ops" /\ pos <= dollar =>
        Left(str, pos) = Sizes(changeset) \o OpsText(changeset.ops) \o Modifiers(newLines, attrib)

\* What is read is what was written, every int that 64 bits and back leave as it
\* was, negative ones too, shrinking or growing, if nothing in its bank looks like an operation, and only then: the
\* loop searches the bank, too (toString, 55-75; fromString, 77-125).
ReadsBack ==
  pc = "done" /\ WasWritten => (changeset = Legible(source) <=> PlainBank(source))

\* The loop, which has no bound, ends on any string: each iteration moves the
\* position on, and none moves it beyond the string although it is moved by a
\* length and not to a place (101-121).
ReadingAdvances ==
  [][pc = "ops" /\ pc' = "ops" => pos < pos' /\ pos' <= Len(str)]_vars

=============================================================================
