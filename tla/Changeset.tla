------------------------------ MODULE Changeset ------------------------------
(***************************************************************************)
(* The changeset algorithms of lib/changeset.cpp as operators: the word    *)
(* diff, the raw changeset built from it, the two rewriting passes that    *)
(* shorten it, and its application to a text.                              *)
(*                                                                         *)
(* A text (QString) is a sequence of characters of which only the space    *)
(* SP and the line break NL are told apart.  A DiffOut vector keeps the    *)
(* 0-based indices of the code: it is a function on 0 .. size-1, and the   *)
(* row -1 means "no counterpart in the other text", as in the code.        *)
(***************************************************************************)
EXTENDS Integers, Sequences, FiniteSets, SequencesExt

CONSTANTS SP, NL        \* the space and the line break

ASSUME SpaceIsNoLineBreak == SP # NL

(***************************************************************************)
(* Qt's QString: mid(n), mid(0, n), count, and the insert and remove that  *)
(* applyChangeset calls.  insert() beyond the end first pads with spaces,  *)
(* an empty insertion does nothing; remove() is clipped to the string.     *)
(***************************************************************************)
Mid(s, n)   == SubSeq(s, n + 1, Len(s))
Left(s, n)  == SubSeq(s, 1, IF n < Len(s) THEN n ELSE Len(s))
Count(s, c) == Cardinality({i \in DOMAIN s : s[i] = c})

QStringInsert(s, pos, str) ==
  LET padding == [k \in 1 .. pos - Len(s) |-> SP]
  IN  IF str = <<>> THEN s ELSE Left(s \o padding, pos) \o str \o Mid(s, pos)

QStringRemove(s, pos, n) == Left(s, pos) \o Mid(s, pos + n)

----------------------------------------------------------------------------
(***************************************************************************)
(* Operations and changesets.                                              *)
(***************************************************************************)
InsertChars   == "+"
SkipOverChars == "-"
KeepChars     == "="

Op(kind, opLength, newlines, attrib) ==
  [kind |-> kind, opLength |-> opLength, newlines |-> newlines, attrib |-> attrib]

OpSet == [kind     : {InsertChars, SkipOverChars, KeepChars},
          opLength : Nat, newlines : Int, attrib : {-1, 0}]

MakeChangeset(oldLength, newLength, ops, bank) ==
  [oldLength |-> oldLength, newLength |-> newLength, ops |-> ops, bank |-> bank]

ChangesetSet(Char) == [oldLength : Nat, newLength : Nat,
                       ops : Seq(OpSet), bank : Seq(Char)]

\* JS::newLines: -1 stands for "no line break".
NewLines(text) == LET count == Count(text, NL) IN IF count = 0 THEN -1 ELSE count

\* Mutant of OpOver: the line breaks are not counted.
OpOverUncounted(kind, text, attrib) == Op(kind, Len(text), -1, attrib)

OpOver(kind, text, attrib) == Op(kind, Len(text), NewLines(text), attrib)

----------------------------------------------------------------------------
(***************************************************************************)
(* JS::diff.                                                               *)
(***************************************************************************)
AddToWords(words, c) ==
  IF c = SP THEN Append(words, <<>>) ELSE [words EXCEPT ![Len(words)] = Append(@, c)]

\* text.isEmpty() ? QStringList() : text.split(" ")
Words(text) == IF text = <<>> THEN <<>> ELSE FoldLeft(AddToWords, << <<>> >>, text)

DiffOut(words) == [i \in 0 .. Len(words) - 1 |-> [text |-> words[i + 1], row |-> -1]]

Rows(d, word) == {i \in DOMAIN d : d[i].text = word}

\* A word that occurs exactly once on either side is paired with its twin.
MatchUnique(d, e) ==
  LET Twins(i) == Rows(e, d[i].text)
  IN  [i \in DOMAIN d |->
         IF Rows(d, d[i].text) = {i} /\ Cardinality(Twins(i)) = 1
         THEN [d[i] EXCEPT !.row = CHOOSE j \in Twins(i) : TRUE]
         ELSE d[i]]

Pair(m, n, o) == [n |-> [m.n EXCEPT ![n].row = o], o |-> [m.o EXCEPT ![o].row = n]]

\* Mutant of MatchDown: the word below is taken without comparing it.
MatchDownUnchecked(m, i) ==
  LET below == m.n[i].row + 1
  IN  IF below \in DOMAIN m.o THEN Pair(m, i + 1, below) ELSE m

\* One iteration of the downward loop: the word after new word i is paired
\* with the word after i's counterpart.  DiffOutData::isValid is row != 1.
MatchDown(m, i) ==
  LET below == m.n[i].row + 1
  IN  IF below \in DOMAIN m.o /\ m.o[below].row # 1 /\ m.n[i + 1] = m.o[below]
      THEN Pair(m, i + 1, below)
      ELSE m

\* One iteration of the upward loop.
MatchUp(m, i) ==
  LET above == m.n[i].row - 1
  IN  IF above \in DOMAIN m.o /\ m.n[i - 1] = m.o[above]
      THEN Pair(m, i - 1, above)
      ELSE m

Diff(oldWords, newWords) ==
  LET o      == DiffOut(oldWords)
      n      == DiffOut(newWords)
      last   == Len(newWords) - 1
      unique == [o |-> MatchUnique(o, n), n |-> MatchUnique(n, o)]
      down   == FoldLeft(MatchDown, unique, [k \in 1 .. last |-> k - 1])
  IN  FoldLeft(MatchUp, down, [k \in 1 .. last |-> last + 1 - k])

----------------------------------------------------------------------------
(***************************************************************************)
(* JS::createChangeset: the raw changeset.                                 *)
(***************************************************************************)
\* Mutant of Token: the last word gets a space too.
TokenOffByOne(d, i, spaces) == d[i].text \o (IF i > spaces THEN <<>> ELSE <<SP>>)

\* Word i with the space that followed it; the last word has none.
Token(d, i, spaces) == d[i].text \o (IF i >= spaces THEN <<>> ELSE <<SP>>)

\* The deletions of the unpaired old words from position first on.
Deletions(o, first, oSpace) ==
  LET size == Cardinality(DOMAIN o)
      stop == CHOOSE k \in first .. size :
                /\ k = size \/ o[k].row # -1
                /\ \A j \in first .. k - 1 : o[j].row = -1
  IN  [k \in 1 .. stop - first |->
         OpOver(SkipOverChars, Token(o, first + k - 1, oSpace), -1)]

\* What new word i adds.  The operations of a word whose "held" is TRUE wait
\* in potentialOps until a later word has something to write.
WordPart(d, i, oSpace, nSpace) ==
  LET word      == d.n[i]
      next      == word.row + 1
      delSpace  == next \in DOMAIN d.o /\ d.o[next].row = -1 /\ i >= nSpace
      addSpace  == i + 1 \in DOMAIN d.n /\ d.n[i + 1].row = -1 /\ word.row >= oSpace
      kept      == IF addSpace THEN word.text ELSE Token(d.n, i, nSpace)
      dels      == (IF addSpace THEN <<Op(InsertChars, 1, -1, 0)>> ELSE <<>>)
                   \o (IF delSpace THEN <<Op(SkipOverChars, 1, -1, -1)>> ELSE <<>>)
                   \o Deletions(d.o, next, oSpace)
  IN  IF word.row = -1
      THEN [ops  |-> <<OpOver(InsertChars, Token(d.n, i, nSpace), 0)>>,
            bank |-> Token(d.n, i, nSpace), held |-> FALSE]
      ELSE [ops  |-> <<OpOver(KeepChars, kept, -1)>> \o dels,
            bank |-> IF addSpace THEN <<SP>> ELSE <<>>, held |-> dels = <<>>]

RawChangeset(oldText, newText) ==
  LET d        == Diff(Words(oldText), Words(newText))
      oSpace   == Count(oldText, SP)
      nSpace   == Count(newText, SP)
      parts    == [k \in 1 .. Cardinality(DOMAIN d.n) |->
                     WordPart(d, k - 1, oSpace, nSpace)]
      leading  == IF d.n[0].row # 0 THEN Deletions(d.o, 0, oSpace) ELSE <<>>
      written  == {k \in DOMAIN parts : \E j \in k .. Len(parts) : ~ parts[j].held}
      ops      == [k \in 1 .. Cardinality(written) |-> parts[k].ops]
      banks    == [k \in DOMAIN parts |-> parts[k].bank]
  IN  MakeChangeset(Len(oldText), Len(newText),
                    leading \o FlattenSeq(ops), FlattenSeq(banks))

JSCreateChangeset(oldText, newText) ==
  CASE oldText = <<>> /\ newText = <<>> -> MakeChangeset(0, 0, <<>>, <<>>)
    [] oldText # <<>> /\ newText = <<>> ->
         MakeChangeset(Len(oldText), 0,
                       <<Op(SkipOverChars, Len(oldText), -1, -1)>>, <<>>)
    [] OTHER -> RawChangeset(oldText, newText)

----------------------------------------------------------------------------
(***************************************************************************)
(* JS::collapse merges neighbours of one kind two by two and drops a       *)
(* trailing '='.  Scanning from the left, operation i is the first of a    *)
(* couple or alone exactly if its distance to the start of its run of      *)
(* equal kinds is even.                                                    *)
(***************************************************************************)
RunStart(ops, i) ==
  CHOOSE s \in 1 .. i :
    /\ \A j \in s .. i : ops[j].kind = ops[i].kind
    /\ s = 1 \/ ops[s - 1].kind # ops[i].kind

LinesBehind(next) == IF next.newlines # -1 THEN next.newlines ELSE 0

\* Mutants of Merge: the attribute columns are added up like the lengths; the
\* second length replaces the first.
MergeAttribs(op, next) ==
  [op EXCEPT !.opLength = @ + next.opLength, !.newlines = @ + LinesBehind(next),
             !.attrib = @ + next.attrib]

MergeReplacing(op, next) ==
  [op EXCEPT !.opLength = next.opLength, !.newlines = @ + LinesBehind(next)]

Merge(op, next) ==
  [op EXCEPT !.opLength = @ + next.opLength,
             !.newlines = @ + LinesBehind(next)]

\* Operation i is the second of a couple, the first of one.
Second(ops, i) == (i - RunStart(ops, i)) % 2 = 1

Couple(ops, i) == ~Second(ops, i) /\ i < Len(ops) /\ ops[i].kind = ops[i + 1].kind

\* What is left of operation i.
Piece(ops, i) ==
  IF Second(ops, i) \/ (i = Len(ops) /\ ops[i].kind = KeepChars) THEN <<>>
  ELSE IF Couple(ops, i) THEN <<Merge(ops[i], ops[i + 1])>>
  ELSE <<ops[i]>>

CollapseOps(ops) == FlattenSeq([i \in DOMAIN ops |-> Piece(ops, i)])

Collapse(cs) == [cs EXCEPT !.ops = CollapseOps(@)]

----------------------------------------------------------------------------
(***************************************************************************)
(* JS::optimize scans the operations with a state: the operations and bank *)
(* written so far, the rest of the old text and of the bank, and the '-'   *)
(* (prevPart, a sequence of at most one operation) not yet written.        *)
(***************************************************************************)
\* How many characters the two texts share at their end; the loop stops
\* before the first character of the inserted one (j > 0).
CommonSuffix(t, p) ==
  CHOOSE k \in 0 .. Len(t) :
    /\ k = 0 \/ k < Len(p)
    /\ \A m \in 0 .. k - 1 : t[Len(t) - m] = p[Len(p) - m]
    /\ \/ k = Len(t)
       \/ k + 1 >= Len(p)
       \/ t[Len(t) - k] # p[Len(p) - k]

\* Mutant of CommonPrefix: equal characters are counted beyond the first
\* difference.
EqualPlaces(t, p) == Cardinality({k \in DOMAIN t \cap DOMAIN p : t[k] = p[k]})

CommonPrefix(t, p) ==
  CHOOSE k \in 0 .. Len(t) :
    /\ k <= Len(p)
    /\ \A m \in 1 .. k : t[m] = p[m]
    /\ k = Len(t) \/ k = Len(p) \/ t[k + 1] # p[k + 1]

\* A '-' followed by a '+': what both ends have in common is kept.  The text
\* moves past the kept prefix and the deletion, not past the kept suffix.
OptimizePair(s, ins) ==
  LET del     == s.prevPart[1]
      t       == Left(s.text, del.opLength)
      p       == Left(s.rest, ins.opLength)
      len     == CommonSuffix(t, p)
      i       == CommonPrefix(Left(t, Len(t) - len), Left(p, Len(p) - len))
      nlLen   == Count(Mid(t, Len(t) - len), NL)
      nlI     == Count(Left(t, i), NL)
      Cut(op) == [op EXCEPT !.opLength = @ - len - i, !.newlines = @ - nlLen - nlI]
      cur     == Cut(ins).opLength
      IfAny(op) == IF op.opLength > 0 THEN <<op>> ELSE <<>>
  IN  [ops      |-> s.ops \o IfAny(Op(KeepChars, i, nlI, -1)) \o IfAny(Cut(del))
                      \o IfAny(Cut(ins)) \o IfAny(Op(KeepChars, len, nlLen, -1)),
       bank     |-> s.bank \o Left(Mid(s.rest, i), cur),
       text     |-> Mid(s.text, i + Cut(del).opLength),
       rest     |-> Mid(s.rest, i + cur + len),
       prevPart |-> <<>>]

\* An unoptimized '-' is written as it is.
WritePrevPart(s) ==
  IF s.prevPart = <<>> THEN s
  ELSE [s EXCEPT !.text     = Mid(@, s.prevPart[1].opLength),
                 !.ops      = @ \o s.prevPart,
                 !.prevPart = <<>>]

OptimizeOp(s, op) ==
  LET w == WritePrevPart(s)
  IN  CASE op.kind = InsertChars /\ s.prevPart # <<>> -> OptimizePair(s, op)
        [] op.kind = InsertChars /\ s.prevPart = <<>> ->
             [s EXCEPT !.bank = @ \o Left(s.rest, op.opLength),
                       !.rest = Mid(@, op.opLength),
                       !.ops  = Append(@, op)]
        [] op.kind = KeepChars ->
             [w EXCEPT !.text = Mid(@, op.opLength), !.ops = Append(@, op)]
        [] op.kind = SkipOverChars -> [w EXCEPT !.prevPart = <<op>>]

OptimizeStart(cs, oldText) ==
  [ops |-> <<>>, bank |-> <<>>, text |-> oldText, rest |-> cs.bank, prevPart |-> <<>>]

\* Mutants of Optimize: the bank is not replaced; a last '-' is forgotten.
OptimizeOldBank(cs, oldText) ==
  LET end == FoldLeft(OptimizeOp, OptimizeStart(cs, oldText), cs.ops)
  IN  [cs EXCEPT !.ops = end.ops \o end.prevPart]

OptimizeLastLost(cs, oldText) ==
  LET end == FoldLeft(OptimizeOp, OptimizeStart(cs, oldText), cs.ops)
  IN  [cs EXCEPT !.ops = end.ops, !.bank = end.bank]

Optimize(cs, oldText) ==
  LET end == FoldLeft(OptimizeOp, OptimizeStart(cs, oldText), cs.ops)
  IN  [cs EXCEPT !.ops = end.ops \o end.prevPart, !.bank = end.bank]

----------------------------------------------------------------------------
(***************************************************************************)
(* One round of the loop of JS::optimizeChangeset, the whole loop, and     *)
(* createChangeset.  Module ChangesetCreation takes the loop apart.        *)
(***************************************************************************)
Round(cs, oldText) == Collapse(Optimize(Collapse(cs), oldText))

OptimizeChangeset(cs, oldText) ==
  LET loop[c \in ChangesetSet(STRING)] ==
        LET next == Round(c, oldText) IN IF next = c THEN c ELSE loop[next]
  IN  loop[cs]

CreateChangeset(oldText, newText) ==
  OptimizeChangeset(JSCreateChangeset(oldText, newText), oldText)

----------------------------------------------------------------------------
(***************************************************************************)
(* applyChangeset.                                                         *)
(***************************************************************************)
ApplyOp(bank, s, op) ==
  CASE op.kind = KeepChars -> [s EXCEPT !.pos = @ + op.opLength]
    [] op.kind = InsertChars ->
         [text    |-> QStringInsert(s.text, s.pos, Left(Mid(bank, s.bankPos), op.opLength)),
          pos     |-> s.pos + op.opLength,
          bankPos |-> s.bankPos + op.opLength]
    [] op.kind = SkipOverChars ->
         [s EXCEPT !.text = QStringRemove(@, s.pos, op.opLength)]

ApplyChangeset(oldText, cs) ==
  FoldLeft(LAMBDA s, op : ApplyOp(cs.bank, s, op),
           [text |-> oldText, pos |-> 0, bankPos |-> 0], cs.ops).text
=============================================================================
