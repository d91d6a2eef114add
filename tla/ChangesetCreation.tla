-------------------------- MODULE ChangesetCreation --------------------------
(***************************************************************************)
(* One call of createChangeset(oldText, newText): the raw changeset, then  *)
(* the do-while loop of JS::optimizeChangeset, one action per pass.  The   *)
(* loop has no bound of its own; it ends when a round changes nothing.     *)
(***************************************************************************)
EXTENDS Changeset

CONSTANT Text           \* the texts the two arguments are taken from

ASSUME TextsAreSequences == \A t \in Text : t \in Seq(Range(t))

VARIABLES
  oldText, newText,     \* the arguments
  cs,                   \* result / newChangeset
  beforeOptimizing,     \* the changeset at the start of the round
  pc

vars == <<oldText, newText, cs, beforeOptimizing, pc>>

\* Changeset(): the value both locals are constructed with.
EmptyChangeset == MakeChangeset(0, 0, <<>>, <<>>)

Init ==
  /\ oldText \in Text
  /\ newText \in Text
  /\ cs = EmptyChangeset
  /\ beforeOptimizing = EmptyChangeset
  /\ pc = "create"

Create ==
  /\ pc = "create"
  /\ cs' = JSCreateChangeset(oldText, newText)
  /\ pc' = "collapse"
  /\ UNCHANGED <<oldText, newText, beforeOptimizing>>

FirstCollapse ==
  /\ pc = "collapse"
  /\ beforeOptimizing' = cs
  /\ cs' = Collapse(cs)
  /\ pc' = "optimize"
  /\ UNCHANGED <<oldText, newText>>

OptimizePass ==
  /\ pc = "optimize"
  /\ cs' = Optimize(cs, oldText)
  /\ pc' = "recollapse"
  /\ UNCHANGED <<oldText, newText, beforeOptimizing>>

\* Mutant of SecondCollapse: one round only.
SingleRound ==
  /\ pc = "recollapse"
  /\ cs' = Collapse(cs)
  /\ pc' = "done"
  /\ UNCHANGED <<oldText, newText, beforeOptimizing>>

\* The second collapse of the round and the test of the while.
SecondCollapse ==
  /\ pc = "recollapse"
  /\ cs' = Collapse(cs)
  /\ pc' = IF cs' # beforeOptimizing THEN "collapse" ELSE "done"
  /\ UNCHANGED <<oldText, newText, beforeOptimizing>>

Next == Create \/ FirstCollapse \/ OptimizePass \/ SecondCollapse

Spec == Init /\ [][Next]_vars

----------------------------------------------------------------------------
(***************************************************************************)
(* What a changeset says about the texts.                                  *)
(***************************************************************************)
Total(c, kind) ==
  FoldLeft(LAMBDA sum, op : IF op.kind = kind THEN sum + op.opLength ELSE sum,
           0, c.ops)

\* Operations that keep or delete stay inside the old text.
FitsOldText(c) == Total(c, KeepChars) + Total(c, SkipOverChars) <= Len(oldText)

Produced(c) == ApplyChangeset(oldText, c)

\* The words the diff pairs come in the same order in both texts.
WordsInOrder ==
  LET n == Diff(Words(oldText), Words(newText)).n
  IN  \A i, j \in {k \in DOMAIN n : n[k].row # -1} : i < j => n[i].row < n[j].row

Replacements(ops) ==
  {i \in 1 .. Len(ops) - 1 : ops[i].kind = SkipOverChars /\ ops[i + 1].kind = InsertChars}

\* The characters operation i stands for: new ones from the bank or old ones
\* from the old text.
Before(c, i, kind) == Total([ops |-> SubSeq(c.ops, 1, i - 1)], kind)

Covered(c, i) ==
  LET op == c.ops[i]
  IN  IF op.kind = InsertChars
      THEN Left(Mid(c.bank, Before(c, i, InsertChars)), op.opLength)
      ELSE Left(Mid(oldText, Before(c, i, KeepChars) + Before(c, i, SkipOverChars)),
                op.opLength)

\* The line breaks toString writes for an operation, which are none for a
\* count that is not positive, are those of the characters it covers.
BreaksWritten(c) ==
  \A i \in DOMAIN c.ops :
    LET written == IF c.ops[i].newlines > 0 THEN c.ops[i].newlines ELSE 0
    IN  written = Count(Covered(c, i), NL)

----------------------------------------------------------------------------
(* Invariants.                                                             *)

\* The locals have their types: a changeset never holds a negative length,
\* whatever the passes subtract from it.
TypeOK ==
  /\ oldText \in Text /\ newText \in Text
  /\ cs.oldLength \in Nat /\ cs.newLength \in Nat
  /\ \A i \in DOMAIN cs.ops : cs.ops[i] \in OpSet
  /\ pc \in {"create", "collapse", "optimize", "recollapse", "done"}

\* Between any two passes the bank holds exactly the characters the '+'
\* operations insert (changeset.cpp:385-434: optimize cuts both at once).
BankMatchesInsertions == Len(cs.bank) = Total(cs, InsertChars)

\* If no word moved, the operations lead from oldLength to newLength and stay
\* inside the old text after every pass (createChangeset and both passes).
LengthsBalance ==
  pc # "create" /\ WordsInOrder =>
    /\ Total(cs, InsertChars) - Total(cs, SkipOverChars) = cs.newLength - cs.oldLength
    /\ Total(cs, KeepChars) + Total(cs, SkipOverChars) <= cs.oldLength

\* The loop stops at a changeset neither pass can shorten: no two neighbours
\* of one kind, no trailing '=', and no '-' '+' couple that deletes and inserts
\* a common first or last character (JS::optimizeChangeset, 231-241).
ResultIsCompact ==
  pc = "done" =>
    /\ \A i \in 1 .. Len(cs.ops) - 1 : cs.ops[i].kind # cs.ops[i + 1].kind
    /\ cs.ops # <<>> => cs.ops[Len(cs.ops)].kind # KeepChars
    /\ \A i \in Replacements(cs.ops) :
         /\ CommonPrefix(Covered(cs, i), Covered(cs, i + 1)) = 0
         /\ CommonSuffix(Covered(cs, i), Covered(cs, i + 1)) = 0

----------------------------------------------------------------------------
(* Action properties.                                                      *)

\* If no word moved, the raw changeset leads from the old to the new text,
\* although it drops every '=' held back in potentialOps at the end
\* (JS::createChangeset, 243-339).
RawYieldsNewText ==
  [][pc = "create" /\ WordsInOrder => Produced(cs') = newText]_vars

\* The operations a changeset is built from count the line breaks they cover;
\* merging them loses some (243-339, 218; the single '-' for an emptied text
\* never counts any).
RawCountsNewlines ==
  [][pc = "create" /\ WordsInOrder /\ newText # <<>> => BreaksWritten(cs')]_vars

\* collapse merges and drops operations without changing what the changeset
\* produces, whether or not words moved (206-229).
CollapseKeepsText ==
  [][(pc = "collapse" \/ pc = "recollapse") => Produced(cs') = Produced(cs)]_vars

\* optimize does so if the operations stay inside the old text, as they do if no
\* word moved, and at most one '-' is followed by a '+' (341-444;
\* RoundTripInOrder shows that two are one too many).
OptimizeKeepsText ==
  [][/\ pc = "optimize"
     /\ FitsOldText(cs)
     /\ Cardinality(Replacements(cs.ops)) <= 1
     => Produced(cs') = Produced(cs)]_vars

\* The do-while loop has no round limit and optimize may lengthen the list
\* collapse shortens; it ends because a round that is not the last one leaves
\* less to insert and delete or, failing that, fewer operations (231-241).
\* What a round saves it saves on both sides.
EditSize(c) == Total(c, InsertChars) + Total(c, SkipOverChars)

EveryRoundShrinks ==
  [][pc = "recollapse" =>
       /\ Total(beforeOptimizing, InsertChars) - Total(cs', InsertChars)
            = Total(beforeOptimizing, SkipOverChars) - Total(cs', SkipOverChars)
       /\ \/ pc' = "done" /\ cs' = beforeOptimizing
          \/ EditSize(cs') < EditSize(beforeOptimizing)
          \/ /\ EditSize(cs') = EditSize(beforeOptimizing)
             /\ Len(cs'.ops) < Len(beforeOptimizing.ops)]_vars

----------------------------------------------------------------------------
(* What the source says and the code does not do.                          *)

\* createChangeset's own check, changeset.cpp:132: what applying the result
\* to the old text yields is the new text.  Here it is asked for texts in which
\* no word moved; that a moved word is one too many is known.
RoundTripInOrder == pc = "done" /\ WordsInOrder => Produced(cs) = newText
=============================================================================
