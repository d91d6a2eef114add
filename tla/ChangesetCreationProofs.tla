----------------------- MODULE ChangesetCreationProofs -----------------------
(***************************************************************************)
(* Proofs about ChangesetCreation, for any texts: the types, the bank, the *)
(* result nothing can shorten, that every round of the loop shrinks, and   *)
(* that collapse and optimize keep what the changeset produces.            *)
(*                                                                         *)
(* What a changeset inserts and deletes is a sum over its operations, and  *)
(* the proofs follow that sum through every pass: JS::collapse keeps it,   *)
(* JS::optimize cuts as much from either side, and if it cuts nothing it   *)
(* copies what it reads.  JS::createChangeset makes a bank as long as the  *)
(* sum of its '+' operations, and so it stays.  What a changeset produces  *)
(* is followed through applyChangeset operation by operation.              *)
(*                                                                         *)
(* That the raw changeset yields the new text, in texts of which no word   *)
(* moved, is shown word by word: the words with their spaces split either  *)
(* text, JS::diff pairs equal ones, and in front of each new word the      *)
(* operations so far have written the new text up to there and passed the  *)
(* old one up to the next word that is paired.                             *)
(***************************************************************************)
EXTENDS ChangesetCreation, SequenceLemmas, FiniteSetTheorems

----------------------------------------------------------------------------
(* Sums: the characters of the operations of one kind.                     *)

\* What an operation adds to the characters of its kind.
Amount(op, kind) == IF op.kind = kind THEN op.opLength ELSE 0

\* The characters of the operations of a kind: Total of a list.
Sum(ops, kind) == Total([ops |-> ops], kind)

\* What Total counts of a changeset depends on its operations alone.
LEMMA TotalIsSum ==
  ASSUME NEW c, NEW kind
  PROVE  Total(c, kind) = Sum(c.ops, kind)
<1> DEFINE r == [ops |-> c.ops]
<1>1. r.ops = c.ops
  OBVIOUS
<1> HIDE DEF r
<1>2. Total(r, kind) = Total(c, kind)
  BY <1>1, Zenon DEF Total
<1> QED BY <1>2 DEF Sum, r

Ops == Seq(OpSet)

\* Lists of operations.
LEMMA OpsBasics ==
  /\ <<>> \in Ops
  /\ \A ops \in Ops : Len(ops) \in Nat /\ \A i \in 1 .. Len(ops) : ops[i] \in OpSet
  /\ \A a, b \in Ops : a \o b \in Ops
BY DEF Ops

\* An operation adds no negative number of characters.
LEMMA AmountType ==
  ASSUME NEW op \in OpSet, NEW kind
  PROVE  Amount(op, kind) \in Nat
BY DEF Amount, OpSet

\* F counts the characters of the first 0, 1, ... operations.
Counts(F, ops, kind) ==
  /\ F \in [0 .. Len(ops) -> Nat] /\ F[0] = 0
  /\ \A i \in 1 .. Len(ops) : F[i] = F[i - 1] + Amount(ops[i], kind)

\* The sum of a list is the last of the sums of its beginnings.
LEMMA SumSteps ==
  ASSUME NEW ops \in Ops, NEW kind
  PROVE  \E F : Counts(F, ops, kind) /\ Sum(ops, kind) = F[Len(ops)]
<1> DEFINE n == Len(ops)
           Is(it) == it = [s \in SUBSET (DOMAIN ops) |->
                             IF s = {} THEN 0
                             ELSE LET x == Max(s)
                                  IN  IF ops[x].kind = kind THEN it[s \ {x}] + ops[x].opLength
                                      ELSE it[s \ {x}]]
           it == CHOOSE f : Is(f)
           h == [p \in Nat \X OpSet |-> p[1] + Amount(p[2], kind)]
<1>1. n \in Nat /\ DOMAIN ops = 1 .. n /\ \A i \in 1 .. n : ops[i] \in OpSet
  BY DEF Ops
<1>2. Sum(ops, kind) = it[DOMAIN ops]
  <2> DEFINE r == [ops |-> ops]
  <2>1. r.ops = ops
    OBVIOUS
  <2> HIDE DEF r
  <2>2. Total(r, kind) = it[DOMAIN ops]
    BY <2>1, Zenon DEF FoldLeft, MapThenFoldSet, Total
  <2> QED BY <2>2 DEF Sum, r
<1>3. h \in [Nat \X OpSet -> Nat] /\ \A k \in Nat, op \in OpSet : h[<<k, op>>] = k + Amount(op, kind)
  BY AmountType
<1> HIDE DEF h
<1>4. IsFold(Nat, OpSet, 0, ops, h)
  BY <1>3 DEF IsFold, Ops
<1>5. PICK f : Folds(f, Nat, 0, ops, h)
  BY <1>4, FoldExists
<1>6. Is(f)
  <2>1. f \in [SUBSET (1 .. n) -> Nat] /\ \A s \in SUBSET (1 .. n) : s = {} => f[s] = 0
    BY <1>5 DEF Folds
  <2>2. ASSUME NEW s \in SUBSET (1 .. n), s # {}
        PROVE  f[s] = IF ops[Max(s)].kind = kind THEN f[s \ {Max(s)}] + ops[Max(s)].opLength
                      ELSE f[s \ {Max(s)}]
    <3>1. Max(s) \in 1 .. n
      BY <1>1, <2>2, GreatestMember
    <3>2. f[s \ {Max(s)}] \in Nat /\ ops[Max(s)] \in OpSet
      BY <1>1, <2>1, <3>1
    <3>3. f[s] = h[<<f[s \ {Max(s)}], ops[Max(s)]>>]
      BY <1>5, <2>2 DEF Folds
    <3> QED BY <1>3, <3>2, <3>3 DEF Amount
  <2> QED BY <1>1, <2>1, <2>2, Zenon
<1>7. Is(it)
  <2> HIDE DEF Is
  <2> QED BY <1>6
<1> HIDE DEF it
<1>8. Loops(it, Nat, 0, ops, h)
  <2>1. it[{}] = 0
    BY <1>7
  <2>2. ASSUME NEW s \in SUBSET (1 .. n), s # {}, it[s \ {Max(s)}] \in Nat
        PROVE  it[s] = h[<<it[s \ {Max(s)}], ops[Max(s)]>>]
    <3>1. it[s] = IF ops[Max(s)].kind = kind THEN it[s \ {Max(s)}] + ops[Max(s)].opLength
                  ELSE it[s \ {Max(s)}]
      BY <1>1, <1>7, <2>2, Zenon
    <3>2. ops[Max(s)] \in OpSet
      BY <1>1, <2>2, GreatestMember
    <3>3. h[<<it[s \ {Max(s)}], ops[Max(s)]>>] = it[s \ {Max(s)}] + Amount(ops[Max(s)], kind)
      BY <1>3, <2>2, <3>2
    <3> QED BY <2>2, <3>1, <3>3 DEF Amount
  <2> QED BY <2>1, <2>2 DEF Loops
<1>9. PICK F : Runs(F, Nat, 0, ops, h) /\ F[n] = it[1 .. n]
  BY <1>4, <1>8, FoldRuns
<1>10. Counts(F, ops, kind)
  <2>1. F \in [0 .. n -> Nat] /\ F[0] = 0 /\ \A i \in 1 .. n : F[i] = h[<<F[i - 1], ops[i]>>]
    BY <1>9 DEF Runs
  <2>2. \A i \in 1 .. n : F[i - 1] \in Nat /\ ops[i] \in OpSet
    BY <1>1, <2>1
  <2> QED BY <1>3, <2>1, <2>2 DEF Counts
<1> QED BY <1>1, <1>2, <1>9, <1>10

\* There is one such F.
LEMMA CountsUnique ==
  ASSUME NEW a \in Ops, NEW b \in Ops, NEW kind, NEW F, NEW G,
         Counts(F, a, kind), Counts(G, b, kind),
         NEW m \in Nat, m <= Len(a), m <= Len(b), \A i \in 1 .. m : a[i] = b[i]
  PROVE  F[m] = G[m]
<1> DEFINE T == {i \in 0 .. m : F[i] = G[i]}
<1>1. Len(a) \in Nat /\ Len(b) \in Nat
  BY OpsBasics
<1>2. 0 \in T
  BY DEF Counts
<1>3. ASSUME NEW i \in 0 .. m - 1, i \in T
      PROVE  i + 1 \in T
  <2> DEFINE j == i + 1
  <2>1. j \in 1 .. m /\ j \in 1 .. Len(a) /\ j \in 1 .. Len(b) /\ j - 1 = i /\ j \in 0 .. m
    BY <1>1
  <2> HIDE DEF j
  <2>2. F[j] = F[i] + Amount(a[j], kind) /\ G[j] = G[i] + Amount(b[j], kind) /\ a[j] = b[j]
    BY <2>1 DEF Counts
  <2>3. j \in T
    BY <1>3, <2>1, <2>2
  <2> QED BY <2>3 DEF j
<1>4. 0 .. m \subseteq T
  <2> HIDE DEF T
  <2> QED BY <1>2, <1>3, UpTo
<1> QED BY <1>4

\* A list has no negative number of characters.
LEMMA SumType ==
  ASSUME NEW ops \in Ops, NEW kind
  PROVE  Sum(ops, kind) \in Nat
<1>1. PICK F : Counts(F, ops, kind) /\ Sum(ops, kind) = F[Len(ops)]
  BY SumSteps
<1>2. Len(ops) \in 0 .. Len(ops)
  BY OpsBasics
<1> QED BY <1>1, <1>2 DEF Counts

\* The empty list has no characters.
LEMMA SumNone == ASSUME NEW kind PROVE Sum(<<>>, kind) = 0
<1>1. <<>> \in Ops /\ Len(<<>>) = 0
  BY OpsBasics
<1> QED BY <1>1, SumSteps DEF Counts

\* An operation behind a list adds its characters.
LEMMA SumAppend ==
  ASSUME NEW ops \in Ops, NEW op \in OpSet, NEW kind
  PROVE  Append(ops, op) \in Ops /\ Sum(Append(ops, op), kind) = Sum(ops, kind) + Amount(op, kind)
<1> DEFINE all == Append(ops, op)
           n == Len(ops)
<1>1. all \in Ops /\ Len(all) = n + 1 /\ n \in Nat /\ all[n + 1] = op
      /\ \A i \in 1 .. n : all[i] = ops[i]
  BY DEF Ops
<1> HIDE DEF all
<1>2. PICK F : Counts(F, ops, kind) /\ Sum(ops, kind) = F[n]
  BY SumSteps
<1>3. PICK G : Counts(G, all, kind) /\ Sum(all, kind) = G[n + 1]
  BY <1>1, SumSteps
<1> HIDE DEF n
<1>4. F[n] = G[n]
  BY <1>1, <1>2, <1>3, CountsUnique DEF n
<1>5. n + 1 \in 1 .. Len(all) /\ (n + 1) - 1 = n
  BY <1>1
<1>6. G[n + 1] = G[n] + Amount(op, kind)
  BY <1>1, <1>3, <1>5 DEF Counts
<1> QED BY <1>1, <1>2, <1>3, <1>4, <1>6 DEF all

\* Two lists in a row add up.
LEMMA SumConcat ==
  ASSUME NEW a \in Ops, NEW b \in Ops, NEW kind
  PROVE  Sum(a \o b, kind) = Sum(a, kind) + Sum(b, kind)
<1> DEFINE n == Len(a)
           m == Len(b)
           all == a \o b
<1>1. /\ all \in Ops /\ n \in Nat /\ m \in Nat /\ Len(all) = n + m
      /\ \A i \in 1 .. n : all[i] = a[i]
      /\ \A i \in 1 .. m : all[n + i] = b[i]
      /\ \A i \in 1 .. m : b[i] \in OpSet
  BY DEF Ops
<1> HIDE DEF all
<1>2. PICK F : Counts(F, a, kind) /\ Sum(a, kind) = F[n]
  BY SumSteps
<1>3. PICK G : Counts(G, b, kind) /\ Sum(b, kind) = G[m]
  BY SumSteps
<1>4. PICK H : Counts(H, all, kind) /\ Sum(all, kind) = H[n + m]
  BY <1>1, SumSteps
<1>5. F[n] = H[n]
  BY <1>1, <1>2, <1>4, CountsUnique
<1>6. F[n] \in Nat
  BY <1>1, <1>2, SumType
<1> HIDE DEF n, m
<1> DEFINE T == {i \in 0 .. m : H[n + i] = F[n] + G[i]}
<1>7. 0 \in T
  BY <1>1, <1>3, <1>5, <1>6 DEF Counts
<1>8. ASSUME NEW i \in 0 .. m - 1, i \in T
      PROVE  i + 1 \in T
  <2> DEFINE j == i + 1
             k == n + j
  <2>1. j \in 1 .. m /\ j - 1 = i /\ j \in 0 .. m /\ i \in 0 .. m
    BY <1>1
  <2>2. k \in 1 .. n + m /\ k - 1 = n + i
    BY <1>1
  <2> HIDE DEF j, k
  <2>3. G[j] = G[i] + Amount(b[j], kind) /\ G[i] \in Nat
    BY <1>3, <2>1 DEF Counts, m
  <2>4. H[k] = H[n + i] + Amount(all[k], kind)
    BY <1>1, <1>4, <2>2 DEF Counts
  <2>5. all[k] = b[j]
    BY <1>1, <2>1 DEF k
  <2>6. Amount(b[j], kind) \in Nat
    BY <1>1, <2>1, AmountType
  <2>7. H[n + j] = F[n] + G[j]
    BY <1>6, <1>8, <2>3, <2>4, <2>5, <2>6 DEF k
  <2>8. j \in T
    BY <2>1, <2>7
  <2> QED BY <2>8 DEF j
<1>9. 0 .. m \subseteq T
  <2> HIDE DEF T
  <2> QED BY <1>1, <1>7, <1>8, UpTo
<1>10. m \in T
  <2> HIDE DEF T
  <2> QED BY <1>1, <1>9
<1> QED BY <1>2, <1>3, <1>4, <1>10 DEF all

\* A list of one operation.
LEMMA SumOne ==
  ASSUME NEW op \in OpSet, NEW kind
  PROVE  <<op>> \in Ops /\ Sum(<<op>>, kind) = Amount(op, kind)
<1>1. Append(<<>>, op) = <<op>>
  OBVIOUS
<1>2. Sum(<<>>, kind) = 0 /\ <<>> \in Ops /\ Amount(op, kind) \in Nat
  BY SumNone, OpsBasics, AmountType
<1>3. Append(<<>>, op) \in Ops /\ Sum(Append(<<>>, op), kind) = Sum(<<>>, kind) + Amount(op, kind)
  BY <1>2, SumAppend
<1> QED BY <1>1, <1>2, <1>3

\* F counts the characters of the first 0, 1, ... lists.
Adds(F, lists, kind) ==
  /\ F \in [0 .. Len(lists) -> Nat] /\ F[0] = 0
  /\ \A i \in 1 .. Len(lists) : F[i] = F[i - 1] + Sum(lists[i], kind)

\* The characters of the lists joined one after the other.
LEMMA SumFlatten ==
  ASSUME NEW lists \in Seq(Ops), NEW kind
  PROVE  /\ FlattenSeq(lists) \in Ops
         /\ \E F : Adds(F, lists, kind) /\ Sum(FlattenSeq(lists), kind) = F[Len(lists)]
<1> DEFINE n == Len(lists)
<1>1. n \in Nat /\ \A i \in 1 .. n : lists[i] \in Ops
  OBVIOUS
<1>2. PICK J \in [0 .. n -> Ops] : /\ J[0] = <<>> /\ \A i \in 1 .. n : J[i] = J[i - 1] \o lists[i]
                                  /\ FlattenSeq(lists) = J[n]
  BY Flattened DEF Ops
<1> HIDE DEF n
<1> DEFINE F == [i \in 0 .. n |-> Sum(J[i], kind)]
<1>3. F \in [0 .. n -> Nat]
  BY SumType
<1>4. F[0] = 0
  BY <1>1, <1>2, SumNone
<1>5. \A i \in 1 .. n : F[i] = F[i - 1] + Sum(lists[i], kind)
  <2> TAKE i \in 1 .. n
  <2>1. i \in 0 .. n /\ i - 1 \in 0 .. n
    BY <1>1
  <2>2. Sum(J[i], kind) = Sum(J[i - 1], kind) + Sum(lists[i], kind)
    BY <1>1, <1>2, <2>1, SumConcat
  <2> QED BY <2>1, <2>2
<1>6. FlattenSeq(lists) \in Ops /\ Sum(FlattenSeq(lists), kind) = F[n]
  BY <1>1, <1>2
<1> HIDE DEF F
<1> QED BY <1>3, <1>4, <1>5, <1>6 DEF n, Adds

----------------------------------------------------------------------------
(* JS::collapse: runs of operations of one kind, and what is left of each. *)

\* s is where the run of operation i starts.
Starts(ops, i, s) ==
  /\ \A j \in s .. i : ops[j].kind = ops[i].kind
  /\ s = 1 \/ ops[s - 1].kind # ops[i].kind

\* Every operation is in a run, and RunStart finds where it starts.
LEMMA RunFound ==
  ASSUME NEW ops \in Ops, NEW i \in 1 .. Len(ops)
  PROVE  RunStart(ops, i) \in 1 .. i /\ Starts(ops, i, RunStart(ops, i))
<1> DEFINE T == {s \in Nat : s \in 1 .. i /\ \A j \in s .. i : ops[j].kind = ops[i].kind}
<1>1. Len(ops) \in Nat /\ i \in Nat
  BY OpsBasics
<1>2. i \in T
  BY <1>1
<1>3. PICK s \in T : \A y \in T : s <= y
  <2>1. T \subseteq Nat
    OBVIOUS
  <2> HIDE DEF T
  <2> QED BY <1>2, <2>1, LeastMember
<1>4. s \in 1 .. i /\ \A j \in s .. i : ops[j].kind = ops[i].kind
  BY <1>3
<1>5. ASSUME s # 1, ops[s - 1].kind = ops[i].kind
      PROVE  FALSE
  <2>1. s - 1 \in T
    <3>1. s - 1 \in 1 .. i /\ \A j \in s - 1 .. i : j = s - 1 \/ j \in s .. i
      BY <1>1, <1>4, <1>5
    <3> QED BY <1>4, <1>5, <3>1
  <2> QED BY <1>3, <1>4, <2>1
<1>6. s \in 1 .. i /\ Starts(ops, i, s)
  BY <1>4, <1>5 DEF Starts
<1>7. RunStart(ops, i) = CHOOSE x \in 1 .. i : Starts(ops, i, x)
  BY DEF RunStart, Starts
<1> QED BY <1>6, <1>7

\* There is only one such place.
LEMMA RunUnique ==
  ASSUME NEW ops \in Ops, NEW i \in 1 .. Len(ops), NEW s \in 1 .. i, Starts(ops, i, s)
  PROVE  RunStart(ops, i) = s
<1> DEFINE r == RunStart(ops, i)
<1>1. r \in 1 .. i /\ Starts(ops, i, r)
  BY RunFound
<1> HIDE DEF r
<1>2. i \in Nat
  BY OpsBasics
<1>3. ~(r < s)
  <2> SUFFICES ASSUME r < s PROVE FALSE
    OBVIOUS
  <2>1. s - 1 \in r .. i /\ s # 1
    BY <1>1, <1>2
  <2> QED BY <1>1, <2>1 DEF Starts
<1>4. ~(s < r)
  <2> SUFFICES ASSUME s < r PROVE FALSE
    OBVIOUS
  <2>1. r - 1 \in s .. i /\ r # 1
    BY <1>1, <1>2
  <2> QED BY <1>1, <2>1 DEF Starts
<1>5. r = s
  BY <1>1, <1>2, <1>3, <1>4
<1> QED BY <1>5 DEF r

\* Behind the first of a couple comes its second, and nothing else does.
LEMMA SecondBehindFirst ==
  ASSUME NEW ops \in Ops
  PROVE  /\ Len(ops) # 0 => ~Second(ops, 1)
         /\ \A i \in 1 .. Len(ops) - 1 : Second(ops, i + 1) <=> Couple(ops, i)
<1>1. Len(ops) \in Nat
  BY OpsBasics
<1>2. ASSUME Len(ops) # 0
      PROVE  ~Second(ops, 1)
  <2>1. 1 \in 1 .. Len(ops)
    BY <1>1, <1>2
  <2>2. RunStart(ops, 1) \in 1 .. 1
    BY <2>1, RunFound
  <2> QED BY <2>2 DEF Second
<1>3. ASSUME NEW i \in 1 .. Len(ops) - 1
      PROVE  Second(ops, i + 1) <=> Couple(ops, i)
  <2> DEFINE k == i + 1
             s == RunStart(ops, i)
  <2>1. i \in 1 .. Len(ops) /\ i < Len(ops) /\ k \in 1 .. Len(ops) /\ i \in Nat /\ k = i + 1 /\ k \in Nat
    BY <1>1
  <2>2. s \in 1 .. i /\ Starts(ops, i, s)
    BY <2>1, RunFound
  <2> HIDE DEF k, s
  <2>3. CASE ops[i].kind = ops[k].kind
    <3>1. s \in 1 .. k /\ \A j \in s .. k : j = k \/ j \in s .. i
      BY <2>1, <2>2
    <3>2. Starts(ops, k, s)
      BY <2>2, <2>3, <3>1 DEF Starts
    <3>3. RunStart(ops, k) = s
      BY <2>1, <3>1, <3>2, RunUnique
    <3>4. (k - s) % 2 = 1 <=> ~((i - s) % 2 = 1)
      BY <2>1, <2>2
    <3>5. Second(ops, k) <=> ~Second(ops, i)
      BY <3>3, <3>4 DEF Second, s
    <3> QED BY <2>1, <2>3, <3>5 DEF Couple, k
  <2>4. CASE ops[i].kind # ops[k].kind
    <3>1. k \in 1 .. k /\ (\A j \in k .. k : j = k) /\ k - 1 = i
      BY <2>1
    <3>2. Starts(ops, k, k)
      BY <2>4, <3>1 DEF Starts
    <3>3. RunStart(ops, k) = k
      BY <2>1, <3>1, <3>2, RunUnique
    <3>4. ~Second(ops, k)
      BY <2>1, <3>3 DEF Second
    <3> QED BY <2>4, <3>4 DEF Couple, k
  <2> QED BY <2>3, <2>4
<1> QED BY <1>2, <1>3

\* JS::collapse's merge keeps the kind and adds the lengths.
LEMMA MergeType ==
  ASSUME NEW op \in OpSet, NEW next \in OpSet
  PROVE  /\ Merge(op, next) \in OpSet
         /\ Merge(op, next).kind = op.kind
         /\ Merge(op, next).opLength = op.opLength + next.opLength
<1>1. LinesBehind(next) \in Int
  BY DEF LinesBehind, OpSet
<1> DEFINE l == op.opLength + next.opLength
           m == op.newlines + LinesBehind(next)
<1>2. l \in Nat /\ m \in Int
  BY <1>1 DEF OpSet
<1>3. Merge(op, next) = [op EXCEPT !.opLength = l, !.newlines = m]
  BY DEF Merge
<1> HIDE DEF l, m
<1>4. [op EXCEPT !.opLength = l, !.newlines = m] \in OpSet
  BY <1>2 DEF OpSet
<1>5. /\ [op EXCEPT !.opLength = l, !.newlines = m].kind = op.kind
      /\ [op EXCEPT !.opLength = l, !.newlines = m].opLength = l
  BY DEF OpSet
<1> QED BY <1>3, <1>4, <1>5 DEF l

\* What is left of an operation: nothing of a second one or a trailing '=',
\* the merged operation of a couple, itself otherwise.
LEMMA PieceFacts ==
  ASSUME NEW ops \in Ops, NEW i \in 1 .. Len(ops)
  PROVE  /\ Piece(ops, i) \in Ops
         /\ Second(ops, i) => Piece(ops, i) = <<>>
         /\ Couple(ops, i) => Piece(ops, i) = <<Merge(ops[i], ops[i + 1])>>
         /\ i = Len(ops) /\ ops[i].kind = KeepChars => Piece(ops, i) = <<>>
         /\ ~Second(ops, i) /\ ~Couple(ops, i) =>
              \/ i = Len(ops) /\ ops[i].kind = KeepChars
              \/ Piece(ops, i) = <<ops[i]>>
<1>1. Len(ops) \in Nat /\ ops[i] \in OpSet /\ (i < Len(ops) => ops[i + 1] \in OpSet)
  BY DEF Ops
<1>2. CASE Second(ops, i)
  <2>1. Piece(ops, i) = <<>>
    BY <1>2 DEF Piece
  <2> QED BY <1>2, <2>1, OpsBasics DEF Couple
<1>3. CASE Couple(ops, i)
  <2>1. Piece(ops, i) = <<Merge(ops[i], ops[i + 1])>> /\ ~Second(ops, i)
    BY <1>1, <1>3 DEF Piece, Couple
  <2>2. Merge(ops[i], ops[i + 1]) \in OpSet /\ i < Len(ops)
    BY <1>1, <1>3, MergeType DEF Couple
  <2>3. Piece(ops, i) \in Ops
    BY <2>1, <2>2, SumOne
  <2> QED BY <1>1, <1>3, <2>1, <2>2, <2>3
<1>4. CASE ~Second(ops, i) /\ ~Couple(ops, i) /\ i = Len(ops) /\ ops[i].kind = KeepChars
  <2>1. Piece(ops, i) = <<>>
    BY <1>4 DEF Piece
  <2> QED BY <1>4, <2>1, OpsBasics
<1>5. CASE ~Second(ops, i) /\ ~Couple(ops, i) /\ ~(i = Len(ops) /\ ops[i].kind = KeepChars)
  <2>1. Piece(ops, i) = <<ops[i]>>
    BY <1>5 DEF Piece
  <2> QED BY <1>1, <1>5, <2>1, SumOne
<1> QED BY <1>2, <1>3, <1>4, <1>5

\* Collapsing, over positions.
LEMMA CollapsePieces ==
  ASSUME NEW ops \in Ops
  PROVE  CollapseOps(ops) = FlattenSeq([i \in 1 .. Len(ops) |-> Piece(ops, i)])
<1>1. DOMAIN ops = 1 .. Len(ops)
  BY DEF Ops
<1> QED BY <1>1, Zenon DEF CollapseOps

\* Merging adds the lengths up, and only a '=' is dropped.
LEMMA CollapseSums ==
  ASSUME NEW ops \in Ops, NEW kind
  PROVE  /\ CollapseOps(ops) \in Ops
         /\ Sum(CollapseOps(ops), kind) <= Sum(ops, kind)
         /\ kind # KeepChars => Sum(CollapseOps(ops), kind) = Sum(ops, kind)
<1> DEFINE n == Len(ops)
           pieces == [i \in 1 .. n |-> Piece(ops, i)]
           At(i) == IF i # 0 /\ Couple(ops, i) THEN i + 1 ELSE i
           Less(x, y) == x <= y /\ (kind # KeepChars => x = y)
<1>1. n \in Nat /\ \A i \in 1 .. n : ops[i] \in OpSet
  BY DEF Ops
<1>2. pieces \in Seq(Ops) /\ Len(pieces) = n
  <2>1. \A i \in 1 .. n : Piece(ops, i) \in Ops
    BY PieceFacts
  <2> QED BY <1>1, <2>1
<1>3. \A i \in 1 .. n : pieces[i] = Piece(ops, i)
  OBVIOUS
<1>4. CollapseOps(ops) = FlattenSeq(pieces)
  BY CollapsePieces
<1> HIDE DEF pieces
<1>5. PICK G : Adds(G, pieces, kind) /\ Sum(FlattenSeq(pieces), kind) = G[n]
  BY <1>2, SumFlatten
<1>6. /\ G \in [0 .. n -> Nat] /\ G[0] = 0
      /\ \A i \in 1 .. n : G[i] = G[i - 1] + Sum(pieces[i], kind)
  BY <1>2, <1>5 DEF Adds
<1>7. CollapseOps(ops) \in Ops /\ Sum(CollapseOps(ops), kind) = G[n]
  BY <1>2, <1>4, <1>5, SumFlatten
<1>8. PICK F : Counts(F, ops, kind) /\ Sum(ops, kind) = F[n]
  BY SumSteps
<1>9. /\ F \in [0 .. n -> Nat] /\ F[0] = 0
      /\ \A i \in 1 .. n : F[i] = F[i - 1] + Amount(ops[i], kind)
  BY <1>8 DEF Counts
<1> HIDE DEF n
<1> DEFINE T == {i \in 0 .. n : Less(G[i], F[At(i)])}
<1>10. 0 \in T
  BY <1>1, <1>6, <1>9
<1>11. ASSUME NEW i \in 0 .. n - 1, i \in T
      PROVE  i + 1 \in T
  <2> DEFINE j == i + 1
  <2>1. /\ j \in 1 .. n /\ j - 1 = i /\ j \in 0 .. n /\ j # 0 /\ i \in 0 .. n /\ ops[j] \in OpSet
        /\ i # 0 => i \in 1 .. n - 1
    BY <1>1
  <2>2. Second(ops, j) <=> i # 0 /\ Couple(ops, i)
    <3>1. CASE i = 0
      <4>1. j = 1 /\ Len(ops) # 0
        BY <1>1, <3>1 DEF n
      <4> QED BY <3>1, <4>1, SecondBehindFirst
    <3>2. CASE i # 0
      <4>1. i \in 1 .. Len(ops) - 1
        BY <2>1, <3>2 DEF n
      <4> QED BY <3>2, <4>1, SecondBehindFirst
    <3> QED BY <3>1, <3>2
  <2> HIDE DEF j
  <2>3. G[j] = G[i] + Sum(Piece(ops, j), kind) /\ F[j] = F[i] + Amount(ops[j], kind)
    BY <1>6, <1>3, <1>9, <2>1
  <2>4. G[i] \in Nat /\ G[j] \in Nat /\ F[i] \in Nat /\ F[j] \in Nat
    BY <1>6, <1>9, <2>1
  <2>5. j \in 1 .. Len(ops)
    BY <2>1 DEF n
  <2>6. CASE Second(ops, j)
    <3>1. At(i) = j
      BY <2>1, <2>2, <2>6 DEF j
    <3>2. At(j) = j
      BY <2>6 DEF Couple
    <3>3. Sum(Piece(ops, j), kind) = 0
      BY <2>5, <2>6, PieceFacts, SumNone
    <3>4. Less(G[i], F[At(i)])
      BY <1>11
    <3>5. Less(G[j], F[At(j)])
      BY <2>3, <2>4, <3>1, <3>2, <3>3, <3>4
    <3> QED BY <2>1, <3>5
  <2>7. CASE Couple(ops, j)
    <3>1. j + 1 \in 1 .. n /\ (j + 1) - 1 = j /\ ops[j + 1] \in OpSet
      BY <1>1, <2>1, <2>7 DEF Couple, n
    <3>2. ~Second(ops, j) /\ ops[j].kind = ops[j + 1].kind
      BY <2>7 DEF Couple
    <3>3. At(i) = i
      BY <2>2, <3>2
    <3>4. At(j) = j + 1
      BY <2>1, <2>7
    <3>5. Merge(ops[j], ops[j + 1]) \in OpSet /\ Piece(ops, j) = <<Merge(ops[j], ops[j + 1])>>
      BY <2>1, <2>5, <2>7, <3>1, MergeType, PieceFacts
    <3>6. Sum(Piece(ops, j), kind) = Amount(Merge(ops[j], ops[j + 1]), kind)
      BY <3>5, SumOne
    <3>7. Amount(Merge(ops[j], ops[j + 1]), kind) = Amount(ops[j], kind) + Amount(ops[j + 1], kind)
      BY <2>1, <3>1, <3>2, MergeType DEF Amount
    <3>8. F[j + 1] = F[j] + Amount(ops[j + 1], kind)
      BY <1>9, <3>1
    <3>9. Amount(ops[j], kind) \in Nat /\ Amount(ops[j + 1], kind) \in Nat
      BY <2>1, <3>1, AmountType
    <3>10. Less(G[i], F[At(i)])
      BY <1>11
    <3>11. Less(G[j], F[At(j)])
      BY <2>3, <2>4, <3>3, <3>4, <3>6, <3>7, <3>8, <3>9, <3>10
    <3> QED BY <2>1, <3>11
  <2>8. CASE ~Second(ops, j) /\ ~Couple(ops, j)
    <3>1. At(i) = i /\ At(j) = j
      BY <2>2, <2>8
    <3>2. Less(Sum(Piece(ops, j), kind), Amount(ops[j], kind)) /\ Sum(Piece(ops, j), kind) \in Nat
      <4>1. Amount(ops[j], kind) \in Nat
        BY <2>1, AmountType
      <4>2. CASE j = Len(ops) /\ ops[j].kind = KeepChars
        BY <2>5, <4>1, <4>2, PieceFacts, SumNone DEF Amount
      <4>3. CASE Piece(ops, j) = <<ops[j]>>
        BY <2>1, <4>1, <4>3, SumOne
      <4> QED BY <2>5, <2>8, <4>2, <4>3, PieceFacts
    <3>3. Less(G[i], F[At(i)])
      BY <1>11
    <3>4. Less(G[j], F[At(j)])
      <4>1. Amount(ops[j], kind) \in Nat
        BY <2>1, AmountType
      <4> QED BY <2>3, <2>4, <3>1, <3>2, <3>3, <4>1
    <3> QED BY <2>1, <3>4
  <2> QED BY <2>6, <2>7, <2>8
<1>12. 0 .. n \subseteq T
  <2> HIDE DEF T
  <2> QED BY <1>1, <1>10, <1>11, UpTo
<1>13. Less(G[n], F[At(n)])
  <2>1. n \in T
    <3> HIDE DEF T
    <3> QED BY <1>1, <1>12
  <2> QED BY <2>1
<1>14. At(n) = n
  BY <1>1 DEF Couple, n
<1> QED BY <1>7, <1>8, <1>13, <1>14

\* Nothing to merge, nothing to drop.
Compact(ops) ==
  /\ \A i \in 1 .. Len(ops) - 1 : ops[i].kind # ops[i + 1].kind
  /\ ops # <<>> => ops[Len(ops)].kind # KeepChars

\* J holds the first 0, 1, ... lists joined.
Joins(J, lists) ==
  /\ J \in [0 .. Len(lists) -> Ops] /\ J[0] = <<>>
  /\ \A i \in 1 .. Len(lists) : J[i] = J[i - 1] \o lists[i]

\* FlattenSeq joins lists of operations one after the other.
LEMMA Joined ==
  ASSUME NEW lists \in Seq(Ops)
  PROVE  \E J : Joins(J, lists) /\ FlattenSeq(lists) = J[Len(lists)]
<1>1. PICK J \in [0 .. Len(lists) -> Ops] :
        /\ J[0] = <<>> /\ \A i \in 1 .. Len(lists) : J[i] = J[i - 1] \o lists[i]
        /\ FlattenSeq(lists) = J[Len(lists)]
  BY Flattened DEF Ops
<1> QED BY <1>1 DEF Joins

\* The pieces of the first m operations are as many operations, only if each
\* piece is one.
LEMMA CollapseShorter ==
  ASSUME NEW ops \in Ops
  PROVE  /\ Len(CollapseOps(ops)) <= Len(ops)
         /\ Len(CollapseOps(ops)) = Len(ops) => Compact(ops) /\ CollapseOps(ops) = ops
<1> DEFINE n == Len(ops)
           pieces == [i \in 1 .. n |-> Piece(ops, i)]
           Single(i) == Piece(ops, i) # <<>>
<1>1. n \in Nat /\ (\A i \in 1 .. n : ops[i] \in OpSet) /\ (n = 0 => ops = <<>>)
  BY DEF Ops
<1>2. pieces \in Seq(Ops) /\ Len(pieces) = n
  <2>1. \A i \in 1 .. n : Piece(ops, i) \in Ops
    BY PieceFacts
  <2> QED BY <1>1, <2>1
<1>3. CollapseOps(ops) = FlattenSeq(pieces) /\ \A i \in 1 .. n : pieces[i] = Piece(ops, i)
  BY CollapsePieces
<1> HIDE DEF pieces
<1>4. PICK J : Joins(J, pieces) /\ FlattenSeq(pieces) = J[n]
  BY <1>2, Joined
<1>5. /\ J \in [0 .. n -> Ops] /\ J[0] = <<>> /\ FlattenSeq(pieces) = J[n]
      /\ \A i \in 1 .. n : J[i] = J[i - 1] \o pieces[i]
  BY <1>2, <1>4 DEF Joins
<1>6. ASSUME NEW i \in 1 .. n
      PROVE  Len(Piece(ops, i)) \in {0, 1} /\ (Len(Piece(ops, i)) = 0 <=> ~Single(i))
  <2>1. CASE Piece(ops, i) = <<>>
    BY <2>1
  <2>2. CASE Couple(ops, i)
    BY <1>1, <2>2, PieceFacts
  <2>3. CASE Piece(ops, i) = <<ops[i]>>
    BY <2>3
  <2>4. i \in 1 .. Len(ops)
    OBVIOUS
  <2> QED BY <2>1, <2>2, <2>3, <2>4, PieceFacts
<1> HIDE DEF n, Single
<1> DEFINE T == {m \in 0 .. n : /\ Len(J[m]) \in 0 .. m
                                /\ Len(J[m]) = m => \A i \in 1 .. m : Single(i)}
<1>7. 0 \in T
  BY <1>1, <1>5
<1>8. ASSUME NEW m \in 0 .. n - 1, m \in T
      PROVE  m + 1 \in T
  <2> DEFINE j == m + 1
  <2>1. j \in 1 .. n /\ j - 1 = m /\ j \in 0 .. n /\ m \in 0 .. n /\ j = m + 1 /\ m \in Nat
    BY <1>1
  <2>2. \A i \in 1 .. j : i = j \/ i \in 1 .. m
    BY <1>1
  <2> HIDE DEF j
  <2>3. J[j] = J[m] \o Piece(ops, j)
    BY <1>3, <1>5, <2>1
  <2>4. J[m] \in Ops /\ Piece(ops, j) \in Ops
    BY <1>5, <2>1, PieceFacts DEF n
  <2>5. Len(J[j]) = Len(J[m]) + Len(Piece(ops, j))
    BY <2>3, <2>4 DEF Ops
  <2>6. Len(J[m]) \in 0 .. m /\ (Len(J[m]) = m => \A i \in 1 .. m : Single(i))
    BY <1>8
  <2>7. Len(Piece(ops, j)) \in {0, 1} /\ (Len(Piece(ops, j)) = 0 <=> ~Single(j))
    BY <1>6, <2>1
  <2> DEFINE x == Len(J[m])
             y == Len(Piece(ops, j))
             z == Len(J[j])
  <2>8. x \in 0 .. m /\ y \in {0, 1} /\ z = x + y /\ m \in Nat /\ j = m + 1
    BY <2>1, <2>5, <2>6, <2>7
  <2> HIDE DEF x, y, z
  <2>9. z \in 0 .. j /\ (z = j => x = m /\ y = 1)
    BY <2>8
  <2>10. y = 1 => Single(j)
    <3>1. y = 0 <=> ~Single(j)
      BY <2>7 DEF y
    <3> QED BY <3>1
  <2>11. Len(J[j]) = j => Len(J[m]) = m /\ Single(j)
    <3>1. z = j => x = m /\ Single(j)
      BY <2>9, <2>10
    <3> QED BY <3>1 DEF x, z
  <2>12. j \in T
    BY <2>1, <2>2, <2>6, <2>9, <2>11 DEF z
  <2> QED BY <2>12 DEF j
<1>9. 0 .. n \subseteq T
  <2> HIDE DEF T
  <2> QED BY <1>1, <1>7, <1>8, UpTo
<1>10. Len(J[n]) \in 0 .. n /\ (Len(J[n]) = n => \A i \in 1 .. n : Single(i))
  BY <1>1, <1>9
<1>11. ASSUME \A i \in 1 .. n : Single(i)
       PROVE  Compact(ops) /\ J[n] = ops
  <2>1. \A i \in 1 .. n : ~Second(ops, i)
    BY <1>11, PieceFacts DEF Single, n
  <2>2. \A i \in 1 .. n : ~Couple(ops, i)
    <3> TAKE i \in 1 .. n
    <3>1. CASE i < n
      <4>1. i \in 1 .. Len(ops) - 1 /\ i + 1 \in 1 .. n
        BY <1>1, <3>1 DEF n
      <4> QED BY <2>1, <4>1, SecondBehindFirst
    <3>2. CASE ~(i < n)
      BY <3>2 DEF Couple, n
    <3> QED BY <3>1, <3>2
  <2>3. \A i \in 1 .. n : Piece(ops, i) = <<ops[i]>>
    BY <1>11, <2>1, <2>2, PieceFacts DEF Single, n
  <2>4. Compact(ops)
    <3>1. \A i \in 1 .. Len(ops) - 1 : ops[i].kind # ops[i + 1].kind
      BY <1>1, <2>1, <2>2 DEF Couple, n
    <3>2. ASSUME ops # <<>>
          PROVE  ops[Len(ops)].kind # KeepChars
      <4>1. Len(ops) \in 1 .. n
        BY <1>1, <3>2 DEF n
      <4>2. Piece(ops, Len(ops)) # <<>>
        BY <1>11, <4>1 DEF Single
      <4> QED BY <4>1, <4>2, PieceFacts
    <3> QED BY <3>1, <3>2 DEF Compact
  <2> DEFINE R == {m \in 0 .. n : Len(J[m]) = m /\ \A i \in 1 .. m : J[m][i] = ops[i]}
  <2>5. 0 \in R
    BY <1>1, <1>5
  <2>6. ASSUME NEW m \in 0 .. n - 1, m \in R
        PROVE  m + 1 \in R
    <3> DEFINE j == m + 1
    <3>1. j \in 1 .. n /\ j - 1 = m /\ j \in 0 .. n /\ m \in 0 .. n /\ j = m + 1 /\ m \in Nat
      BY <1>1
    <3>2. \A i \in 1 .. j : i = j \/ i \in 1 .. m
      BY <1>1
    <3> HIDE DEF j
    <3>3. J[j] = J[m] \o <<ops[j]>> /\ J[m] \in Seq(OpSet) /\ ops[j] \in OpSet
      BY <1>1, <1>3, <1>5, <2>3, <3>1 DEF Ops
    <3>4. Len(J[m]) = m /\ \A i \in 1 .. m : J[m][i] = ops[i]
      BY <2>6
    <3>5. Len(J[j]) = j /\ J[j][j] = ops[j] /\ \A i \in 1 .. m : J[j][i] = J[m][i]
      <4> DEFINE p == J[m]
                 q == ops[j]
      <4>1. p \in Seq(OpSet) /\ q \in OpSet /\ Len(p) = m /\ J[j] = p \o <<q>> /\ m \in Nat
        BY <3>1, <3>3, <3>4
      <4> HIDE DEF p, q
      <4>2. Len(p \o <<q>>) = m + 1 /\ (p \o <<q>>)[m + 1] = q /\ \A i \in 1 .. m : (p \o <<q>>)[i] = p[i]
        BY <4>1
      <4> QED BY <3>1, <4>1, <4>2 DEF p, q
    <3>6. j \in R
      BY <3>1, <3>2, <3>4, <3>5
    <3> QED BY <3>6 DEF j
  <2>7. 0 .. n \subseteq R
    <3> HIDE DEF R
    <3> QED BY <1>1, <2>5, <2>6, UpTo
  <2>8. Len(J[n]) = n /\ \A i \in 1 .. n : J[n][i] = ops[i]
    BY <1>1, <2>7
  <2>9. J[n] \in Seq(OpSet) /\ ops \in Seq(OpSet) /\ Len(ops) = n
    BY <1>1, <1>5 DEF Ops, n
  <2>10. J[n] = ops
    BY <2>8, <2>9, SeqEqual
  <2> QED BY <2>4, <2>10
<1> QED BY <1>1, <1>3, <1>5, <1>10, <1>11 DEF n

----------------------------------------------------------------------------
(* Qt's left, mid and count, and the common ends of two texts.             *)

\* Qt's left and mid.
LEMMA LeftFacts ==
  ASSUME NEW S, NEW s \in Seq(S), NEW n \in Nat
  PROVE  /\ Left(s, n) \in Seq(S)
         /\ Len(Left(s, n)) = IF n < Len(s) THEN n ELSE Len(s)
         /\ \A i \in 1 .. Len(Left(s, n)) : Left(s, n)[i] = s[i]
BY DEF Left

\* Qt's mid.
LEMMA MidFacts ==
  ASSUME NEW S, NEW s \in Seq(S), NEW n \in Nat
  PROVE  /\ Mid(s, n) \in Seq(S)
         /\ Len(Mid(s, n)) = IF n < Len(s) THEN Len(s) - n ELSE 0
         /\ \A i \in 1 .. Len(Mid(s, n)) : Mid(s, n)[i] = s[n + i]
BY DEF Mid

\* mid(0) is the text.
LEMMA MidNone ==
  ASSUME NEW S, NEW s \in Seq(S)
  PROVE  Mid(s, 0) = s
BY DEF Mid

\* mid of mid.
LEMMA MidMid ==
  ASSUME NEW S, NEW s \in Seq(S), NEW m \in Nat, NEW n \in Nat
  PROVE  Mid(Mid(s, m), n) = Mid(s, m + n)
<1> DEFINE u == Mid(s, m)
           a == Mid(u, n)
           b == Mid(s, m + n)
<1>1. /\ u \in Seq(S)
      /\ Len(u) = IF m < Len(s) THEN Len(s) - m ELSE 0
      /\ \A i \in 1 .. Len(u) : u[i] = s[m + i]
  BY MidFacts
<1> HIDE DEF u
<1>2. /\ a \in Seq(S)
      /\ Len(a) = IF n < Len(u) THEN Len(u) - n ELSE 0
      /\ \A i \in 1 .. Len(a) : a[i] = u[n + i]
  BY <1>1, MidFacts
<1>3. /\ b \in Seq(S)
      /\ Len(b) = IF m + n < Len(s) THEN Len(s) - (m + n) ELSE 0
      /\ \A i \in 1 .. Len(b) : b[i] = s[(m + n) + i]
  BY MidFacts
<1> HIDE DEF a, b
<1>4. Len(a) = Len(b) /\ Len(s) \in Nat
  BY <1>1, <1>2, <1>3
<1>5. \A i \in 1 .. Len(a) : a[i] = b[i]
  <2> TAKE i \in 1 .. Len(a)
  <2>1. n + i \in 1 .. Len(u) /\ m + (n + i) = (m + n) + i
    BY <1>1, <1>2
  <2> QED BY <1>1, <1>2, <1>3, <1>4, <2>1
<1> QED BY <1>2, <1>3, <1>4, <1>5, SeqEqual DEF a, b, u

\* left and mid at one position split a text.
LEMMA LeftMid ==
  ASSUME NEW S, NEW s \in Seq(S), NEW n \in Nat
  PROVE  Left(s, n) \o Mid(s, n) = s
<1> DEFINE a == Left(s, n)
           b == Mid(s, n)
           u == a \o b
<1>1. /\ a \in Seq(S) /\ Len(a) = (IF n < Len(s) THEN n ELSE Len(s)) /\ \A i \in 1 .. Len(a) : a[i] = s[i]
      /\ Len(s) \in Nat
  BY LeftFacts
<1>2. /\ b \in Seq(S) /\ Len(b) = (IF n < Len(s) THEN Len(s) - n ELSE 0)
      /\ \A i \in 1 .. Len(b) : b[i] = s[n + i]
  BY MidFacts
<1> HIDE DEF a, b
<1>3. /\ u \in Seq(S) /\ Len(u) = Len(a) + Len(b) /\ \A i \in 1 .. Len(a) : u[i] = a[i]
      /\ \A i \in 1 .. Len(b) : u[Len(a) + i] = b[i]
  BY <1>1, <1>2
<1> HIDE DEF u
<1>4. Len(u) = Len(s)
  BY <1>1, <1>2, <1>3
<1>5. \A i \in 1 .. Len(u) : u[i] = s[i]
  <2> TAKE i \in 1 .. Len(u)
  <2>1. CASE i \in 1 .. Len(a)
    BY <1>1, <1>3, <2>1
  <2>2. CASE i \notin 1 .. Len(a)
    <3>1. i - Len(a) \in 1 .. Len(b) /\ i = Len(a) + (i - Len(a)) /\ Len(a) = n
      BY <1>1, <1>2, <1>3, <2>2
    <3> QED BY <1>2, <1>3, <3>1
  <2> QED BY <2>1, <2>2
<1>6. u = s
  BY <1>3, <1>4, <1>5, SeqEqual
<1> QED BY <1>6 DEF u, a, b

\* The second inner loop of JS::optimize finds the longest beginning the two
\* texts have in common.
LEMMA CommonPrefixFound ==
  ASSUME NEW C, NEW t \in Seq(C), NEW p \in Seq(C)
  PROVE  LET k == CommonPrefix(t, p)
         IN  /\ k \in 0 .. Len(t)
             /\ k <= Len(p)
             /\ \A m \in 1 .. k : t[m] = p[m]
             /\ k = Len(t) \/ k = Len(p) \/ t[k + 1] # p[k + 1]
<1> DEFINE Stop(k) == k = Len(t) \/ k = Len(p) \/ t[k + 1] # p[k + 1]
           Stops   == {k \in Nat : k <= Len(t) /\ k <= Len(p) /\ Stop(k)}
<1>1. Stops \subseteq Nat /\ Stops # {}
  <2>1. Len(t) \in Nat /\ Len(p) \in Nat
    OBVIOUS
  <2>2. CASE Len(t) <= Len(p)
    <3>1. Len(t) \in Stops
      BY <2>1, <2>2
    <3> QED BY <3>1
  <2>3. CASE Len(p) < Len(t)
    <3>1. Len(p) \in Stops
      BY <2>1, <2>3
    <3> QED BY <3>1
  <2> QED BY <2>1, <2>2, <2>3
<1>2. PICK k \in Stops : \A j \in Stops : k <= j
  <2> HIDE DEF Stops
  <2> QED BY <1>1, LeastMember
<1>3. \A m \in 1 .. k : t[m] = p[m]
  <2> SUFFICES ASSUME NEW m \in 1 .. k, t[m] # p[m] PROVE FALSE
    OBVIOUS
  <2>1. m - 1 \in Stops
    BY <1>2
  <2> QED BY <1>2, <2>1
<1>4. /\ k \in 0 .. Len(t)
      /\ k <= Len(p)
      /\ \A m \in 1 .. k : t[m] = p[m]
      /\ k = Len(t) \/ k = Len(p) \/ t[k + 1] # p[k + 1]
  BY <1>2, <1>3
<1> QED
  BY <1>4 DEF CommonPrefix

\* The first inner loop finds an end the two texts have in common, shorter
\* than the inserted one unless that is empty.
LEMMA CommonSuffixFound ==
  ASSUME NEW C, NEW t \in Seq(C), NEW p \in Seq(C)
  PROVE  LET k == CommonSuffix(t, p)
         IN  /\ k \in 0 .. Len(t)
             /\ k = 0 \/ k < Len(p)
             /\ \A m \in 0 .. k - 1 : t[Len(t) - m] = p[Len(p) - m]
<1> DEFINE Stop(k) == \/ k = Len(t)
                      \/ k + 1 >= Len(p)
                      \/ t[Len(t) - k] # p[Len(p) - k]
           Stops   == {k \in Nat : k <= Len(t) /\ Stop(k)}
<1>1. Stops \subseteq Nat /\ Stops # {}
  <2>1. Len(t) \in Stops
    OBVIOUS
  <2> QED BY <2>1
<1>2. PICK k \in Stops : \A j \in Stops : k <= j
  <2> HIDE DEF Stops
  <2> QED BY <1>1, LeastMember
<1>3. k = 0 \/ k < Len(p)
  <2> SUFFICES ASSUME k # 0, ~(k < Len(p)) PROVE FALSE
    OBVIOUS
  <2>1. k - 1 \in Stops
    BY <1>2
  <2> QED BY <1>2, <2>1
<1>4. \A m \in 0 .. k - 1 : t[Len(t) - m] = p[Len(p) - m]
  <2> SUFFICES ASSUME NEW m \in 0 .. k - 1, t[Len(t) - m] # p[Len(p) - m]
               PROVE  FALSE
    OBVIOUS
  <2>1. m \in Stops
    BY <1>2
  <2> QED BY <1>2, <2>1
<1>5. /\ k \in 0 .. Len(t)
      /\ k = 0 \/ k < Len(p)
      /\ \A m \in 0 .. k - 1 : t[Len(t) - m] = p[Len(p) - m]
      /\ Stop(k)
  BY <1>2, <1>3, <1>4
<1> QED
  BY <1>5 DEF CommonSuffix

\* A common beginning, the middle of p and a common end are p.
LEMMA KeptEndsRebuild ==
  ASSUME NEW C, NEW t \in Seq(C), NEW p \in Seq(C), NEW i \in Nat, NEW len \in Nat,
         i + len <= Len(t), i + len <= Len(p),
         \A k \in 1 .. i : t[k] = p[k],
         \A m \in 0 .. len - 1 : t[Len(t) - m] = p[Len(p) - m]
  PROVE  Left(t, i) \o SubSeq(p, i + 1, Len(p) - len) \o Mid(t, Len(t) - len) = p
<1> DEFINE a == Len(t) - len
           b == Len(p) - len
<1>1. /\ a \in Nat /\ a + len = Len(t) /\ a + len <= Len(t)
      /\ b \in Nat /\ b + len = Len(p) /\ b + len <= Len(p)
      /\ i <= a /\ i <= b
  OBVIOUS
<1>2. \A k \in 1 .. len : t[a + k] = p[b + k]
  <2> SUFFICES ASSUME NEW k \in 1 .. len PROVE t[a + k] = p[b + k]
    OBVIOUS
  <2>1. len - k \in 0 .. len - 1
    OBVIOUS
  <2>2. Len(t) - (len - k) = a + k /\ Len(p) - (len - k) = b + k
    BY <1>1
  <2> QED BY <2>1, <2>2
<1>3. Left(t, i) = SubSeq(p, 1, i)
  <2> DEFINE u == Left(t, i)
             v == SubSeq(p, 1, i)
  <2>1. Len(t) \in Nat /\ i <= Len(t)
    BY <1>1
  <2>2. u \in Seq(C) /\ Len(u) = i /\ \A k \in 1 .. i : u[k] = t[k]
    <3>1. u = SubSeq(t, 1, i)
      BY <2>1 DEF Left
    <3>2. /\ SubSeq(t, 1, i) \in Seq(C) /\ Len(SubSeq(t, 1, i)) = i
          /\ \A k \in 1 .. i : SubSeq(t, 1, i)[k] = t[k]
      BY <2>1
    <3> QED BY <3>1, <3>2
  <2>3. v \in Seq(C) /\ Len(v) = i /\ \A k \in 1 .. i : v[k] = p[k]
    BY <1>1
  <2> HIDE DEF u, v
  <2>4. Len(u) = Len(v) /\ \A k \in 1 .. Len(u) : u[k] = v[k]
    BY <2>2, <2>3
  <2>5. u = v
    BY <2>2, <2>3, <2>4, SeqEqual
  <2> QED BY <2>5 DEF u, v
<1>4. Mid(t, a) = SubSeq(p, b + 1, Len(p))
  <2> DEFINE u == Mid(t, a)
             v == SubSeq(p, b + 1, Len(p))
  <2>1. u \in Seq(C) /\ Len(u) = len /\ \A k \in 1 .. len : u[k] = t[a + k]
    BY <1>1 DEF Mid
  <2>2. v \in Seq(C) /\ Len(v) = len /\ \A k \in 1 .. len : v[k] = p[b + k]
    BY <1>1
  <2> HIDE DEF u, v, a, b
  <2>3. Len(u) = Len(v) /\ \A k \in 1 .. Len(u) : u[k] = v[k]
    BY <1>2, <2>1, <2>2
  <2>4. u = v
    BY <2>1, <2>2, <2>3, SeqEqual
  <2> QED BY <2>4 DEF u, v
<1>5. /\ 1 \in 1 .. Len(p) + 1
      /\ i \in 1 - 1 .. Len(p) /\ b \in i .. Len(p)
      /\ b \in 1 - 1 .. Len(p) /\ Len(p) \in b .. Len(p)
  BY <1>1
<1> HIDE DEF a, b
<1>6. SubSeq(p, 1, i) \o SubSeq(p, i + 1, b) = SubSeq(p, 1, b)
  BY <1>5, ConcatAdjacentSubSeq, Zenon
<1>7. SubSeq(p, 1, b) \o SubSeq(p, b + 1, Len(p)) = SubSeq(p, 1, Len(p))
  BY <1>5, ConcatAdjacentSubSeq, Zenon
<1>8. SubSeq(p, 1, Len(p)) = p
  BY SubSeqFull
<1>9. Left(t, i) \o SubSeq(p, i + 1, b) \o Mid(t, a) = p
  BY <1>3, <1>4, <1>6, <1>7, <1>8, Zenon
<1> QED BY <1>9 DEF a, b

\* The cuts JS::optimize makes at both ends of a '-' over t and a '+' of p, and
\* what they leave.
Cuts(t, p, len, i) ==
  /\ len = CommonSuffix(t, p)
  /\ i = CommonPrefix(Left(t, Len(t) - len), Left(p, Len(p) - len))

Rebuilds(t, p, len, i) ==
  Left(t, i) \o SubSeq(p, i + 1, Len(p) - len) \o Mid(t, Len(t) - len) = p

\* The kept characters around what is still inserted are what was inserted.
LEMMA CutsRebuild ==
  ASSUME NEW C, NEW t \in Seq(C), NEW p \in Seq(C), NEW len, NEW i, Cuts(t, p, len, i)
  PROVE  /\ i \in Nat /\ len \in Nat
         /\ i + len <= Len(t)
         /\ i + len <= Len(p)
         /\ Rebuilds(t, p, len, i)
<1> DEFINE tt  == Left(t, Len(t) - len)
           pp  == Left(p, Len(p) - len)
<1>1. len = CommonSuffix(t, p) /\ i = CommonPrefix(tt, pp)
  BY DEF Cuts
<1>2. /\ len \in 0 .. Len(t)
      /\ len = 0 \/ len < Len(p)
      /\ \A m \in 0 .. len - 1 : t[Len(t) - m] = p[Len(p) - m]
  BY <1>1, CommonSuffixFound
<1>3. Len(t) \in Nat /\ Len(p) \in Nat
  OBVIOUS
<1>4. /\ tt \in Seq(C) /\ Len(tt) = Len(t) - len
      /\ \A k \in 1 .. Len(t) - len : tt[k] = t[k]
  BY <1>2, <1>3 DEF Left
<1>5. /\ pp \in Seq(C) /\ Len(pp) = Len(p) - len
      /\ \A k \in 1 .. Len(p) - len : pp[k] = p[k]
  BY <1>2, <1>3 DEF Left
<1> HIDE DEF tt, pp
<1>6. /\ i \in 0 .. Len(tt) /\ i <= Len(pp)
      /\ \A m \in 1 .. i : tt[m] = pp[m]
  <2>1. tt \in Seq(C) /\ pp \in Seq(C)
    BY <1>4, <1>5
  <2> QED BY <1>1, <2>1, CommonPrefixFound
<1>7. /\ i \in Nat /\ len \in Nat
      /\ i + len <= Len(t)
      /\ i + len <= Len(p)
      /\ \A k \in 1 .. i : t[k] = p[k]
  BY <1>2, <1>3, <1>4, <1>5, <1>6
<1>8. Left(t, i) \o SubSeq(p, i + 1, Len(p) - len) \o Mid(t, Len(t) - len) = p
  BY <1>2, <1>7, KeptEndsRebuild
<1> QED BY <1>7, <1>8 DEF Rebuilds

\* What JS::optimize makes of a '-' over t followed by a '+' of p, on its own:
\* it keeps i characters at the start of t and len at its end, neither count
\* exceeds what is there, and the kept characters around what is still
\* inserted are p (changeset.cpp:341-444).
THEOREM OptimizedPairInsertsSame ==
  ASSUME NEW C, NEW t \in Seq(C), NEW p \in Seq(C)
  PROVE  LET len == CommonSuffix(t, p)
             i   == CommonPrefix(Left(t, Len(t) - len), Left(p, Len(p) - len))
         IN  /\ i \in Nat /\ len \in Nat
             /\ i + len <= Len(t)
             /\ i + len <= Len(p)
             /\ Left(t, i) \o SubSeq(p, i + 1, Len(p) - len) \o Mid(t, Len(t) - len) = p
BY CutsRebuild DEF Cuts, Rebuilds

----------------------------------------------------------------------------
(* JS::optimize: one operation of the scan.                                *)

\* Qt's count.
LEMMA CountFacts ==
  /\ \A S, c : \A s \in Seq(S) : Count(s, c) \in Nat
  /\ \A c : Count(<<>>, c) = 0
<1>1. ASSUME NEW S, NEW c, NEW s \in Seq(S)
      PROVE  Count(s, c) \in Nat
  <2> DEFINE P == {i \in DOMAIN s : s[i] = c}
  <2>1. DOMAIN s = 1 .. Len(s) /\ Len(s) \in Nat
    OBVIOUS
  <2>2. IsFiniteSet(1 .. Len(s))
    BY <2>1, FS_Interval
  <2>3. P \subseteq 1 .. Len(s)
    BY <2>1
  <2> HIDE DEF P
  <2>4. Cardinality(P) \in Nat
    BY <2>2, <2>3, FS_Subset, FS_CardinalityType
  <2> QED BY <2>4 DEF Count, P
<1>2. ASSUME NEW c
      PROVE  Count(<<>>, c) = 0
  <2>1. {i \in DOMAIN <<>> : <<>>[i] = c} = {}
    OBVIOUS
  <2> QED BY <2>1, FS_EmptySet DEF Count
<1> QED BY <1>1, <1>2

\* An operation is written if it has a length.
One(op) == IF op.opLength > 0 THEN <<op>> ELSE <<>>

\* An operation is written if it has a length.
LEMMA OneFacts ==
  ASSUME NEW op \in OpSet
  PROVE  One(op) \in Ops /\ Len(One(op)) \in {0, 1} /\ \A kind : Sum(One(op), kind) = Amount(op, kind)
<1>1. op.opLength \in Nat
  BY DEF OpSet
<1>2. CASE op.opLength > 0
  BY <1>2, SumOne DEF One
<1>3. CASE op.opLength = 0
  <2>1. \A kind : Amount(op, kind) = 0
    BY <1>3 DEF Amount
  <2>2. One(op) = <<>> /\ Len(<<>>) = 0
    BY <1>3 DEF One
  <2> QED BY <2>1, <2>2, OpsBasics, SumNone
<1> QED BY <1>1, <1>2, <1>3

\* What is left of an operation whose ends are kept.
Cut(op, len, i, x, y) == [op EXCEPT !.opLength = @ - len - i, !.newlines = @ - x - y]

\* Cutting no more than the length leaves an operation of the same kind.
LEMMA CutFacts ==
  ASSUME NEW op \in OpSet, NEW len \in Nat, NEW i \in Nat, i + len <= op.opLength,
         NEW x \in Int, NEW y \in Int
  PROVE  /\ Cut(op, len, i, x, y) \in OpSet
         /\ Cut(op, len, i, x, y).kind = op.kind
         /\ Cut(op, len, i, x, y).opLength = op.opLength - (i + len)
         /\ len = 0 /\ i = 0 /\ x = 0 /\ y = 0 => Cut(op, len, i, x, y) = op
<1> DEFINE l == op.opLength - len - i
           m == op.newlines - x - y
<1>1. op.opLength \in Nat /\ op.newlines \in Int
  BY DEF OpSet
<1>2. l \in Nat /\ m \in Int /\ l = op.opLength - (i + len)
      /\ (len = 0 /\ i = 0 /\ x = 0 /\ y = 0 => l = op.opLength /\ m = op.newlines)
  BY <1>1
<1>3. Cut(op, len, i, x, y) = [op EXCEPT !.opLength = l, !.newlines = m]
  BY DEF Cut
<1> HIDE DEF l, m
<1>4. /\ [op EXCEPT !.opLength = l, !.newlines = m] \in OpSet
      /\ [op EXCEPT !.opLength = l, !.newlines = m].kind = op.kind
      /\ [op EXCEPT !.opLength = l, !.newlines = m].opLength = l
  BY <1>2 DEF OpSet
<1>5. l = op.opLength /\ m = op.newlines => [op EXCEPT !.opLength = l, !.newlines = m] = op
  BY DEF OpSet
<1> QED BY <1>2, <1>3, <1>4, <1>5

\* The '=' that optimize writes.
LEMMA KeepType ==
  ASSUME NEW n \in Nat, NEW m \in Int
  PROVE  /\ Op(KeepChars, n, m, -1) \in OpSet
         /\ Op(KeepChars, n, m, -1).kind = KeepChars /\ Op(KeepChars, n, m, -1).opLength = n
BY DEF Op, OpSet

Deletion == {op \in OpSet : op.kind = SkipOverChars}

\* The state of the scan.
Scan(C) ==
  [ops : Ops, bank : Seq(C), text : Seq(C), rest : Seq(C),
   prevPart : {<<>>} \cup {<<op>> : op \in Deletion}]

\* The '-' that is not written yet belongs to what is there.
Out(s) == s.ops \o s.prevPart

\* Where the '-' that is not written yet ends.
Ahead(s) == IF s.prevPart = <<>> THEN s.text ELSE Mid(s.text, s.prevPart[1].opLength)

\* What one operation does to the scan: cut characters are kept that were to be
\* deleted and inserted again.
Scans(s, op, t, cut) ==
  /\ cut \in Nat
  /\ Sum(Out(t), InsertChars) + cut = Sum(Out(s), InsertChars) + Amount(op, InsertChars)
  /\ Sum(Out(t), SkipOverChars) + cut = Sum(Out(s), SkipOverChars) + Amount(op, SkipOverChars)
  /\ Sum(Out(t), KeepChars) = Sum(Out(s), KeepChars) + Amount(op, KeepChars) + cut
  /\ Len(t.bank) + cut = Len(s.bank) + Amount(op, InsertChars)
  /\ Len(t.rest) + Amount(op, InsertChars) = Len(s.rest)

\* What the '-' held back deletes and what op inserts have no end in common.
Apart(s, op) ==
  LET del == Left(s.text, s.prevPart[1].opLength)
      ins == Left(s.rest, op.opLength)
  IN  CommonPrefix(del, ins) = 0 /\ CommonSuffix(del, ins) = 0

\* If nothing is cut, the operation is taken over, or dropped because it is empty.
Copies(s, op, t) ==
  /\ t.bank \o t.rest = s.bank \o s.rest
  /\ Len(Out(t)) <= Len(Out(s)) + 1
  /\ Len(Out(t)) = Len(Out(s)) + 1 => Out(t) = Append(Out(s), op)
  /\ Ahead(t) = Mid(Ahead(s), Amount(op, KeepChars) + Amount(op, SkipOverChars))
  /\ op.kind = InsertChars /\ s.prevPart # <<>> => Apart(s, op)

\* What the state of the scan consists of.
LEMMA OutFacts ==
  ASSUME NEW C, NEW s \in Scan(C)
  PROVE  /\ s.ops \in Ops /\ s.prevPart \in Ops /\ Out(s) \in Ops
         /\ s.bank \in Seq(C) /\ s.text \in Seq(C) /\ s.rest \in Seq(C)
         /\ Ahead(s) \in Seq(C)
         /\ s.prevPart = <<>> => Out(s) = s.ops /\ Ahead(s) = s.text
         /\ s.prevPart # <<>> =>
              /\ s.prevPart[1] \in Deletion /\ s.prevPart = <<s.prevPart[1]>>
              /\ Out(s) = Append(s.ops, s.prevPart[1])
              /\ Ahead(s) = Mid(s.text, s.prevPart[1].opLength)
<1>1. /\ s.ops \in Ops /\ s.bank \in Seq(C) /\ s.text \in Seq(C) /\ s.rest \in Seq(C)
      /\ s.prevPart \in {<<>>} \cup {<<op>> : op \in Deletion}
  BY DEF Scan
<1>2. CASE s.prevPart = <<>>
  <2>1. Out(s) = s.ops /\ Ahead(s) = s.text
    BY <1>1, <1>2 DEF Out, Ahead, Ops
  <2> QED BY <1>1, <1>2, <2>1, OpsBasics
<1>3. CASE s.prevPart # <<>>
  <2>1. PICK op \in Deletion : s.prevPart = <<op>>
    BY <1>1, <1>3
  <2>2. op \in OpSet /\ s.prevPart[1] = op /\ op.opLength \in Nat
    BY <2>1 DEF Deletion, OpSet
  <2>3. Out(s) = Append(s.ops, op) /\ Append(s.ops, op) \in Ops
    BY <1>1, <2>1, <2>2 DEF Out, Ops
  <2>4. Ahead(s) = Mid(s.text, op.opLength) /\ Ahead(s) \in Seq(C)
    BY <1>1, <1>3, <2>2, MidFacts DEF Ahead
  <2> QED BY <1>1, <1>3, <2>1, <2>2, <2>3, <2>4, SumOne
<1> QED BY <1>2, <1>3

\* Joining is associative.
LEMMA ConcatThree ==
  ASSUME NEW S, NEW a \in Seq(S), NEW b \in Seq(S), NEW c \in Seq(S)
  PROVE  (a \o b) \o c = a \o (b \o c)
OBVIOUS

\* What was held back is written, and the scan moves past it.
LEMMA PrevPartWritten ==
  ASSUME NEW C, NEW s \in Scan(C)
  PROVE  WritePrevPart(s) = [ops |-> Out(s), bank |-> s.bank, text |-> Ahead(s),
                             rest |-> s.rest, prevPart |-> <<>>]
<1>1. s = [ops |-> s.ops, bank |-> s.bank, text |-> s.text, rest |-> s.rest, prevPart |-> s.prevPart]
  BY DEF Scan
<1>2. CASE s.prevPart = <<>>
  <2>1. WritePrevPart(s) = s /\ Out(s) = s.ops /\ Ahead(s) = s.text
    BY <1>2, OutFacts DEF WritePrevPart
  <2> QED BY <1>1, <1>2, <2>1
<1>3. CASE s.prevPart # <<>>
  <2>1. WritePrevPart(s) = [s EXCEPT !.text = Ahead(s), !.ops = Out(s), !.prevPart = <<>>]
    BY <1>3 DEF WritePrevPart, Out, Ahead
  <2> QED BY <2>1 DEF Scan
<1> QED BY <1>2, <1>3

\* A '=' writes the '-' held back and is copied.
LEMMA ScanKeeps ==
  ASSUME NEW C, NEW s \in Scan(C), NEW op \in OpSet, op.kind = KeepChars
  PROVE  LET t == OptimizeOp(s, op)
         IN  t \in Scan(C) /\ Scans(s, op, t, 0) /\ Copies(s, op, t)
<1> DEFINE t == [ops |-> Append(Out(s), op), bank |-> s.bank, text |-> Mid(Ahead(s), op.opLength),
                 rest |-> s.rest, prevPart |-> <<>>]
<1>1. OptimizeOp(s, op) = t
  <2> DEFINE w == [ops |-> Out(s), bank |-> s.bank, text |-> Ahead(s),
                   rest |-> s.rest, prevPart |-> <<>>]
  <2>1. OptimizeOp(s, op) = [w EXCEPT !.text = Mid(@, op.opLength), !.ops = Append(@, op)]
    BY PrevPartWritten DEF OptimizeOp, InsertChars, KeepChars, SkipOverChars
  <2> QED BY <2>1
<1>2. op.opLength \in Nat
  BY DEF OpSet
<1>3. /\ Out(s) \in Ops /\ Ahead(s) \in Seq(C) /\ s.bank \in Seq(C) /\ s.rest \in Seq(C)
  BY OutFacts
<1>4. /\ Append(Out(s), op) \in Ops
      /\ \A kind : Sum(Append(Out(s), op), kind) = Sum(Out(s), kind) + Amount(op, kind)
  BY <1>3, SumAppend
<1>5. Mid(Ahead(s), op.opLength) \in Seq(C)
  BY <1>2, <1>3, MidFacts
<1>6. t \in Scan(C)
  BY <1>3, <1>4, <1>5 DEF Scan
<1>7. /\ t.ops = Append(Out(s), op) /\ t.bank = s.bank /\ t.rest = s.rest /\ t.prevPart = <<>>
      /\ t.text = Mid(Ahead(s), op.opLength)
  OBVIOUS
<1> HIDE DEF t
<1>8. Out(t) = Append(Out(s), op) /\ Ahead(t) = Mid(Ahead(s), op.opLength)
  BY <1>6, <1>7, OutFacts
<1>9. Amount(op, InsertChars) = 0 /\ Amount(op, SkipOverChars) = 0 /\ Amount(op, KeepChars) = op.opLength
  BY DEF Amount, InsertChars, KeepChars, SkipOverChars
<1>10. Scans(s, op, t, 0)
  <2>1. /\ Sum(Out(t), InsertChars) = Sum(Out(s), InsertChars) + 0
        /\ Sum(Out(t), SkipOverChars) = Sum(Out(s), SkipOverChars) + 0
        /\ Sum(Out(t), KeepChars) = Sum(Out(s), KeepChars) + op.opLength
    BY <1>4, <1>8, <1>9
  <2>2. Sum(Out(s), InsertChars) \in Nat /\ Sum(Out(s), SkipOverChars) \in Nat /\ Sum(Out(s), KeepChars) \in Nat
    BY <1>3, SumType
  <2>3. Len(s.bank) \in Nat /\ Len(s.rest) \in Nat
    BY <1>3
  <2> QED BY <1>2, <1>7, <1>9, <2>1, <2>2, <2>3 DEF Scans
<1>11. Copies(s, op, t)
  <2>1. Len(Append(Out(s), op)) = Len(Out(s)) + 1 /\ Len(Out(s)) \in Nat
    BY <1>3 DEF Ops
  <2>2. op.kind # InsertChars
    BY DEF InsertChars, KeepChars
  <2> QED BY <1>2, <1>7, <1>8, <1>9, <2>1, <2>2 DEF Copies
<1> QED BY <1>1, <1>6, <1>10, <1>11

\* A '-' writes the '-' held back and is held back itself.
LEMMA ScanDeletes ==
  ASSUME NEW C, NEW s \in Scan(C), NEW op \in OpSet, op.kind = SkipOverChars
  PROVE  LET t == OptimizeOp(s, op)
         IN  t \in Scan(C) /\ Scans(s, op, t, 0) /\ Copies(s, op, t)
<1> DEFINE t == [ops |-> Out(s), bank |-> s.bank, text |-> Ahead(s),
                 rest |-> s.rest, prevPart |-> <<op>>]
<1>1. OptimizeOp(s, op) = t
  <2> DEFINE w == [ops |-> Out(s), bank |-> s.bank, text |-> Ahead(s),
                   rest |-> s.rest, prevPart |-> <<>>]
  <2>1. OptimizeOp(s, op) = [w EXCEPT !.prevPart = <<op>>]
    BY PrevPartWritten DEF OptimizeOp, InsertChars, KeepChars, SkipOverChars
  <2> QED BY <2>1
<1>2. op.opLength \in Nat /\ op \in Deletion
  BY DEF OpSet, Deletion
<1>3. /\ Out(s) \in Ops /\ Ahead(s) \in Seq(C) /\ s.bank \in Seq(C) /\ s.rest \in Seq(C)
  BY OutFacts
<1>4. /\ Append(Out(s), op) \in Ops
      /\ \A kind : Sum(Append(Out(s), op), kind) = Sum(Out(s), kind) + Amount(op, kind)
  BY <1>3, SumAppend
<1>5. t \in Scan(C)
  BY <1>2, <1>3 DEF Scan
<1>6. /\ t.ops = Out(s) /\ t.bank = s.bank /\ t.rest = s.rest /\ t.prevPart # <<>>
      /\ t.prevPart[1] = op /\ t.text = Ahead(s)
  OBVIOUS
<1> HIDE DEF t
<1>7. Out(t) = Append(Out(s), op) /\ Ahead(t) = Mid(Ahead(s), op.opLength)
  BY <1>5, <1>6, OutFacts
<1>8. Amount(op, InsertChars) = 0 /\ Amount(op, SkipOverChars) = op.opLength /\ Amount(op, KeepChars) = 0
  BY DEF Amount, InsertChars, KeepChars, SkipOverChars
<1>9. Scans(s, op, t, 0)
  <2>1. /\ Sum(Out(t), InsertChars) = Sum(Out(s), InsertChars) + 0
        /\ Sum(Out(t), SkipOverChars) = Sum(Out(s), SkipOverChars) + op.opLength
        /\ Sum(Out(t), KeepChars) = Sum(Out(s), KeepChars) + 0
    BY <1>4, <1>7, <1>8
  <2>2. Sum(Out(s), InsertChars) \in Nat /\ Sum(Out(s), SkipOverChars) \in Nat /\ Sum(Out(s), KeepChars) \in Nat
    BY <1>3, SumType
  <2>3. Len(s.bank) \in Nat /\ Len(s.rest) \in Nat
    BY <1>3
  <2> QED BY <1>2, <1>6, <1>8, <2>1, <2>2, <2>3 DEF Scans
<1>10. Copies(s, op, t)
  <2>1. Len(Append(Out(s), op)) = Len(Out(s)) + 1 /\ Len(Out(s)) \in Nat
    BY <1>3 DEF Ops
  <2>2. op.kind # InsertChars
    BY DEF InsertChars, SkipOverChars
  <2> QED BY <1>2, <1>6, <1>7, <1>8, <2>1, <2>2 DEF Copies
<1> QED BY <1>1, <1>5, <1>9, <1>10

\* A '+' behind anything but a '-' is copied, with its share of the bank.
LEMMA ScanInserts ==
  ASSUME NEW C, NEW s \in Scan(C), NEW op \in OpSet, op.kind = InsertChars, s.prevPart = <<>>
  PROVE  LET t == OptimizeOp(s, op)
         IN  /\ t \in Scan(C) /\ Copies(s, op, t)
             /\ op.opLength <= Len(s.rest) => Scans(s, op, t, 0)
<1> DEFINE new == Left(s.rest, op.opLength)
           old == Mid(s.rest, op.opLength)
           t == [ops |-> Append(s.ops, op), bank |-> s.bank \o new, text |-> s.text,
                 rest |-> old, prevPart |-> <<>>]
<1>1. OptimizeOp(s, op) = t
  <2>1. OptimizeOp(s, op) = [s EXCEPT !.bank = @ \o new, !.rest = old, !.ops = Append(@, op)]
    BY DEF OptimizeOp, InsertChars, KeepChars, SkipOverChars
  <2> HIDE DEF new, old
  <2> QED BY <2>1 DEF Scan
<1>2. op.opLength \in Nat
  BY DEF OpSet
<1>3. /\ Out(s) = s.ops /\ s.ops \in Ops /\ Ahead(s) = s.text /\ s.text \in Seq(C)
      /\ s.bank \in Seq(C) /\ s.rest \in Seq(C)
  BY OutFacts
<1>4. /\ Append(s.ops, op) \in Ops
      /\ \A kind : Sum(Append(s.ops, op), kind) = Sum(s.ops, kind) + Amount(op, kind)
  BY <1>3, SumAppend
<1>5. /\ new \in Seq(C) /\ old \in Seq(C) /\ new \o old = s.rest
      /\ op.opLength <= Len(s.rest) => Len(new) = op.opLength /\ Len(old) = Len(s.rest) - op.opLength
  <2> DEFINE r == s.rest
  <2>1. r \in Seq(C) /\ Len(r) \in Nat
    BY <1>3
  <2> HIDE DEF r
  <2>2. /\ Left(r, op.opLength) \in Seq(C)
        /\ Len(Left(r, op.opLength)) = IF op.opLength < Len(r) THEN op.opLength ELSE Len(r)
    BY <1>2, <2>1, LeftFacts
  <2>3. /\ Mid(r, op.opLength) \in Seq(C)
        /\ Len(Mid(r, op.opLength)) = IF op.opLength < Len(r) THEN Len(r) - op.opLength ELSE 0
    BY <1>2, <2>1, MidFacts
  <2>4. Left(r, op.opLength) \o Mid(r, op.opLength) = r
    BY <1>2, <2>1, LeftMid
  <2>5. op.opLength <= Len(r) =>
          Len(Left(r, op.opLength)) = op.opLength /\ Len(Mid(r, op.opLength)) = Len(r) - op.opLength
    BY <1>2, <2>1, <2>2, <2>3
  <2> QED BY <2>2, <2>3, <2>4, <2>5 DEF r
<1> HIDE DEF new, old
<1>6. s.bank \o new \in Seq(C) /\ Len(s.bank \o new) = Len(s.bank) + Len(new)
      /\ (s.bank \o new) \o old = s.bank \o s.rest
  <2> DEFINE b == s.bank
  <2>1. b \in Seq(C)
    BY <1>3
  <2> HIDE DEF b
  <2> new \in Seq(C) /\ old \in Seq(C)
    BY <1>5
  <2> HIDE DEF t
  <2>2. b \o new \in Seq(C) /\ Len(b \o new) = Len(b) + Len(new)
    BY <2>1
  <2>3. (b \o new) \o old = b \o (new \o old)
    BY <2>1, ConcatThree
  <2> QED BY <1>5, <2>2, <2>3 DEF b
<1>7. t \in Scan(C)
  BY <1>3, <1>4, <1>5, <1>6 DEF Scan
<1>8. /\ t.ops = Append(s.ops, op) /\ t.bank = s.bank \o new /\ t.rest = old /\ t.prevPart = <<>>
      /\ t.text = s.text
  OBVIOUS
<1> HIDE DEF t
<1>9. Out(t) = Append(s.ops, op) /\ Ahead(t) = s.text
  BY <1>7, <1>8, OutFacts
<1>10. Amount(op, InsertChars) = op.opLength /\ Amount(op, SkipOverChars) = 0 /\ Amount(op, KeepChars) = 0
  BY DEF Amount, InsertChars, KeepChars, SkipOverChars
<1>11. ASSUME op.opLength <= Len(s.rest)
       PROVE  Scans(s, op, t, 0)
  <2>1. /\ Sum(Out(t), InsertChars) = Sum(Out(s), InsertChars) + op.opLength
        /\ Sum(Out(t), SkipOverChars) = Sum(Out(s), SkipOverChars) + 0
        /\ Sum(Out(t), KeepChars) = Sum(Out(s), KeepChars) + 0
    BY <1>3, <1>4, <1>9, <1>10
  <2>2. Sum(Out(s), InsertChars) \in Nat /\ Sum(Out(s), SkipOverChars) \in Nat /\ Sum(Out(s), KeepChars) \in Nat
    BY <1>3, SumType
  <2>3. Len(s.bank) \in Nat /\ Len(s.rest) \in Nat
    BY <1>3
  <2>4. Len(t.bank) = Len(s.bank) + op.opLength /\ Len(t.rest) = Len(s.rest) - op.opLength
    BY <1>5, <1>6, <1>8, <1>11
  <2> QED BY <1>2, <1>10, <2>1, <2>2, <2>3, <2>4 DEF Scans
<1>12. Copies(s, op, t)
  <2>1. Len(Append(s.ops, op)) = Len(s.ops) + 1 /\ Len(s.ops) \in Nat
    BY <1>3 DEF Ops
  <2>2. Mid(s.text, 0) = s.text
    BY <1>3, MidNone
  <2>3. t.bank \o t.rest = s.bank \o s.rest
    BY <1>6, <1>8
  <2>4. /\ Len(Out(t)) <= Len(Out(s)) + 1
        /\ Out(t) = Append(Out(s), op)
    BY <1>3, <1>9, <2>1
  <2>5. Ahead(t) = Mid(Ahead(s), Amount(op, KeepChars) + Amount(op, SkipOverChars))
    BY <1>3, <1>9, <1>10, <2>2
  <2> QED BY <2>3, <2>4, <2>5 DEF Copies
<1> QED BY <1>1, <1>7, <1>11, <1>12

\* left and mid at both ends of a text.
LEMMA LeftAll ==
  ASSUME NEW S, NEW s \in Seq(S)
  PROVE  Left(s, Len(s)) = s /\ Left(s, Len(s) - 0) = s /\ Left(s, 0) = <<>> /\ Mid(s, Len(s)) = <<>>
<1>1. Len(s) \in Nat
  OBVIOUS
<1>2. Left(s, Len(s)) \o Mid(s, Len(s)) = s /\ Left(s, 0) \o Mid(s, 0) = s
  BY <1>1, LeftMid
<1>3. Left(s, Len(s)) \in Seq(S) /\ Len(Left(s, Len(s))) = Len(s)
      /\ \A k \in 1 .. Len(Left(s, Len(s))) : Left(s, Len(s))[k] = s[k]
  BY <1>1, LeftFacts
<1>4. Left(s, Len(s)) = s
  BY <1>3, SeqEqual
<1>5. Left(s, 0) = SubSeq(s, 1, 0)
  BY <1>1 DEF Left
<1>6. Len(s) - 0 = Len(s)
  BY <1>1
<1> QED BY <1>4, <1>5, <1>6 DEF Mid

\* What optimize keeps of a '-' '+' couple is a part of both, without overlap;
\* if it keeps nothing, the two texts have no end in common.
LEMMA CutsInRange ==
  ASSUME NEW C, NEW s \in Scan(C), NEW op \in OpSet, s.prevPart # <<>>
  PROVE  LET del == s.prevPart[1]
             t   == Left(s.text, del.opLength)
             p   == Left(s.rest, op.opLength)
             len == CommonSuffix(t, p)
             i   == CommonPrefix(Left(t, Len(t) - len), Left(p, Len(p) - len))
             x   == Count(Mid(t, Len(t) - len), NL)
             y   == Count(Left(t, i), NL)
         IN  /\ i \in Nat /\ len \in Nat /\ i + len <= del.opLength /\ i + len <= op.opLength
             /\ x \in Nat /\ y \in Nat
             /\ i + len = 0 => i = 0 /\ len = 0 /\ x = 0 /\ y = 0 /\ Apart(s, op)
<1> DEFINE del == s.prevPart[1]
           t   == Left(s.text, del.opLength)
           p   == Left(s.rest, op.opLength)
           len == CommonSuffix(t, p)
           i   == CommonPrefix(Left(t, Len(t) - len), Left(p, Len(p) - len))
           x   == Count(Mid(t, Len(t) - len), NL)
           y   == Count(Left(t, i), NL)
<1>1. del \in OpSet /\ del.opLength \in Nat /\ op.opLength \in Nat /\ s.text \in Seq(C) /\ s.rest \in Seq(C)
  BY OutFacts DEF Deletion, OpSet
<1>2. /\ t \in Seq(C) /\ Len(t) \in Nat /\ Len(t) <= del.opLength
      /\ p \in Seq(C) /\ Len(p) \in Nat /\ Len(p) <= op.opLength
  <2> HIDE DEF del
  <2>1. t \in Seq(C) /\ Len(t) = IF del.opLength < Len(s.text) THEN del.opLength ELSE Len(s.text)
    BY <1>1, LeftFacts
  <2>2. p \in Seq(C) /\ Len(p) = IF op.opLength < Len(s.rest) THEN op.opLength ELSE Len(s.rest)
    BY <1>1, LeftFacts
  <2>3. Len(s.text) \in Nat /\ Len(s.rest) \in Nat
    BY <1>1
  <2> HIDE DEF t, p
  <2>4. Len(t) \in Nat /\ Len(p) \in Nat
    BY <2>1, <2>2
  <2> QED BY <1>1, <2>1, <2>2, <2>3, <2>4
<1>3. Apart(s, op) <=> CommonPrefix(t, p) = 0 /\ CommonSuffix(t, p) = 0
  BY DEF Apart
<1> HIDE DEF t, p
<1>4. i \in Nat /\ len \in Nat /\ i + len <= Len(t) /\ i + len <= Len(p)
  <2> HIDE DEF i, len
  <2> QED BY <1>2, OptimizedPairInsertsSame DEF i, len
<1>5. i + len = 0 => i = 0 /\ len = 0 /\ Apart(s, op)
  <2> SUFFICES ASSUME i + len = 0 PROVE i = 0 /\ len = 0 /\ Apart(s, op)
    OBVIOUS
  <2>1. i = 0 /\ len = 0
    <3> HIDE DEF i, len
    <3> QED BY <1>4
  <2>2. Left(t, Len(t) - len) = t /\ Left(p, Len(p) - len) = p
    <3> HIDE DEF len
    <3> QED BY <1>2, <2>1, LeftAll
  <2>3. CommonPrefix(t, p) = 0
    BY <2>1, <2>2, Zenon
  <2> QED BY <1>3, <2>1, <2>3
<1>6. x \in Nat /\ y \in Nat /\ (i = 0 /\ len = 0 => x = 0 /\ y = 0)
  <2> HIDE DEF i, len
  <2>1. Len(t) - len \in Nat
    BY <1>2, <1>4
  <2>2. Mid(t, Len(t) - len) \in Seq(C) /\ Left(t, i) \in Seq(C)
    BY <1>2, <1>4, <2>1, MidFacts, LeftFacts
  <2>3. x \in Nat /\ y \in Nat
    BY <2>2, CountFacts
  <2>4. ASSUME i = 0, len = 0
        PROVE  x = 0 /\ y = 0
    <3>1. Len(t) - len = Len(t)
      BY <1>2, <2>4
    <3>2. Mid(t, Len(t) - len) = <<>> /\ Left(t, i) = <<>>
      BY <1>2, <2>4, <3>1, LeftAll
    <3> QED BY <3>2, CountFacts
  <2> QED BY <2>3, <2>4
<1>7. i + len <= del.opLength /\ i + len <= op.opLength
  <2> HIDE DEF i, len, del
  <2> QED BY <1>1, <1>2, <1>4
<1>8. /\ i \in Nat /\ len \in Nat /\ i + len <= del.opLength /\ i + len <= op.opLength
      /\ x \in Nat /\ y \in Nat
      /\ i + len = 0 => i = 0 /\ len = 0 /\ x = 0 /\ y = 0 /\ Apart(s, op)
  <2> HIDE DEF i, len, x, y, del
  <2> QED BY <1>4, <1>5, <1>6, <1>7
<1> QED BY <1>8, Zenon DEF t, p

\* What is written for a couple.
Four(a, b, c, d) == One(a) \o One(b) \o One(c) \o One(d)

\* Their sums, and that they are at most the two there were if nothing is kept.
FourLaw(a, b, c, d) ==
  /\ Four(a, b, c, d) \in Ops
  /\ \A kind : Sum(Four(a, b, c, d), kind) = Amount(a, kind) + Amount(b, kind) + Amount(c, kind) + Amount(d, kind)
  /\ a.opLength = 0 /\ d.opLength = 0 =>
       /\ Len(Four(a, b, c, d)) <= 2
       /\ Len(Four(a, b, c, d)) = 2 => Four(a, b, c, d) = <<b>> \o <<c>>

\* So it is.
LEMMA FourFacts ==
  ASSUME NEW a \in OpSet, NEW b \in OpSet, NEW c \in OpSet, NEW d \in OpSet
  PROVE  FourLaw(a, b, c, d)
<1>1. /\ One(a) \in Ops /\ One(b) \in Ops /\ One(c) \in Ops /\ One(d) \in Ops
      /\ Len(One(b)) \in {0, 1} /\ Len(One(c)) \in {0, 1}
  BY OneFacts
<1>2. One(a) \o One(b) \in Ops /\ One(a) \o One(b) \o One(c) \in Ops /\ Four(a, b, c, d) \in Ops
  <2>1. One(a) \o One(b) \in Ops
    BY <1>1, OpsBasics
  <2>2. One(a) \o One(b) \o One(c) \in Ops
    BY <1>1, <2>1, OpsBasics
  <2> QED BY <1>1, <2>1, <2>2, OpsBasics DEF Four
<1>3. ASSUME NEW kind
      PROVE  Sum(Four(a, b, c, d), kind) = Amount(a, kind) + Amount(b, kind) + Amount(c, kind) + Amount(d, kind)
  <2>1. Sum(One(a) \o One(b), kind) = Sum(One(a), kind) + Sum(One(b), kind)
    BY <1>1, SumConcat
  <2>2. Sum(One(a) \o One(b) \o One(c), kind) = Sum(One(a) \o One(b), kind) + Sum(One(c), kind)
    BY <1>1, <1>2, SumConcat
  <2>3. Sum(Four(a, b, c, d), kind) = Sum(One(a) \o One(b) \o One(c), kind) + Sum(One(d), kind)
    BY <1>1, <1>2, SumConcat DEF Four
  <2> QED BY <2>1, <2>2, <2>3, OneFacts
<1>4. ASSUME a.opLength = 0, d.opLength = 0
      PROVE  /\ Len(Four(a, b, c, d)) <= 2
             /\ Len(Four(a, b, c, d)) = 2 => Four(a, b, c, d) = <<b>> \o <<c>>
  <2>1. One(a) = <<>> /\ One(d) = <<>>
    BY <1>4 DEF One
  <2> DEFINE u == One(b)
             v == One(c)
  <2>2. u \in Ops /\ v \in Ops /\ Len(u) \in {0, 1} /\ Len(v) \in {0, 1}
    BY <1>1
  <2>3. (Len(u) = 1 => u = <<b>>) /\ (Len(v) = 1 => v = <<c>>)
    BY DEF One
  <2>4. Four(a, b, c, d) = <<>> \o u \o v \o <<>>
    BY <2>1 DEF Four
  <2> HIDE DEF u, v
  <2>5. <<>> \o u \o v \o <<>> = u \o v /\ Len(u \o v) = Len(u) + Len(v)
    BY <2>2 DEF Ops
  <2>6. Len(u \o v) <= 2 /\ (Len(u \o v) = 2 => Len(u) = 1 /\ Len(v) = 1)
    <3> DEFINE f == Len(u)
               g == Len(v)
               h == Len(u \o v)
    <3>1. f \in {0, 1} /\ g \in {0, 1} /\ h = f + g
      BY <2>2, <2>5
    <3> HIDE DEF f, g, h
    <3>2. h <= 2 /\ (h = 2 => f = 1 /\ g = 1)
      BY <3>1
    <3> QED BY <3>2 DEF f, g, h
  <2>7. Four(a, b, c, d) = u \o v
    BY <2>4, <2>5, Zenon
  <2> QED BY <2>3, <2>6, <2>7, Zenon
<1> QED BY <1>2, <1>3, <1>4 DEF FourLaw

Behind(o, a, b, c, d) == o \o One(a) \o One(b) \o One(c) \o One(d)

\* They are written one after the other behind what is there.
LEMMA FourBehind ==
  ASSUME NEW o \in Ops, NEW a \in OpSet, NEW b \in OpSet, NEW c \in OpSet, NEW d \in OpSet
  PROVE  Behind(o, a, b, c, d) = o \o Four(a, b, c, d)
<1>1. PICK oa \in Seq(OpSet) : oa = One(a)
  BY OneFacts DEF Ops
<1>2. PICK ob \in Seq(OpSet) : ob = One(b)
  BY OneFacts DEF Ops
<1>3. PICK oc \in Seq(OpSet) : oc = One(c)
  BY OneFacts DEF Ops
<1>4. PICK od \in Seq(OpSet) : od = One(d)
  BY OneFacts DEF Ops
<1>5. PICK l \in Seq(OpSet) : l = o
  BY DEF Ops
<1>6. l \o oa \o ob \o oc \o od = l \o (oa \o ob \o oc \o od)
  BY SMTT(30)
<1> QED BY <1>1, <1>2, <1>3, <1>4, <1>5, <1>6 DEF Four, Behind

\* A '+' behind a '-': optimize keeps what both ends have in common.
LEMMA ScanPair ==
  ASSUME NEW C, NEW s \in Scan(C), NEW op \in OpSet, op.kind = InsertChars, s.prevPart # <<>>
  PROVE  LET t == OptimizeOp(s, op)
         IN  /\ t \in Scan(C)
             /\ op.opLength <= Len(s.rest) =>
                  \E cut : Scans(s, op, t, cut) /\ (cut = 0 => Copies(s, op, t))
<1> DEFINE del == s.prevPart[1]
           t0  == Left(s.text, del.opLength)
           p   == Left(s.rest, op.opLength)
           len == CommonSuffix(t0, p)
           i   == CommonPrefix(Left(t0, Len(t0) - len), Left(p, Len(p) - len))
           x   == Count(Mid(t0, Len(t0) - len), NL)
           y   == Count(Left(t0, i), NL)
           a   == Op(KeepChars, i, y, -1)
           b   == Cut(del, len, i, x, y)
           c   == Cut(op, len, i, x, y)
           d   == Op(KeepChars, len, x, -1)
           bank == s.bank \o Left(Mid(s.rest, i), c.opLength)
           text == Mid(s.text, i + b.opLength)
           rest == Mid(s.rest, i + c.opLength + len)
           t   == [ops |-> s.ops \o One(a) \o One(b) \o One(c) \o One(d), bank |-> bank, text |-> text,
                   rest |-> rest, prevPart |-> <<>>]
<1>1. OptimizeOp(s, op) = t
  <2>1. OptimizeOp(s, op) = OptimizePair(s, op)
    <3> HIDE DEF del, t0, p, len, i, x, y, a, b, c, d, bank, text, rest, t
    <3> QED BY DEF OptimizeOp, InsertChars, KeepChars, SkipOverChars
  <2>2. OptimizePair(s, op) = t
    BY Zenon DEF OptimizePair, One, Cut
  <2> QED BY <2>1, <2>2
<1>2. /\ i \in Nat /\ len \in Nat /\ i + len <= del.opLength /\ i + len <= op.opLength
      /\ x \in Nat /\ y \in Nat
      /\ i + len = 0 => i = 0 /\ len = 0 /\ x = 0 /\ y = 0 /\ Apart(s, op)
  <2> HIDE DEF i, len, x, y, del
  <2> QED BY CutsInRange DEF i, len, x, y, del
<1> HIDE DEF i, len, x, y
<1>3. /\ del \in OpSet /\ del.kind = SkipOverChars /\ del.opLength \in Nat /\ op.opLength \in Nat
      /\ s.prevPart = <<del>> /\ Out(s) = Append(s.ops, del) /\ s.ops \in Ops
      /\ s.bank \in Seq(C) /\ s.text \in Seq(C) /\ s.rest \in Seq(C)
      /\ Ahead(s) = Mid(s.text, del.opLength) /\ Ahead(s) \in Seq(C)
  BY OutFacts DEF Deletion, OpSet
<1> HIDE DEF del
<1>4. /\ a \in OpSet /\ a.kind = KeepChars /\ a.opLength = i
      /\ d \in OpSet /\ d.kind = KeepChars /\ d.opLength = len
  BY <1>2, KeepType
<1>5. /\ b \in OpSet /\ b.kind = SkipOverChars /\ b.opLength = del.opLength - (i + len)
      /\ c \in OpSet /\ c.kind = InsertChars /\ c.opLength = op.opLength - (i + len)
      /\ len = 0 /\ i = 0 /\ x = 0 /\ y = 0 => b = del /\ c = op
  BY <1>2, <1>3, CutFacts
<1> HIDE DEF a, b, c, d
<1>6. b.opLength \in Nat /\ c.opLength \in Nat
  BY <1>5 DEF OpSet
<1> DEFINE four == Four(a, b, c, d)
<1>7. /\ four \in Ops
      /\ \A kind : Sum(four, kind) = Amount(a, kind) + Amount(b, kind) + Amount(c, kind) + Amount(d, kind)
      /\ a.opLength = 0 /\ d.opLength = 0 =>
           /\ Len(four) <= 2
           /\ Len(four) = 2 => four = <<b>> \o <<c>>
  <2> a \in OpSet
    BY <1>4
  <2> b \in OpSet
    BY <1>5
  <2> c \in OpSet
    BY <1>5
  <2> d \in OpSet
    BY <1>4
  <2> HIDE DEF bank, text, rest, t, four
  <2>1. FourLaw(a, b, c, d)
    <3>1. \A aa, bb, cc, dd \in OpSet : FourLaw(aa, bb, cc, dd)
      BY FourFacts
    <3> QED BY <3>1, Zenon
  <2> QED BY <2>1 DEF FourLaw, four
<1>8. s.ops \o One(a) \o One(b) \o One(c) \o One(d) = s.ops \o four
  <2> s.ops \in Ops
    BY <1>3
  <2> a \in OpSet
    BY <1>4
  <2> b \in OpSet
    BY <1>5
  <2> c \in OpSet
    BY <1>5
  <2> d \in OpSet
    BY <1>4
  <2> HIDE DEF bank, text, rest, t
  <2>1. Behind(s.ops, a, b, c, d) = s.ops \o Four(a, b, c, d)
    <3>1. \A oo \in Ops : \A aa, bb, cc, dd \in OpSet : Behind(oo, aa, bb, cc, dd) = oo \o Four(aa, bb, cc, dd)
      BY FourBehind
    <3>2. \A aa, bb, cc, dd \in OpSet : Behind(s.ops, aa, bb, cc, dd) = s.ops \o Four(aa, bb, cc, dd)
      BY <3>1, Zenon
    <3>3. \A bb, cc, dd \in OpSet : Behind(s.ops, a, bb, cc, dd) = s.ops \o Four(a, bb, cc, dd)
      BY <3>2, Zenon
    <3> QED BY <3>3, Zenon
  <2> QED BY <2>1 DEF Behind
<1> HIDE DEF four
<1>9. /\ Mid(s.rest, i) \in Seq(C) /\ Len(Mid(s.rest, i)) = IF i < Len(s.rest) THEN Len(s.rest) - i ELSE 0
  BY <1>2, <1>3, MidFacts
<1>10. /\ Left(Mid(s.rest, i), c.opLength) \in Seq(C)
       /\ Len(Left(Mid(s.rest, i), c.opLength)) =
            IF c.opLength < Len(Mid(s.rest, i)) THEN c.opLength ELSE Len(Mid(s.rest, i))
  BY <1>6, <1>9, LeftFacts
<1>11. /\ bank \in Seq(C) /\ Len(bank) = Len(s.bank) + Len(Left(Mid(s.rest, i), c.opLength))
  <2> DEFINE u == s.bank
             v == Left(Mid(s.rest, i), c.opLength)
  <2>1. u \in Seq(C) /\ v \in Seq(C)
    BY <1>3, <1>10
  <2> HIDE DEF u, v
  <2>2. u \o v \in Seq(C) /\ Len(u \o v) = Len(u) + Len(v)
    BY <2>1
  <2> QED BY <2>2 DEF u, v
<1>12. text \in Seq(C)
  BY <1>2, <1>3, <1>6, MidFacts
<1>13. /\ rest \in Seq(C)
       /\ Len(rest) = IF i + c.opLength + len < Len(s.rest) THEN Len(s.rest) - (i + c.opLength + len) ELSE 0
  <2>1. i + c.opLength + len \in Nat
    BY <1>2, <1>6
  <2> QED BY <1>3, <2>1, MidFacts
<1>14. s.ops \o four \in Ops /\ \A kind : Sum(s.ops \o four, kind) = Sum(s.ops, kind) + Sum(four, kind)
  BY <1>3, <1>7, SumConcat, OpsBasics
<1>15. t.ops = s.ops \o four /\ t.bank = bank /\ t.text = text /\ t.rest = rest /\ t.prevPart = <<>>
  BY <1>8
<1>16. t \in Scan(C)
  <2> HIDE DEF bank, text, rest
  <2> QED BY <1>8, <1>11, <1>12, <1>13, <1>14 DEF Scan
<1> HIDE DEF t
<1>17. Out(t) = s.ops \o four /\ Ahead(t) = text
  BY <1>15, <1>16, OutFacts
<1>18. /\ \A kind : Sum(Out(s), kind) = Sum(s.ops, kind) + Amount(del, kind)
  BY <1>3, SumAppend
<1>19. ASSUME op.opLength <= Len(s.rest)
       PROVE  Scans(s, op, t, i + len)
  <2>1. /\ Amount(a, InsertChars) = 0 /\ Amount(a, SkipOverChars) = 0
        /\ Amount(d, InsertChars) = 0 /\ Amount(d, SkipOverChars) = 0
        /\ Amount(b, InsertChars) = 0 /\ Amount(b, SkipOverChars) = del.opLength - (i + len)
        /\ Amount(c, InsertChars) = op.opLength - (i + len) /\ Amount(c, SkipOverChars) = 0
        /\ Amount(del, InsertChars) = 0 /\ Amount(del, SkipOverChars) = del.opLength
        /\ Amount(op, InsertChars) = op.opLength /\ Amount(op, SkipOverChars) = 0
    BY <1>3, <1>4, <1>5 DEF Amount, InsertChars, KeepChars, SkipOverChars
  <2>2. Sum(s.ops, InsertChars) \in Nat /\ Sum(s.ops, SkipOverChars) \in Nat
    BY <1>3, SumType
  <2>3. Len(s.bank) \in Nat /\ Len(s.rest) \in Nat
    BY <1>3
  <2>4. Len(t.bank) = Len(s.bank) + (op.opLength - (i + len)) /\ Len(t.rest) = Len(s.rest) - op.opLength
    <3>1. Len(Mid(s.rest, i)) = Len(s.rest) - i
      BY <1>2, <1>3, <1>9, <1>19, <2>3
    <3>2. Len(Left(Mid(s.rest, i), c.opLength)) = c.opLength
      BY <1>2, <1>3, <1>5, <1>6, <1>10, <1>19, <2>3, <3>1
    <3>3. i + c.opLength + len = op.opLength
      BY <1>2, <1>3, <1>5
    <3>4. Len(rest) = Len(s.rest) - op.opLength
      BY <1>3, <1>13, <1>19, <2>3, <3>3
    <3>5. Len(bank) = Len(s.bank) + (op.opLength - (i + len))
      BY <1>5, <1>11, <3>2
    <3> QED BY <1>15, <3>4, <3>5
  <2>5. Sum(Out(t), InsertChars) + (i + len) = Sum(Out(s), InsertChars) + Amount(op, InsertChars)
    <3>1. Sum(Out(t), InsertChars) = Sum(s.ops, InsertChars) + (op.opLength - (i + len))
      BY <1>2, <1>3, <1>7, <1>14, <1>17, <2>1, <2>2
    <3>2. Sum(Out(s), InsertChars) = Sum(s.ops, InsertChars)
      BY <1>18, <2>1, <2>2
    <3> QED BY <1>2, <1>3, <2>1, <2>2, <3>1, <3>2
  <2>6. Sum(Out(t), SkipOverChars) + (i + len) = Sum(Out(s), SkipOverChars) + Amount(op, SkipOverChars)
    <3>1. Sum(Out(t), SkipOverChars) = Sum(s.ops, SkipOverChars) + (del.opLength - (i + len))
      BY <1>2, <1>3, <1>7, <1>14, <1>17, <2>1, <2>2
    <3>2. Sum(Out(s), SkipOverChars) = Sum(s.ops, SkipOverChars) + del.opLength
      BY <1>18, <2>1
    <3> QED BY <1>2, <1>3, <2>1, <2>2, <3>1, <3>2
  <2>7. Len(t.bank) + (i + len) = Len(s.bank) + Amount(op, InsertChars)
    BY <1>2, <1>3, <2>1, <2>3, <2>4
  <2>8. Len(t.rest) + Amount(op, InsertChars) = Len(s.rest)
    BY <1>3, <2>1, <2>3, <2>4
  <2>9. i + len \in Nat
    BY <1>2
  <2>10. Sum(Out(t), KeepChars) = Sum(Out(s), KeepChars) + Amount(op, KeepChars) + (i + len)
    <3>1. /\ Amount(a, KeepChars) = i /\ Amount(b, KeepChars) = 0 /\ Amount(c, KeepChars) = 0
          /\ Amount(d, KeepChars) = len /\ Amount(del, KeepChars) = 0 /\ Amount(op, KeepChars) = 0
      BY <1>3, <1>4, <1>5 DEF Amount, InsertChars, KeepChars, SkipOverChars
    <3>2. Sum(s.ops, KeepChars) \in Nat
      BY <1>3, SumType
    <3>3. Sum(Out(t), KeepChars) = Sum(s.ops, KeepChars) + (i + len)
      BY <1>2, <1>7, <1>14, <1>17, <3>1, <3>2
    <3>4. Sum(Out(s), KeepChars) = Sum(s.ops, KeepChars)
      BY <1>18, <3>1, <3>2
    <3> QED BY <1>2, <3>1, <3>2, <3>3, <3>4
  <2> QED BY <2>5, <2>6, <2>7, <2>8, <2>9, <2>10 DEF Scans
<1>20. ASSUME i + len = 0
       PROVE  Copies(s, op, t)
  <2>1. i = 0 /\ len = 0 /\ b = del /\ c = op /\ a.opLength = 0 /\ d.opLength = 0 /\ Apart(s, op)
    BY <1>2, <1>4, <1>5, <1>20
  <2>2. t.bank \o t.rest = s.bank \o s.rest
    <3> DEFINE u == Left(s.rest, op.opLength)
               v == Mid(s.rest, op.opLength)
               w == s.bank
    <3>1. Mid(s.rest, i) = s.rest
      BY <1>3, <2>1, MidNone
    <3>2. bank = w \o u
      BY <2>1, <3>1
    <3>3. rest = v
      BY <1>3, <2>1
    <3>4. w \in Seq(C) /\ u \in Seq(C) /\ v \in Seq(C) /\ u \o v = s.rest
      BY <1>3, LeftFacts, MidFacts, LeftMid
    <3> HIDE DEF u, v, w, bank, rest
    <3>5. (w \o u) \o v = w \o (u \o v)
      <4> w \in Seq(C) /\ u \in Seq(C) /\ v \in Seq(C)
        BY <3>4
      <4> QED BY ConcatThree
    <3> QED BY <1>15, <3>2, <3>3, <3>4, <3>5 DEF w
  <2>3. Len(Out(t)) <= Len(Out(s)) + 1 /\ (Len(Out(t)) = Len(Out(s)) + 1 => Out(t) = Append(Out(s), op))
    <3> DEFINE o == s.ops
    <3>1. o \in Seq(OpSet) /\ four \in Seq(OpSet) /\ <<del>> \in Seq(OpSet) /\ <<op>> \in Seq(OpSet)
      BY <1>3, <1>7 DEF Ops
    <3>2. Len(four) <= 2 /\ (Len(four) = 2 => four = <<del>> \o <<op>>) /\ Len(four) \in Nat
      BY <1>7, <2>1, <3>1
    <3>3. Out(t) = o \o four /\ Out(s) = Append(o, del)
      BY <1>3, <1>17
    <3> HIDE DEF o
    <3>4. Len(Out(t)) = Len(o) + Len(four) /\ Len(Out(s)) = Len(o) + 1 /\ Len(o) \in Nat
      BY <3>1, <3>3
    <3>5. o \o (<<del>> \o <<op>>) = (o \o <<del>>) \o <<op>>
      BY <3>1, ConcatThree
    <3>6. (o \o <<del>>) \o <<op>> = Append(Append(o, del), op)
      BY <3>1
    <3>7. Len(four) = 2 => Out(t) = Append(Out(s), op)
      BY <3>2, <3>3, <3>5, <3>6, Zenon
    <3> DEFINE f == Len(Out(t))
               g == Len(Out(s))
               h == Len(four)
    <3>8. h \in Nat /\ h <= 2 /\ f = Len(o) + h /\ g = Len(o) + 1
      BY <3>2, <3>4
    <3> HIDE DEF f, g, h
    <3>9. f <= g + 1 /\ (f = g + 1 => h = 2)
      BY <3>4, <3>8
    <3> QED BY <3>7, <3>9 DEF f, g, h
  <2>4. Ahead(t) = Mid(Ahead(s), Amount(op, KeepChars) + Amount(op, SkipOverChars))
    <3>1. Amount(op, KeepChars) = 0 /\ Amount(op, SkipOverChars) = 0
      BY DEF Amount, InsertChars, KeepChars, SkipOverChars
    <3>2. Mid(Ahead(s), 0) = Ahead(s)
      BY <1>3, MidNone
    <3>3. i + b.opLength = del.opLength
      BY <1>3, <2>1
    <3> QED BY <1>3, <1>17, <3>1, <3>2, <3>3
  <2> QED BY <2>1, <2>2, <2>3, <2>4 DEF Copies
<1>21. op.opLength <= Len(s.rest) => \E cut : Scans(s, op, t, cut) /\ (cut = 0 => Copies(s, op, t))
  BY <1>19, <1>20
<1> QED BY <1>1, <1>16, <1>21

----------------------------------------------------------------------------
(* JS::optimize: the whole scan.                                           *)

\* One operation of the scan.
Steps(s, op, t) == \E cut : Scans(s, op, t, cut) /\ (cut = 0 => Copies(s, op, t))

\* One operation of the scan, whatever its kind.
LEMMA ScanStep ==
  ASSUME NEW C, NEW s \in Scan(C), NEW op \in OpSet
  PROVE  /\ OptimizeOp(s, op) \in Scan(C)
         /\ Amount(op, InsertChars) <= Len(s.rest) => Steps(s, op, OptimizeOp(s, op))
         /\ op.kind = SkipOverChars =>
              OptimizeOp(s, op).prevPart = <<op>> /\ OptimizeOp(s, op).text = Ahead(s)
<1>1. CASE op.kind = KeepChars
  <2>1. op.kind # SkipOverChars
    BY <1>1 DEF KeepChars, SkipOverChars
  <2> QED BY <1>1, <2>1, ScanKeeps DEF Steps
<1>2. CASE op.kind = SkipOverChars
  <2>1. OptimizeOp(s, op) \in Scan(C) /\ Steps(s, op, OptimizeOp(s, op))
    BY <1>2, ScanDeletes DEF Steps
  <2>2. OptimizeOp(s, op).prevPart = <<op>> /\ OptimizeOp(s, op).text = Ahead(s)
    <3> DEFINE w == [ops |-> Out(s), bank |-> s.bank, text |-> Ahead(s),
                     rest |-> s.rest, prevPart |-> <<>>]
    <3>1. OptimizeOp(s, op) = [w EXCEPT !.prevPart = <<op>>]
      BY <1>2, PrevPartWritten DEF OptimizeOp, InsertChars, KeepChars, SkipOverChars
    <3> QED BY <3>1
  <2> QED BY <2>1, <2>2
<1>3. CASE op.kind = InsertChars
  <2>1. op.kind # SkipOverChars /\ Amount(op, InsertChars) = op.opLength
    BY <1>3 DEF InsertChars, SkipOverChars, Amount
  <2>2. CASE s.prevPart = <<>>
    BY <1>3, <2>1, <2>2, ScanInserts DEF Steps
  <2>3. CASE s.prevPart # <<>>
    BY <1>3, <2>1, <2>3, ScanPair DEF Steps
  <2> QED BY <2>2, <2>3
<1> QED BY <1>1, <1>2, <1>3 DEF OpSet

\* F holds the states of the scan after the first 0, 1, ... operations.
Scanned(F, C, start, ops) ==
  /\ F \in [0 .. Len(ops) -> Scan(C)] /\ F[0] = start
  /\ \A i \in 1 .. Len(ops) : F[i] = OptimizeOp(F[i - 1], ops[i])

\* c with other operations and another bank.
With(c, ops, bank) == [c EXCEPT !.ops = ops, !.bank = bank]

\* JS::optimize goes through the states of the scan and ends with the last one.
LEMMA OptimizeRuns ==
  ASSUME NEW C, NEW c, c.ops \in Ops, c.bank \in Seq(C), NEW old \in Seq(C)
  PROVE  \E F : /\ Scanned(F, C, OptimizeStart(c, old), c.ops)
                /\ Optimize(c, old) = With(c, Out(F[Len(c.ops)]), F[Len(c.ops)].bank)
<1> DEFINE ops == c.ops
           n == Len(ops)
           start == OptimizeStart(c, old)
           Is(it) == it = [s \in SUBSET (DOMAIN ops) |->
                             IF s = {} THEN start
                             ELSE LET x == Max(s)
                                  IN  OptimizeOp(it[s \ {x}], ops[x])]
           it == CHOOSE f : Is(f)
           D == Scan(C)
           h == [p \in D \X OpSet |-> OptimizeOp(p[1], p[2])]
<1>1. n \in Nat /\ DOMAIN ops = 1 .. n /\ \A i \in 1 .. n : ops[i] \in OpSet
  BY DEF Ops
<1>2. Optimize(c, old) = [c EXCEPT !.ops = Out(it[DOMAIN ops]), !.bank = it[DOMAIN ops].bank]
  BY Zenon DEF FoldLeft, MapThenFoldSet, Optimize, Out
<1>3. h \in [D \X OpSet -> D] /\ \A s \in D, op \in OpSet : h[<<s, op>>] = OptimizeOp(s, op)
  BY ScanStep
<1>4. start \in D
  BY OpsBasics, EmptySeq DEF Scan, OptimizeStart
<1> HIDE DEF h, D, start
<1>5. IsFold(D, OpSet, start, ops, h)
  BY <1>1, <1>3, <1>4 DEF IsFold, Ops
<1>6. PICK f : Folds(f, D, start, ops, h)
  BY <1>5, FoldExists
<1>7. Is(f)
  <2>1. f \in [SUBSET (1 .. n) -> D] /\ \A s \in SUBSET (1 .. n) : s = {} => f[s] = start
    BY <1>6 DEF Folds
  <2>2. ASSUME NEW s \in SUBSET (1 .. n), s # {}
        PROVE  f[s] = OptimizeOp(f[s \ {Max(s)}], ops[Max(s)])
    <3>1. Max(s) \in 1 .. n
      BY <1>1, <2>2, GreatestMember
    <3>2. f[s \ {Max(s)}] \in D /\ ops[Max(s)] \in OpSet
      BY <1>1, <2>1, <3>1
    <3>3. f[s] = h[<<f[s \ {Max(s)}], ops[Max(s)]>>]
      BY <1>6, <2>2 DEF Folds
    <3> QED BY <1>3, <3>2, <3>3
  <2> QED BY <1>1, <2>1, <2>2, Zenon
<1>8. Is(it)
  <2> HIDE DEF Is
  <2> QED BY <1>7
<1> HIDE DEF it
<1>9. Loops(it, D, start, ops, h)
  <2>1. it[{}] = start
    BY <1>8
  <2>2. ASSUME NEW s \in SUBSET (1 .. n), s # {}, it[s \ {Max(s)}] \in D
        PROVE  it[s] = h[<<it[s \ {Max(s)}], ops[Max(s)]>>]
    <3>1. it[s] = OptimizeOp(it[s \ {Max(s)}], ops[Max(s)])
      BY <1>1, <1>8, <2>2, Zenon
    <3>2. ops[Max(s)] \in OpSet
      BY <1>1, <2>2, GreatestMember
    <3>3. h[<<it[s \ {Max(s)}], ops[Max(s)]>>] = OptimizeOp(it[s \ {Max(s)}], ops[Max(s)])
      BY <1>3, <2>2, <3>2
    <3> QED BY <3>1, <3>3
  <2> QED BY <2>1, <2>2 DEF Loops
<1>10. PICK F : Runs(F, D, start, ops, h) /\ F[n] = it[1 .. n]
  BY <1>5, <1>9, FoldRuns
<1>11. Scanned(F, C, start, ops)
  <2>1. F \in [0 .. n -> D] /\ F[0] = start /\ \A i \in 1 .. n : F[i] = h[<<F[i - 1], ops[i]>>]
    BY <1>10 DEF Runs
  <2>2. \A i \in 1 .. n : F[i - 1] \in D /\ ops[i] \in OpSet
    BY <1>1, <2>1
  <2>3. \A i \in 1 .. n : F[i] = OptimizeOp(F[i - 1], ops[i])
    BY <1>3, <2>1, <2>2
  <2> QED BY <2>1, <2>3 DEF Scanned, D
<1>12. Optimize(c, old) = With(c, Out(F[n]), F[n].bank)
  BY <1>1, <1>2, <1>10 DEF With
<1> QED BY <1>11, <1>12 DEF start

\* The counts grow.
LEMMA CountsGrow ==
  ASSUME NEW ops \in Ops, NEW kind, NEW F, Counts(F, ops, kind), NEW i \in 1 .. Len(ops)
  PROVE  /\ F[i] = F[i - 1] + Amount(ops[i], kind) /\ F[i - 1] \in Nat /\ F[i] \in Nat
         /\ F[i] <= F[Len(ops)]
<1> DEFINE n == Len(ops)
           T == {m \in 0 .. n : m >= i => F[i] <= F[m]}
<1>1. n \in Nat /\ \A m \in 1 .. n : ops[m] \in OpSet
  BY OpsBasics
<1>2. F \in [0 .. n -> Nat] /\ \A m \in 1 .. n : F[m] = F[m - 1] + Amount(ops[m], kind)
  BY DEF Counts
<1> HIDE DEF n
<1>3. 0 \in T
  BY <1>1
<1>4. ASSUME NEW m \in 0 .. n - 1, m \in T
      PROVE  m + 1 \in T
  <2> DEFINE j == m + 1
  <2>1. j \in 1 .. n /\ j - 1 = m /\ j \in 0 .. n /\ m \in 0 .. n
    BY <1>1
  <2>2. j >= i => j = i \/ m >= i
    BY <1>1 DEF n
  <2> HIDE DEF j
  <2>3. F[j] = F[m] + Amount(ops[j], kind) /\ F[m] \in Nat /\ F[j] \in Nat /\ Amount(ops[j], kind) \in Nat
    BY <1>1, <1>2, <2>1, AmountType
  <2>4. F[m] <= F[j]
    BY <2>3
  <2>5. F[i] \in Nat
    BY <1>2 DEF n
  <2>6. j >= i => F[i] <= F[j]
    BY <1>4, <2>2, <2>3, <2>4, <2>5
  <2>7. j \in T
    BY <2>1, <2>6
  <2> QED BY <2>7 DEF j
<1>5. n \in T
  <2> HIDE DEF T
  <2>1. 0 .. n \subseteq T
    BY <1>1, <1>3, <1>4, UpTo
  <2> QED BY <1>1, <2>1
<1>6. i \in 1 .. n /\ i - 1 \in 0 .. n /\ i \in 0 .. n /\ n >= i
  BY <1>1 DEF n
<1> QED BY <1>2, <1>5, <1>6 DEF n

\* What holds after operation j if nothing has been cut.
Untouched(F, c, old, P, M, K, j) ==
  /\ F[j].bank \o F[j].rest = c.bank
  /\ Len(F[j].bank) = P[j]
  /\ Ahead(F[j]) = Mid(old, K[j] + M[j])
  /\ j # 0 /\ c.ops[j].kind = InsertChars /\ F[j - 1].prevPart # <<>> => Apart(F[j - 1], c.ops[j])

Copied(F, c, old, P, M, K, i) ==
  /\ \A j \in 0 .. i : Untouched(F, c, old, P, M, K, j)
  /\ Len(Out(F[i])) <= i
  /\ Len(Out(F[i])) = i => \A k \in 1 .. i : Out(F[i])[k] = c.ops[k]

\* What holds after operation i: as many characters fewer are inserted as
\* are deleted, as many more are kept, and the bank written is that of the
\* operations written.
Reached(F, c, old, P, M, K, i) ==
  /\ Len(F[i].bank) = Sum(Out(F[i]), InsertChars)
  /\ Len(F[i].rest) + P[i] = Len(c.bank)
  /\ Sum(Out(F[i]), InsertChars) <= P[i]
  /\ Sum(Out(F[i]), InsertChars) + M[i] = Sum(Out(F[i]), SkipOverChars) + P[i]
  /\ Sum(Out(F[i]), KeepChars) + Sum(Out(F[i]), InsertChars) = K[i] + P[i]
  /\ Sum(Out(F[i]), InsertChars) = P[i] => Copied(F, c, old, P, M, K, i)

ScanOf(C, c, old, F, P, M, K) ==
  /\ c.ops \in Ops /\ c.bank \in Seq(C) /\ old \in Seq(C)
  /\ Len(c.bank) = Sum(c.ops, InsertChars)
  /\ Scanned(F, C, OptimizeStart(c, old), c.ops)
  /\ Counts(P, c.ops, InsertChars) /\ Sum(c.ops, InsertChars) = P[Len(c.ops)]
  /\ Counts(M, c.ops, SkipOverChars) /\ Counts(K, c.ops, KeepChars)

\* It holds at the start ...
LEMMA StartReached ==
  ASSUME NEW C, NEW c, NEW old, NEW F, NEW P, NEW M, NEW K, ScanOf(C, c, old, F, P, M, K)
  PROVE  Reached(F, c, old, P, M, K, 0)
<1> DEFINE s == OptimizeStart(c, old)
<1>1. s \in Scan(C) /\ s.bank = <<>> /\ s.rest = c.bank /\ s.text = old /\ s.prevPart = <<>> /\ s.ops = <<>>
  <2>1. c.bank \in Seq(C) /\ old \in Seq(C)
    BY DEF ScanOf
  <2> QED BY <2>1, OpsBasics, EmptySeq DEF Scan, OptimizeStart
<1>2. F[0] = s /\ P[0] = 0 /\ M[0] = 0 /\ K[0] = 0
  BY DEF ScanOf, Scanned, Counts
<1> HIDE DEF s
<1>3. Out(s) = <<>> /\ Ahead(s) = old
  BY <1>1, OutFacts
<1>4. Sum(<<>>, InsertChars) = 0 /\ Sum(<<>>, SkipOverChars) = 0 /\ Sum(<<>>, KeepChars) = 0
  BY SumNone
<1>5. c.bank \in Seq(C) /\ old \in Seq(C) /\ Len(<<>>) = 0 /\ Len(c.bank) \in Nat
  BY DEF ScanOf
<1>6. <<>> \o c.bank = c.bank
  BY <1>5
<1>7. Mid(old, 0) = old
  BY <1>5, MidNone
<1>8. Untouched(F, c, old, P, M, K, 0)
  <2>1. K[0] + M[0] = 0
    BY <1>2
  <2>2. F[0].bank \o F[0].rest = c.bank /\ Len(F[0].bank) = P[0]
    BY <1>1, <1>2, <1>5, <1>6
  <2>3. Ahead(F[0]) = Mid(old, K[0] + M[0])
    BY <1>2, <1>3, <1>7, <2>1
  <2> QED BY <2>2, <2>3 DEF Untouched
<1>9. Copied(F, c, old, P, M, K, 0)
  BY <1>2, <1>3, <1>5, <1>8 DEF Copied
<1> QED BY <1>1, <1>2, <1>3, <1>4, <1>5, <1>9 DEF Reached

\* ... after every operation ...
LEMMA NextReached ==
  ASSUME NEW C, NEW c, NEW old, NEW F, NEW P, NEW M, NEW K, ScanOf(C, c, old, F, P, M, K),
         NEW j \in 1 .. Len(c.ops), Reached(F, c, old, P, M, K, j - 1)
  PROVE  Reached(F, c, old, P, M, K, j)
<1> DEFINE i == j - 1
           op == c.ops[j]
           s == F[i]
           t == F[j]
           a == Amount(op, InsertChars)
           b == Amount(op, SkipOverChars)
           e == Amount(op, KeepChars)
<1>1. i \in Nat /\ j \in Nat /\ j = i + 1 /\ i \in 0 .. Len(c.ops) /\ j \in 0 .. Len(c.ops) /\ Len(c.ops) \in Nat
  BY OpsBasics DEF ScanOf
<1>2. op \in OpSet /\ s \in Scan(C) /\ t = OptimizeOp(s, op)
  BY <1>1, OpsBasics DEF ScanOf, Scanned
<1>3. /\ P[j] = P[i] + a /\ P[i] \in Nat /\ P[j] \in Nat /\ P[j] <= Len(c.bank)
      /\ M[j] = M[i] + b /\ M[i] \in Nat /\ M[j] \in Nat
      /\ K[j] = K[i] + e /\ K[i] \in Nat /\ K[j] \in Nat
  BY CountsGrow DEF ScanOf
<1>4. a \in Nat /\ b \in Nat /\ e \in Nat
  BY <1>2, AmountType
<1>5. /\ Len(s.bank) = Sum(Out(s), InsertChars)
      /\ Len(s.rest) + P[i] = Len(c.bank)
      /\ Sum(Out(s), InsertChars) <= P[i]
      /\ Sum(Out(s), InsertChars) + M[i] = Sum(Out(s), SkipOverChars) + P[i]
      /\ Sum(Out(s), InsertChars) = P[i] => Copied(F, c, old, P, M, K, i)
  BY DEF Reached
<1> DEFINE so == Out(s)
           to == Out(t)
<1> HIDE DEF op, a, b, e, s, t, i
<1>6. /\ so \in Ops /\ s.bank \in Seq(C) /\ s.rest \in Seq(C) /\ Ahead(s) \in Seq(C)
      /\ Len(s.bank) \in Nat /\ Len(s.rest) \in Nat
  BY <1>2, OutFacts
<1>7. t \in Scan(C)
  BY <1>2, ScanStep
<1>8. to \in Ops /\ t.bank \in Seq(C) /\ t.rest \in Seq(C) /\ Len(t.bank) \in Nat /\ Len(t.rest) \in Nat
  BY <1>7, OutFacts
<1>9. /\ Sum(so, InsertChars) \in Nat /\ Sum(so, SkipOverChars) \in Nat
      /\ Sum(to, InsertChars) \in Nat /\ Sum(to, SkipOverChars) \in Nat
  BY <1>6, <1>8, SumType
<1>10. Len(c.bank) \in Nat
  BY DEF ScanOf
<1>11. Amount(op, InsertChars) <= Len(s.rest)
  BY <1>3, <1>4, <1>5, <1>6, <1>10 DEF a
<1>12. PICK cut : Scans(s, op, t, cut) /\ (cut = 0 => Copies(s, op, t))
  BY <1>2, <1>11, ScanStep DEF Steps
<1>13. /\ cut \in Nat
       /\ Sum(to, InsertChars) + cut = Sum(so, InsertChars) + a
       /\ Sum(to, SkipOverChars) + cut = Sum(so, SkipOverChars) + b
       /\ Len(t.bank) + cut = Len(s.bank) + a
       /\ Len(t.rest) + a = Len(s.rest)
  BY <1>12 DEF Scans, a, b
<1>14. Sum(to, KeepChars) = Sum(so, KeepChars) + e + cut
  BY <1>12 DEF Scans, e
<1> HIDE DEF so, to
<1>15. Len(t.bank) = Sum(to, InsertChars)
  BY <1>4, <1>5, <1>6, <1>8, <1>9, <1>13 DEF so
<1>16. Len(t.rest) + P[j] = Len(c.bank)
  <2>1. PICK p \in Nat, q \in Nat, x \in Nat, y \in Nat : p = P[i] /\ q = P[j] /\ x = Len(s.rest) /\ y = Len(t.rest)
    BY <1>3, <1>6, <1>8
  <2>2. q = p + a /\ x + p = Len(c.bank) /\ y + a = x
    BY <1>3, <1>5, <1>13, <2>1
  <2>3. y + q = Len(c.bank)
    BY <1>4, <1>10, <2>2
  <2> QED BY <2>1, <2>3
<1>17. Sum(to, InsertChars) <= P[j]
  <2>1. PICK p \in Nat, q \in Nat, x \in Nat, y \in Nat :
          p = P[i] /\ q = P[j] /\ x = Sum(so, InsertChars) /\ y = Sum(to, InsertChars)
    BY <1>3, <1>9
  <2>2. q = p + a /\ x <= p /\ y + cut = x + a
    BY <1>3, <1>5, <1>13, <2>1 DEF so
  <2>3. y <= q
    BY <1>4, <1>13, <2>2
  <2> QED BY <2>1, <2>3
<1>18. Sum(to, InsertChars) + M[j] = Sum(to, SkipOverChars) + P[j]
  <2>1. Sum(so, InsertChars) + M[i] = Sum(so, SkipOverChars) + P[i]
    BY <1>5 DEF so
  <2>2. PICK p \in Nat, q \in Nat, m \in Nat, r \in Nat : p = P[i] /\ q = P[j] /\ m = M[i] /\ r = M[j]
    BY <1>3
  <2>3. PICK x \in Nat, y \in Nat, v \in Nat, w \in Nat :
          /\ x = Sum(so, InsertChars) /\ y = Sum(so, SkipOverChars)
          /\ v = Sum(to, InsertChars) /\ w = Sum(to, SkipOverChars)
    BY <1>9
  <2>4. q = p + a /\ r = m + b /\ x + m = y + p /\ v + cut = x + a /\ w + cut = y + b
    BY <1>3, <1>13, <2>1, <2>2, <2>3
  <2>5. v + r = w + q
    BY <1>4, <1>13, <2>4
  <2> QED BY <2>2, <2>3, <2>5
<1>19. ASSUME Sum(to, InsertChars) = P[j]
       PROVE  Copied(F, c, old, P, M, K, j)
  <2>1. cut = 0 /\ Sum(so, InsertChars) = P[i]
    BY <1>3, <1>4, <1>5, <1>9, <1>13, <1>19 DEF so
  <2>2. Copied(F, c, old, P, M, K, i)
    BY <1>5, <2>1 DEF so
  <2>3. /\ t.bank \o t.rest = s.bank \o s.rest
        /\ Len(to) <= Len(so) + 1
        /\ Len(to) = Len(so) + 1 => to = Append(so, op)
        /\ Ahead(t) = Mid(Ahead(s), e + b)
        /\ op.kind = InsertChars /\ s.prevPart # <<>> => Apart(s, op)
    BY <1>12, <2>1 DEF Copies, so, to, e, b
  <2>4. /\ s.bank \o s.rest = c.bank /\ Ahead(s) = Mid(old, K[i] + M[i])
    <3>1. Untouched(F, c, old, P, M, K, i)
      BY <1>1, <2>2 DEF Copied
    <3> QED BY <3>1 DEF Untouched, s
  <2>5. Ahead(t) = Mid(old, K[j] + M[j])
    <3>1. K[i] + M[i] \in Nat /\ e + b \in Nat /\ (K[i] + M[i]) + (e + b) = K[j] + M[j]
      <4>1. PICK k \in Nat, l \in Nat, m \in Nat, r \in Nat : k = K[i] /\ l = K[j] /\ m = M[i] /\ r = M[j]
        BY <1>3
      <4>2. l = k + e /\ r = m + b
        BY <1>3, <4>1
      <4>3. k + m \in Nat /\ e + b \in Nat /\ (k + m) + (e + b) = l + r
        BY <1>4, <4>2
      <4> QED BY <4>1, <4>3
    <3>2. old \in Seq(C)
      BY DEF ScanOf
    <3>3. Mid(Mid(old, K[i] + M[i]), e + b) = Mid(old, (K[i] + M[i]) + (e + b))
      BY <3>1, <3>2, MidMid
    <3> QED BY <2>3, <2>4, <3>1, <3>3
  <2>6. Untouched(F, c, old, P, M, K, j)
    <3>1. Len(t.bank) = P[j]
      BY <1>15, <1>19
    <3>2. t.bank \o t.rest = c.bank
      BY <2>3, <2>4
    <3> QED BY <2>3, <2>5, <3>1, <3>2 DEF Untouched, t, s, op, i
  <2>7. /\ \A k \in 0 .. i : Untouched(F, c, old, P, M, K, k)
        /\ Len(so) <= i
        /\ Len(so) = i => \A k \in 1 .. i : so[k] = c.ops[k]
    BY <2>2 DEF Copied, so, s
  <2>8. \A k \in 0 .. j : Untouched(F, c, old, P, M, K, k)
    <3> TAKE k \in 0 .. j
    <3>1. k = j \/ k \in 0 .. i
      BY <1>1
    <3> QED BY <2>6, <2>7, <3>1
  <2>9. Len(so) \in Nat /\ Len(to) \in Nat /\ so \in Seq(OpSet)
    BY <1>6, <1>8 DEF Ops
  <2>10. Len(to) <= j
    BY <1>1, <2>3, <2>7, <2>9
  <2>11. ASSUME Len(to) = j
         PROVE  \A k \in 1 .. j : to[k] = c.ops[k]
    <3>1. Len(so) = i /\ to = Append(so, op)
      BY <1>1, <2>3, <2>7, <2>9, <2>11
    <3> TAKE k \in 1 .. j
    <3>2. CASE k = j
      <4>1. to[j] = op
        BY <1>1, <1>2, <2>9, <3>1
      <4> QED BY <3>2, <4>1 DEF op
    <3>3. CASE k # j
      <4>1. k \in 1 .. i
        BY <1>1, <3>3
      <4>2. to[k] = so[k]
        BY <1>1, <1>2, <2>9, <3>1, <4>1
      <4> QED BY <2>7, <3>1, <4>1, <4>2
    <3> QED BY <3>2, <3>3
  <2> QED BY <2>8, <2>10, <2>11 DEF Copied, to, t
<1>20. Sum(to, KeepChars) + Sum(to, InsertChars) = K[j] + P[j]
  <2>1. Sum(so, KeepChars) + Sum(so, InsertChars) = K[i] + P[i]
    BY DEF Reached, so, s, i
  <2>2. PICK p \in Nat, q \in Nat, m \in Nat, r \in Nat : p = P[i] /\ q = P[j] /\ m = K[i] /\ r = K[j]
    BY <1>3
  <2>3. PICK x \in Nat, y \in Nat, v \in Nat, w \in Nat :
          /\ x = Sum(so, InsertChars) /\ y = Sum(so, KeepChars)
          /\ v = Sum(to, InsertChars) /\ w = Sum(to, KeepChars)
    <3>1. Sum(so, KeepChars) \in Nat /\ Sum(to, KeepChars) \in Nat
      BY <1>6, <1>8, SumType
    <3> QED BY <1>9, <3>1
  <2>4. q = p + a /\ r = m + e /\ y + x = m + p /\ v + cut = x + a /\ w = y + e + cut
    BY <1>3, <1>13, <1>14, <2>1, <2>2, <2>3
  <2>5. w + v = r + q
    BY <1>4, <1>13, <2>4
  <2> QED BY <2>2, <2>3, <2>5
<1> QED BY <1>15, <1>16, <1>17, <1>18, <1>19, <1>20 DEF Reached, to, t

\* ... and at the end.
LEMMA AllReached ==
  ASSUME NEW C, NEW c, NEW old, NEW F, NEW P, NEW M, NEW K, ScanOf(C, c, old, F, P, M, K)
  PROVE  Reached(F, c, old, P, M, K, Len(c.ops))
<1> DEFINE n == Len(c.ops)
           T == {i \in 0 .. n : Reached(F, c, old, P, M, K, i)}
<1>1. n \in Nat
  BY OpsBasics DEF ScanOf
<1>2. 0 \in T
  BY <1>1, StartReached
<1>3. ASSUME NEW i \in 0 .. n - 1, i \in T
      PROVE  i + 1 \in T
  <2> DEFINE j == i + 1
  <2>1. j \in 1 .. n /\ j - 1 = i /\ j \in 0 .. n
    BY <1>1
  <2> HIDE DEF j
  <2>2. j \in T
    BY <1>3, <2>1, NextReached
  <2> QED BY <2>2 DEF j
<1>4. 0 .. n \subseteq T
  <2> HIDE DEF T, n
  <2> QED BY <1>1, <1>2, <1>3, UpTo
<1> QED BY <1>1, <1>4

\* The members of a changeset, and that collapse changes the operations only.
LEMMA ChangesetFacts ==
  ASSUME NEW C, NEW c \in ChangesetSet(C)
  PROVE  /\ c.ops \in Ops /\ c.bank \in Seq(C) /\ c.oldLength \in Nat /\ c.newLength \in Nat
         /\ With(c, c.ops, c.bank) = c
         /\ Collapse(c) = With(c, CollapseOps(c.ops), c.bank)
BY DEF ChangesetSet, Ops, Collapse, With

\* A changeset with other members is one.
LEMMA ChangesetWith ==
  ASSUME NEW C, NEW c \in ChangesetSet(C), NEW ops \in Ops, NEW bank \in Seq(C)
  PROVE  /\ With(c, ops, bank) \in ChangesetSet(C)
         /\ With(c, ops, bank).ops = ops /\ With(c, ops, bank).bank = bank
         /\ With(c, ops, bank).oldLength = c.oldLength /\ With(c, ops, bank).newLength = c.newLength
BY DEF ChangesetSet, Ops, With

\* The sum of a list's beginning.
LEMMA SumPrefix ==
  ASSUME NEW ops \in Ops, NEW kind, NEW F, Counts(F, ops, kind), NEW m \in 0 .. Len(ops)
  PROVE  Sum(SubSeq(ops, 1, m), kind) = F[m]
<1> DEFINE a == SubSeq(ops, 1, m)
<1>1. m \in Nat /\ m <= Len(ops) /\ Len(ops) \in Nat
  BY OpsBasics
<1>2. a \in Ops /\ Len(a) = m /\ \A i \in 1 .. m : a[i] = ops[i]
  BY <1>1 DEF Ops
<1> HIDE DEF a
<1>3. PICK G : Counts(G, a, kind) /\ Sum(a, kind) = G[Len(a)]
  BY <1>2, SumSteps
<1>4. G[m] = F[m]
  <2>1. m <= Len(a)
    BY <1>1, <1>2
  <2> QED BY <1>1, <1>2, <1>3, <2>1, CountsUnique
<1> QED BY <1>2, <1>3, <1>4 DEF a

\* mid behind the first of two texts is the second.
LEMMA MidBehind ==
  ASSUME NEW S, NEW a \in Seq(S), NEW b \in Seq(S)
  PROVE  Mid(a \o b, Len(a)) = b
<1> DEFINE u == a \o b
           m == Mid(u, Len(a))
<1>1. /\ u \in Seq(S) /\ Len(u) = Len(a) + Len(b) /\ Len(a) \in Nat /\ Len(b) \in Nat
      /\ \A i \in 1 .. Len(b) : u[Len(a) + i] = b[i]
  OBVIOUS
<1> HIDE DEF u
<1>2. /\ m \in Seq(S) /\ Len(m) = IF Len(a) < Len(u) THEN Len(u) - Len(a) ELSE 0
      /\ \A i \in 1 .. Len(m) : m[i] = u[Len(a) + i]
  BY <1>1, MidFacts
<1> HIDE DEF m
<1>3. Len(m) = Len(b)
  BY <1>1, <1>2
<1>4. \A i \in 1 .. Len(m) : m[i] = b[i]
  BY <1>1, <1>2, <1>3
<1> QED BY <1>2, <1>3, <1>4, SeqEqual DEF m, u

\* No '-' '+' couple deletes and inserts a common first or last character.
CouplesApart(c) ==
  \A i \in Replacements(c.ops) :
    /\ CommonPrefix(Covered(c, i), Covered(c, i + 1)) = 0
    /\ CommonSuffix(Covered(c, i), Covered(c, i + 1)) = 0

\* If optimize cuts nothing, no '-' '+' couple has an end in common: the bank
\* and the text it compares are where Covered looks.
LEMMA UntouchedApart ==
  ASSUME NEW C, NEW c, NEW F, NEW P, NEW M, NEW K, ScanOf(C, c, oldText, F, P, M, K),
         \A j \in 0 .. Len(c.ops) : Untouched(F, c, oldText, P, M, K, j)
  PROVE  CouplesApart(c)
<1> DEFINE n == Len(c.ops)
<1>1. c.ops \in Ops /\ n \in Nat /\ oldText \in Seq(C) /\ c.bank \in Seq(C)
      /\ \A i \in 1 .. n : c.ops[i] \in OpSet
  BY OpsBasics DEF ScanOf
<1> SUFFICES ASSUME NEW i \in Replacements(c.ops)
             PROVE  /\ CommonPrefix(Covered(c, i), Covered(c, i + 1)) = 0
                    /\ CommonSuffix(Covered(c, i), Covered(c, i + 1)) = 0
  BY DEF CouplesApart
<1> DEFINE l == i - 1
           j == i + 1
           del == c.ops[i]
           ins == c.ops[j]
<1>2. i \in 1 .. n - 1 /\ del.kind = SkipOverChars /\ ins.kind = InsertChars
  BY DEF Replacements
<1>3. /\ i \in 1 .. n /\ j \in 1 .. n /\ l \in 0 .. n /\ i \in 0 .. n /\ j \in 0 .. n
      /\ j # 0 /\ j - 1 = i /\ i - 1 = l
  BY <1>1, <1>2
<1>4. del \in OpSet /\ F[l] \in Scan(C) /\ F[i] \in Scan(C) /\ F[i] = OptimizeOp(F[l], del)
  BY <1>1, <1>3 DEF ScanOf, Scanned
<1>5. F[i].prevPart = <<del>> /\ F[i].text = Ahead(F[l])
  BY <1>2, <1>4, ScanStep
<1>6. Ahead(F[l]) = Mid(oldText, K[l] + M[l])
  <2>1. Untouched(F, c, oldText, P, M, K, l)
    BY <1>3
  <2> QED BY <2>1 DEF Untouched
<1> HIDE DEF j, l
<1>7. F[i].rest = Mid(c.bank, P[i])
  <2>1. F[i].bank \o F[i].rest = c.bank /\ Len(F[i].bank) = P[i]
    BY <1>3 DEF Untouched
  <2>2. F[i].bank \in Seq(C) /\ F[i].rest \in Seq(C)
    BY <1>4, OutFacts
  <2> QED BY <2>1, <2>2, MidBehind
<1>8. Apart(F[i], ins)
  <2>1. Untouched(F, c, oldText, P, M, K, j)
    BY <1>3
  <2>2. F[j - 1].prevPart # <<>>
    <3>1. <<del>> # <<>>
      OBVIOUS
    <3> QED BY <1>3, <1>5, <3>1
  <2> QED BY <1>2, <1>3, <2>1, <2>2 DEF Untouched
<1>9. /\ Sum(SubSeq(c.ops, 1, l), KeepChars) = K[l] /\ Sum(SubSeq(c.ops, 1, l), SkipOverChars) = M[l]
      /\ Sum(SubSeq(c.ops, 1, i), InsertChars) = P[i]
  BY <1>1, <1>3, SumPrefix DEF ScanOf
<1>10. Before(c, i, KeepChars) = K[l] /\ Before(c, i, SkipOverChars) = M[l] /\ Before(c, j, InsertChars) = P[i]
  BY <1>3, <1>9 DEF Before, Sum
<1>11. Covered(c, i) = Left(F[i].text, del.opLength)
  <2>1. del.kind # InsertChars
    BY <1>2 DEF InsertChars, SkipOverChars
  <2> QED BY <1>5, <1>6, <1>10, <2>1 DEF Covered
<1>12. Covered(c, j) = Left(F[i].rest, ins.opLength)
  BY <1>2, <1>7, <1>10 DEF Covered
<1>13. F[i].prevPart[1] = del
  BY <1>5
<1> HIDE DEF del, ins
<1>14. CommonPrefix(Covered(c, i), Covered(c, j)) = 0 /\ CommonSuffix(Covered(c, i), Covered(c, j)) = 0
  BY <1>8, <1>11, <1>12, <1>13 DEF Apart
<1> QED BY <1>14 DEF j

----------------------------------------------------------------------------
(* The passes and the round, as changesets in and out.                     *)

\* The bank holds what the '+' operations insert.
Balanced(c) == Len(c.bank) = Sum(c.ops, InsertChars)

\* What d saves of c, it saves on both sides.
Saves(c, d) ==
  /\ Sum(d.ops, InsertChars) <= Sum(c.ops, InsertChars)
  /\ Sum(c.ops, InsertChars) + Sum(d.ops, SkipOverChars) = Sum(c.ops, SkipOverChars) + Sum(d.ops, InsertChars)

\* JS::optimize keeps the bank in step, saves on both sides, and, if it saves
\* nothing, writes no more operations than there were; if as many, it changes
\* nothing, and no couple has an end in common.
LEMMA OptimizeFacts ==
  ASSUME NEW C, NEW c \in ChangesetSet(C), Balanced(c), oldText \in Seq(C)
  PROVE  LET r == Optimize(c, oldText)
         IN  /\ r \in ChangesetSet(C) /\ Balanced(r) /\ Saves(c, r)
             /\ Sum(r.ops, KeepChars) + Sum(r.ops, InsertChars) = Sum(c.ops, KeepChars) + Sum(c.ops, InsertChars)
             /\ r.oldLength = c.oldLength /\ r.newLength = c.newLength
             /\ Sum(r.ops, InsertChars) = Sum(c.ops, InsertChars) =>
                  /\ Len(r.ops) <= Len(c.ops)
                  /\ Len(r.ops) = Len(c.ops) => r = c /\ CouplesApart(c)
<1> DEFINE n == Len(c.ops)
           r == Optimize(c, oldText)
<1>1. c.ops \in Ops /\ c.bank \in Seq(C) /\ n \in Nat /\ Len(c.bank) \in Nat
  <2>1. c.ops \in Ops /\ c.bank \in Seq(C)
    BY ChangesetFacts
  <2> QED BY <2>1, OpsBasics
<1>2. PICK F : /\ Scanned(F, C, OptimizeStart(c, oldText), c.ops)
               /\ r = With(c, Out(F[n]), F[n].bank)
  BY <1>1, OptimizeRuns
<1> HIDE DEF r
<1>3. PICK P : Counts(P, c.ops, InsertChars) /\ Sum(c.ops, InsertChars) = P[n]
  BY <1>1, SumSteps
<1>4. PICK M : Counts(M, c.ops, SkipOverChars) /\ Sum(c.ops, SkipOverChars) = M[n]
  BY <1>1, SumSteps
<1>5. PICK K : Counts(K, c.ops, KeepChars) /\ Sum(c.ops, KeepChars) = K[n]
  BY <1>1, SumSteps
<1>6. ScanOf(C, c, oldText, F, P, M, K)
  BY <1>1, <1>2, <1>3, <1>4, <1>5 DEF ScanOf, Balanced
<1>7. Reached(F, c, oldText, P, M, K, n)
  BY <1>6, AllReached
<1>8. n \in 0 .. n /\ F[n] \in Scan(C)
  BY <1>1, <1>2 DEF Scanned
<1>9. Out(F[n]) \in Ops /\ F[n].bank \in Seq(C) /\ F[n].rest \in Seq(C)
  BY <1>8, OutFacts
<1>10. /\ r \in ChangesetSet(C) /\ r.ops = Out(F[n]) /\ r.bank = F[n].bank
       /\ r.oldLength = c.oldLength /\ r.newLength = c.newLength
  BY <1>2, <1>9, ChangesetWith
<1>11. Balanced(r)
  BY <1>7, <1>10 DEF Reached, Balanced
<1>12. Saves(c, r)
  <2>1. Sum(r.ops, InsertChars) \in Nat /\ Sum(r.ops, SkipOverChars) \in Nat
        /\ Sum(c.ops, InsertChars) \in Nat /\ Sum(c.ops, SkipOverChars) \in Nat
    BY <1>1, <1>9, <1>10, SumType
  <2>2. /\ Sum(r.ops, InsertChars) <= Sum(c.ops, InsertChars)
        /\ Sum(r.ops, InsertChars) + Sum(c.ops, SkipOverChars) = Sum(r.ops, SkipOverChars) + Sum(c.ops, InsertChars)
    BY <1>3, <1>4, <1>7, <1>10 DEF Reached
  <2> QED BY <2>1, <2>2 DEF Saves
<1>13. ASSUME Sum(r.ops, InsertChars) = Sum(c.ops, InsertChars)
       PROVE  /\ Len(r.ops) <= n
              /\ Len(r.ops) = n => r = c /\ CouplesApart(c)
  <2>1. Copied(F, c, oldText, P, M, K, n)
    BY <1>3, <1>7, <1>10, <1>13 DEF Reached
  <2>2. /\ \A j \in 0 .. n : Untouched(F, c, oldText, P, M, K, j)
        /\ Len(r.ops) <= n
        /\ Len(r.ops) = n => \A k \in 1 .. n : r.ops[k] = c.ops[k]
    BY <1>10, <2>1 DEF Copied
  <2>3. CouplesApart(c)
    BY <1>6, <2>2, UntouchedApart
  <2>4. r.bank = c.bank
    <3> DEFINE b == F[n].bank
               e == F[n].rest
    <3>1. b \o e = c.bank /\ Len(b) = Sum(c.ops, InsertChars)
      BY <1>3, <1>8, <2>2 DEF Untouched
    <3>2. b \in Seq(C) /\ e \in Seq(C)
      BY <1>9
    <3> HIDE DEF b, e
    <3>3. Len(b \o e) = Len(b) + Len(e) /\ Len(b) \in Nat /\ Len(e) \in Nat
      BY <3>2
    <3>4. Len(e) = 0
      BY <3>1, <3>3 DEF Balanced
    <3>5. e = <<>>
      BY <3>2, <3>4
    <3>6. b \o <<>> = b
      BY <3>2
    <3> QED BY <1>10, <3>1, <3>5, <3>6 DEF b
  <2>5. ASSUME Len(r.ops) = n
        PROVE  r = c
    <3>1. r.ops = c.ops
      <4>1. r.ops \in Seq(OpSet) /\ c.ops \in Seq(OpSet)
        BY <1>1, <1>9, <1>10 DEF Ops
      <4>2. \A k \in 1 .. Len(r.ops) : r.ops[k] = c.ops[k]
        BY <2>2, <2>5
      <4> QED BY <2>5, <4>1, <4>2, SeqEqual
    <3>2. r = With(c, c.ops, c.bank)
      BY <1>2, <1>10, <2>4, <3>1
    <3> QED BY <3>2, ChangesetFacts
  <2> QED BY <2>2, <2>3, <2>5
<1>14. Sum(r.ops, KeepChars) + Sum(r.ops, InsertChars) = Sum(c.ops, KeepChars) + Sum(c.ops, InsertChars)
  BY <1>3, <1>5, <1>7, <1>10 DEF Reached
<1> QED BY <1>10, <1>11, <1>12, <1>13, <1>14 DEF r

\* JS::collapse saves no character and writes no more operations than there
\* were; if as many, it changes nothing, and there is nothing to merge or drop.
LEMMA CollapseFacts ==
  ASSUME NEW C, NEW c \in ChangesetSet(C), Balanced(c)
  PROVE  LET d == Collapse(c)
         IN  /\ d \in ChangesetSet(C) /\ Balanced(d) /\ Saves(c, d)
             /\ Sum(d.ops, InsertChars) = Sum(c.ops, InsertChars)
             /\ Sum(d.ops, KeepChars) <= Sum(c.ops, KeepChars)
             /\ d.oldLength = c.oldLength /\ d.newLength = c.newLength
             /\ Len(d.ops) <= Len(c.ops)
             /\ Len(d.ops) = Len(c.ops) => d = c /\ Compact(c.ops)
<1> DEFINE d == Collapse(c)
<1>1. c.ops \in Ops /\ c.bank \in Seq(C) /\ d = With(c, CollapseOps(c.ops), c.bank)
  BY ChangesetFacts
<1> HIDE DEF d
<1>2. CollapseOps(c.ops) \in Ops /\ Sum(CollapseOps(c.ops), InsertChars) = Sum(c.ops, InsertChars)
      /\ Sum(CollapseOps(c.ops), SkipOverChars) = Sum(c.ops, SkipOverChars)
      /\ Sum(CollapseOps(c.ops), KeepChars) <= Sum(c.ops, KeepChars)
  <2>1. InsertChars # KeepChars /\ SkipOverChars # KeepChars
    BY DEF InsertChars, KeepChars, SkipOverChars
  <2> QED BY <1>1, <2>1, CollapseSums
<1>3. /\ d \in ChangesetSet(C) /\ d.ops = CollapseOps(c.ops) /\ d.bank = c.bank
      /\ d.oldLength = c.oldLength /\ d.newLength = c.newLength
  BY <1>1, <1>2, ChangesetWith
<1>4. Sum(c.ops, InsertChars) \in Nat /\ Sum(c.ops, SkipOverChars) \in Nat
  BY <1>1, SumType
<1>5. Balanced(d) /\ Saves(c, d)
  BY <1>2, <1>3, <1>4 DEF Balanced, Saves
<1>6. /\ Len(d.ops) <= Len(c.ops)
      /\ Len(d.ops) = Len(c.ops) => Compact(c.ops) /\ d.ops = c.ops
  BY <1>1, <1>3, CollapseShorter
<1>7. d.ops = c.ops => d = c
  <2> SUFFICES ASSUME d.ops = c.ops PROVE d = c
    OBVIOUS
  <2>1. CollapseOps(c.ops) = c.ops
    BY <1>3
  <2>2. d = With(c, c.ops, c.bank)
    BY <1>1, <2>1
  <2> QED BY <2>2, ChangesetFacts
<1> QED BY <1>2, <1>3, <1>5, <1>6, <1>7 DEF d

\* One round of the loop.
LEMMA RoundFacts ==
  ASSUME NEW C, NEW c \in ChangesetSet(C), Balanced(c), oldText \in Seq(C)
  PROVE  LET e == Collapse(Optimize(Collapse(c), oldText))
         IN  /\ Saves(c, e)
             /\ Sum(e.ops, InsertChars) = Sum(c.ops, InsertChars) =>
                  /\ Len(e.ops) <= Len(c.ops)
                  /\ Len(e.ops) = Len(c.ops) => e = c /\ Compact(c.ops) /\ CouplesApart(c)
<1> DEFINE d == Collapse(c)
           r == Optimize(d, oldText)
           e == Collapse(r)
<1>1. /\ d \in ChangesetSet(C) /\ Balanced(d) /\ Saves(c, d)
      /\ Sum(d.ops, InsertChars) = Sum(c.ops, InsertChars)
      /\ Len(d.ops) <= Len(c.ops)
      /\ Len(d.ops) = Len(c.ops) => d = c /\ Compact(c.ops)
  BY CollapseFacts
<1> HIDE DEF d
<1>2. /\ r \in ChangesetSet(C) /\ Balanced(r) /\ Saves(d, r)
      /\ Sum(r.ops, InsertChars) = Sum(d.ops, InsertChars) =>
           /\ Len(r.ops) <= Len(d.ops)
           /\ Len(r.ops) = Len(d.ops) => r = d /\ CouplesApart(d)
  BY <1>1, OptimizeFacts
<1> HIDE DEF r
<1>3. /\ e \in ChangesetSet(C) /\ Saves(r, e)
      /\ Sum(e.ops, InsertChars) = Sum(r.ops, InsertChars)
      /\ Len(e.ops) <= Len(r.ops)
      /\ Len(e.ops) = Len(r.ops) => e = r
  BY <1>2, CollapseFacts
<1> HIDE DEF e
<1>4. c.ops \in Ops /\ d.ops \in Ops /\ r.ops \in Ops /\ e.ops \in Ops
  BY <1>1, <1>2, <1>3, ChangesetFacts
<1>5. Saves(c, e)
  <2>1. /\ Sum(c.ops, InsertChars) \in Nat /\ Sum(c.ops, SkipOverChars) \in Nat
        /\ Sum(d.ops, InsertChars) \in Nat /\ Sum(d.ops, SkipOverChars) \in Nat
        /\ Sum(r.ops, InsertChars) \in Nat /\ Sum(r.ops, SkipOverChars) \in Nat
        /\ Sum(e.ops, InsertChars) \in Nat /\ Sum(e.ops, SkipOverChars) \in Nat
    BY <1>4, SumType
  <2> QED BY <1>1, <1>2, <1>3, <2>1 DEF Saves
<1>6. ASSUME Sum(e.ops, InsertChars) = Sum(c.ops, InsertChars)
      PROVE  /\ Len(e.ops) <= Len(c.ops)
             /\ Len(e.ops) = Len(c.ops) => e = c /\ Compact(c.ops) /\ CouplesApart(c)
  <2>1. Len(c.ops) \in Nat /\ Len(d.ops) \in Nat /\ Len(r.ops) \in Nat /\ Len(e.ops) \in Nat
    BY <1>4, OpsBasics
  <2>2. Sum(r.ops, InsertChars) = Sum(d.ops, InsertChars)
    BY <1>1, <1>3, <1>6
  <2>3. /\ Len(r.ops) <= Len(d.ops)
        /\ Len(r.ops) = Len(d.ops) => r = d /\ CouplesApart(d)
    BY <1>2, <2>2
  <2>4. Len(e.ops) <= Len(c.ops)
        /\ (Len(e.ops) = Len(c.ops) =>
              Len(d.ops) = Len(c.ops) /\ Len(r.ops) = Len(d.ops) /\ Len(e.ops) = Len(r.ops))
    BY <1>1, <1>3, <2>1, <2>3
  <2> QED BY <1>1, <1>3, <2>3, <2>4
<1> QED BY <1>5, <1>6 DEF e, r, d

----------------------------------------------------------------------------
(* JS::diff and JS::createChangeset: the types, and the length of the bank.*)

\* A list of words with at least one.
WordLists(C) == Seq(Seq(C)) \ {<<>>}

\* text.split(" ") has words of the text's characters ...
LEMMA WordAdded ==
  ASSUME NEW C, NEW words \in WordLists(C), NEW c \in C
  PROVE  AddToWords(words, c) \in WordLists(C)
<1>1. words \in Seq(Seq(C)) /\ Len(words) \in Nat /\ Len(words) # 0
  BY DEF WordLists
<1>2. CASE c = SP
  <2>1. <<>> \in Seq(C)
    BY EmptySeq
  <2>2. Append(words, <<>>) \in Seq(Seq(C)) /\ Len(Append(words, <<>>)) = Len(words) + 1
    BY <1>1, <2>1
  <2>3. Append(words, <<>>) # <<>>
    BY <1>1, <2>2
  <2> QED BY <1>2, <2>2, <2>3 DEF AddToWords, WordLists
<1>3. CASE c # SP
  <2> DEFINE n == Len(words)
             last == Append(words[n], c)
             new == [words EXCEPT ![n] = last]
  <2>1. n \in 1 .. n /\ words[n] \in Seq(C)
    BY <1>1
  <2>2. last \in Seq(C)
    BY <2>1
  <2>3. AddToWords(words, c) = new
    BY <1>3 DEF AddToWords
  <2> HIDE DEF last
  <2>4. new \in Seq(Seq(C)) /\ Len(new) = n
    BY <1>1, <2>1, <2>2
  <2>5. new # <<>>
    BY <1>1, <2>4
  <2> QED BY <2>3, <2>4, <2>5 DEF WordLists
<1> QED BY <1>2, <1>3

\* ... and is done character by character.
WordsOf(F, C, text) ==
  /\ F \in [0 .. Len(text) -> WordLists(C)] /\ F[0] = << <<>> >>
  /\ \A i \in 1 .. Len(text) : F[i] = AddToWords(F[i - 1], text[i])

\* Words is the last of the lists AddToWords makes character by character.
LEMMA WordsRun ==
  ASSUME NEW C, NEW text \in Seq(C), text # <<>>
  PROVE  \E F : WordsOf(F, C, text) /\ Words(text) = F[Len(text)]
<1> DEFINE n == Len(text)
           start == << <<>> >>
           Is(it) == it = [s \in SUBSET (DOMAIN text) |->
                             IF s = {} THEN start
                             ELSE LET x == Max(s)
                                  IN  AddToWords(it[s \ {x}], text[x])]
           it == CHOOSE f : Is(f)
           D == WordLists(C)
           h == [p \in D \X C |-> AddToWords(p[1], p[2])]
<1>1. n \in Nat /\ DOMAIN text = 1 .. n /\ \A i \in 1 .. n : text[i] \in C
  OBVIOUS
<1>2. Words(text) = it[DOMAIN text]
  BY Zenon DEF FoldLeft, MapThenFoldSet, Words
<1>3. h \in [D \X C -> D] /\ \A d \in D, c \in C : h[<<d, c>>] = AddToWords(d, c)
  BY WordAdded
<1>4. start \in D
  <2>1. <<>> \in Seq(C)
    BY EmptySeq
  <2> QED BY <2>1 DEF WordLists
<1> HIDE DEF h, D, start
<1>5. IsFold(D, C, start, text, h)
  BY <1>3, <1>4 DEF IsFold
<1>6. PICK f : Folds(f, D, start, text, h)
  BY <1>5, FoldExists
<1>7. Is(f)
  <2>1. f \in [SUBSET (1 .. n) -> D] /\ \A s \in SUBSET (1 .. n) : s = {} => f[s] = start
    BY <1>6 DEF Folds
  <2>2. ASSUME NEW s \in SUBSET (1 .. n), s # {}
        PROVE  f[s] = AddToWords(f[s \ {Max(s)}], text[Max(s)])
    <3>1. Max(s) \in 1 .. n
      BY <1>1, <2>2, GreatestMember
    <3>2. f[s \ {Max(s)}] \in D /\ text[Max(s)] \in C
      BY <1>1, <2>1, <3>1
    <3>3. f[s] = h[<<f[s \ {Max(s)}], text[Max(s)]>>]
      BY <1>6, <2>2 DEF Folds
    <3> QED BY <1>3, <3>2, <3>3
  <2> QED BY <1>1, <2>1, <2>2, Zenon
<1>8. Is(it)
  <2> HIDE DEF Is
  <2> QED BY <1>7
<1> HIDE DEF it
<1>9. Loops(it, D, start, text, h)
  <2>1. it[{}] = start
    BY <1>8
  <2>2. ASSUME NEW s \in SUBSET (1 .. n), s # {}, it[s \ {Max(s)}] \in D
        PROVE  it[s] = h[<<it[s \ {Max(s)}], text[Max(s)]>>]
    <3>1. it[s] = AddToWords(it[s \ {Max(s)}], text[Max(s)])
      BY <1>1, <1>8, <2>2, Zenon
    <3>2. text[Max(s)] \in C
      BY <1>1, <2>2, GreatestMember
    <3>3. h[<<it[s \ {Max(s)}], text[Max(s)]>>] = AddToWords(it[s \ {Max(s)}], text[Max(s)])
      BY <1>3, <2>2, <3>2
    <3> QED BY <3>1, <3>3
  <2> QED BY <2>1, <2>2 DEF Loops
<1>10. PICK F : Runs(F, D, start, text, h) /\ F[n] = it[1 .. n]
  BY <1>5, <1>9, FoldRuns
<1>11. WordsOf(F, C, text)
  <2>1. F \in [0 .. n -> D] /\ F[0] = start /\ \A i \in 1 .. n : F[i] = h[<<F[i - 1], text[i]>>]
    BY <1>10 DEF Runs
  <2>2. \A i \in 1 .. n : F[i - 1] \in D /\ text[i] \in C
    BY <1>1, <2>1
  <2>3. \A i \in 1 .. n : F[i] = AddToWords(F[i - 1], text[i])
    BY <1>3, <2>1, <2>2
  <2> QED BY <2>1, <2>3 DEF WordsOf, D, start
<1> QED BY <1>1, <1>2, <1>10, <1>11

\* There is one at least, if the text is not empty.
LEMMA WordsType ==
  ASSUME NEW C, NEW text \in Seq(C)
  PROVE  Words(text) \in Seq(Seq(C)) /\ (text # <<>> => Words(text) \in WordLists(C))
<1>1. CASE text = <<>>
  <2>1. Words(text) = <<>>
    BY <1>1 DEF Words
  <2> QED BY <1>1, <2>1, EmptySeq
<1>2. CASE text # <<>>
  <2>1. PICK F : WordsOf(F, C, text) /\ Words(text) = F[Len(text)]
    BY <1>2, WordsRun
  <2>2. Len(text) \in 0 .. Len(text)
    OBVIOUS
  <2>3. Words(text) \in WordLists(C)
    BY <2>1, <2>2 DEF WordsOf
  <2> QED BY <2>3 DEF WordLists
<1> QED BY <1>1, <1>2

\* A DiffOut vector of a size, with rows out of R.
DiffRows(C, size, R) == [0 .. size - 1 -> [text : Seq(C), row : R]]

\* The rows of words that are paired with one of b words, or with none.
RowsTo(b) == {-1} \cup 0 .. b - 1

\* The two vectors: a new words, b old ones.
Diffs(C, a, b) == [o : DiffRows(C, b, Int), n : DiffRows(C, a, RowsTo(b))]

\* The vectors the diff starts with.
LEMMA DiffOutType ==
  ASSUME NEW C, NEW words \in Seq(Seq(C)), NEW R, -1 \in R
  PROVE  DiffOut(words) \in DiffRows(C, Len(words), R)
<1>1. Len(words) \in Nat
  OBVIOUS
<1>2. ASSUME NEW i \in 0 .. Len(words) - 1
      PROVE  [text |-> words[i + 1], row |-> -1] \in [text : Seq(C), row : R]
  <2>1. i + 1 \in 1 .. Len(words)
    BY <1>1
  <2>2. words[i + 1] \in Seq(C)
    BY <2>1
  <2> QED BY <2>2
<1> QED BY <1>2 DEF DiffOut, DiffRows

\* A row may be written wherever it is one of the other text.
LEMMA RowWritten ==
  ASSUME NEW C, NEW a \in Nat, NEW R, NEW d \in DiffRows(C, a, R), NEW i, NEW r \in R
  PROVE  [d EXCEPT ![i].row = r] \in DiffRows(C, a, R)
<1> DEFINE new == [d EXCEPT ![i].row = r]
<1>1. ASSUME NEW k \in 0 .. a - 1
      PROVE  new[k] \in [text : Seq(C), row : R]
  <2> DEFINE old == d[k]
  <2>1. old \in [text : Seq(C), row : R]
    BY DEF DiffRows
  <2>2. new[k] = IF k = i THEN [old EXCEPT !.row = r] ELSE old
    BY DEF DiffRows
  <2> HIDE DEF old, new
  <2> QED BY <2>1, <2>2
<1>2. new = [k \in 0 .. a - 1 |-> new[k]]
  BY DEF DiffRows
<1> HIDE DEF new
<1>3. new \in DiffRows(C, a, R)
  BY <1>1, <1>2 DEF DiffRows
<1> QED BY <1>3 DEF new

\* Words that occur once are given rows of the other text.
LEMMA MatchUniqueType ==
  ASSUME NEW C, NEW a \in Nat, NEW b \in Nat, NEW R, NEW S, 0 .. b - 1 \subseteq R,
         NEW d \in DiffRows(C, a, R), NEW e \in DiffRows(C, b, S)
  PROVE  MatchUnique(d, e) \in DiffRows(C, a, R)
<1> DEFINE Twins(i) == Rows(e, d[i].text)
           At(i) == IF Rows(d, d[i].text) = {i} /\ Cardinality(Twins(i)) = 1
                    THEN [d[i] EXCEPT !.row = CHOOSE j \in Twins(i) : TRUE]
                    ELSE d[i]
<1>1. DOMAIN d = 0 .. a - 1 /\ DOMAIN e = 0 .. b - 1
  BY DEF DiffRows
<1>2. ASSUME NEW i \in 0 .. a - 1
      PROVE  At(i) \in [text : Seq(C), row : R]
  <2>1. d[i] \in [text : Seq(C), row : R]
    BY DEF DiffRows
  <2>2. CASE Rows(d, d[i].text) = {i} /\ Cardinality(Twins(i)) = 1
    <3> DEFINE j == CHOOSE j \in Twins(i) : TRUE
    <3>1. Twins(i) # {}
      BY <2>2, FS_EmptySet
    <3>2. j \in Twins(i)
      BY <3>1
    <3>3. Twins(i) \subseteq 0 .. b - 1
      BY <1>1 DEF Rows
    <3>4. j \in R
      BY <3>2, <3>3
    <3>5. At(i) = [d[i] EXCEPT !.row = j]
      BY <2>2
    <3> HIDE DEF j, At
    <3> QED BY <2>1, <3>4, <3>5
  <2>3. CASE ~(Rows(d, d[i].text) = {i} /\ Cardinality(Twins(i)) = 1)
    BY <2>1, <2>3
  <2> QED BY <2>2, <2>3
<1>3. MatchUnique(d, e) = [i \in 0 .. a - 1 |-> At(i)]
  BY <1>1, Zenon DEF MatchUnique
<1> HIDE DEF At
<1> QED BY <1>2, <1>3 DEF DiffRows

\* Pairing two words keeps the vectors' types, wherever the first index is.
LEMMA PairType ==
  ASSUME NEW C, NEW a \in Nat, NEW b \in Nat, NEW q \in Diffs(C, a, b),
         NEW i \in Int, NEW j \in 0 .. b - 1
  PROVE  Pair(q, i, j) \in Diffs(C, a, b)
<1> DEFINE n == q.n
           o == q.o
           nn == [n EXCEPT ![i].row = j]
           oo == [o EXCEPT ![j].row = i]
<1>1. n \in DiffRows(C, a, RowsTo(b)) /\ o \in DiffRows(C, b, Int) /\ j \in RowsTo(b) /\ j \in Int
  BY DEF Diffs, RowsTo
<1>2. Pair(q, i, j) = [n |-> nn, o |-> oo]
  BY DEF Pair
<1> HIDE DEF n, o
<1>3. nn \in DiffRows(C, a, RowsTo(b)) /\ oo \in DiffRows(C, b, Int)
  BY <1>1, RowWritten
<1> HIDE DEF nn, oo
<1> QED BY <1>2, <1>3 DEF Diffs

\* What every iteration of the loop downward keeps, the loop keeps ...
LEMMA DownKeeps ==
  ASSUME NEW D, NEW E, NEW q \in D, NEW seq \in Seq(E),
         \A d \in D, i \in E : MatchDown(d, i) \in D
  PROVE  FoldLeft(MatchDown, q, seq) \in D
<1> DEFINE n == Len(seq)
           Is(it) == it = [s \in SUBSET (DOMAIN seq) |->
                             IF s = {} THEN q
                             ELSE LET x == Max(s)
                                  IN  MatchDown(it[s \ {x}], seq[x])]
           it == CHOOSE f : Is(f)
           h == [p \in D \X E |-> MatchDown(p[1], p[2])]
<1>1. n \in Nat /\ DOMAIN seq = 1 .. n /\ \A i \in 1 .. n : seq[i] \in E
  OBVIOUS
<1>2. FoldLeft(MatchDown, q, seq) = it[DOMAIN seq]
  BY Zenon DEF FoldLeft, MapThenFoldSet
<1>3. h \in [D \X E -> D] /\ \A d \in D, i \in E : h[<<d, i>>] = MatchDown(d, i)
  OBVIOUS
<1> HIDE DEF h
<1>4. IsFold(D, E, q, seq, h)
  BY <1>3 DEF IsFold
<1>5. PICK f : Folds(f, D, q, seq, h)
  BY <1>4, FoldExists
<1>6. Is(f)
  <2>1. f \in [SUBSET (1 .. n) -> D] /\ \A s \in SUBSET (1 .. n) : s = {} => f[s] = q
    BY <1>5 DEF Folds
  <2>2. ASSUME NEW s \in SUBSET (1 .. n), s # {}
        PROVE  f[s] = MatchDown(f[s \ {Max(s)}], seq[Max(s)])
    <3>1. Max(s) \in 1 .. n
      BY <1>1, <2>2, GreatestMember
    <3>2. f[s \ {Max(s)}] \in D /\ seq[Max(s)] \in E
      BY <1>1, <2>1, <3>1
    <3>3. f[s] = h[<<f[s \ {Max(s)}], seq[Max(s)]>>]
      BY <1>5, <2>2 DEF Folds
    <3> QED BY <1>3, <3>2, <3>3
  <2> QED BY <1>1, <2>1, <2>2, Zenon
<1>7. Is(it)
  <2> HIDE DEF Is
  <2> QED BY <1>6
<1> HIDE DEF it
<1>8. Loops(it, D, q, seq, h)
  <2>1. it[{}] = q
    BY <1>7
  <2>2. ASSUME NEW s \in SUBSET (1 .. n), s # {}, it[s \ {Max(s)}] \in D
        PROVE  it[s] = h[<<it[s \ {Max(s)}], seq[Max(s)]>>]
    <3>1. it[s] = MatchDown(it[s \ {Max(s)}], seq[Max(s)])
      BY <1>1, <1>7, <2>2, Zenon
    <3>2. seq[Max(s)] \in E
      BY <1>1, <2>2, GreatestMember
    <3>3. h[<<it[s \ {Max(s)}], seq[Max(s)]>>] = MatchDown(it[s \ {Max(s)}], seq[Max(s)])
      BY <1>3, <2>2, <3>2
    <3> QED BY <3>1, <3>3
  <2> QED BY <2>1, <2>2 DEF Loops
<1>9. PICK F : Runs(F, D, q, seq, h) /\ F[n] = it[1 .. n]
  BY <1>4, <1>8, FoldRuns
<1> QED BY <1>1, <1>2, <1>9 DEF Runs

\* ... and so does the loop upward.
LEMMA UpKeeps ==
  ASSUME NEW D, NEW E, NEW q \in D, NEW seq \in Seq(E),
         \A d \in D, i \in E : MatchUp(d, i) \in D
  PROVE  FoldLeft(MatchUp, q, seq) \in D
<1> DEFINE n == Len(seq)
           Is(it) == it = [s \in SUBSET (DOMAIN seq) |->
                             IF s = {} THEN q
                             ELSE LET x == Max(s)
                                  IN  MatchUp(it[s \ {x}], seq[x])]
           it == CHOOSE f : Is(f)
           h == [p \in D \X E |-> MatchUp(p[1], p[2])]
<1>1. n \in Nat /\ DOMAIN seq = 1 .. n /\ \A i \in 1 .. n : seq[i] \in E
  OBVIOUS
<1>2. FoldLeft(MatchUp, q, seq) = it[DOMAIN seq]
  BY Zenon DEF FoldLeft, MapThenFoldSet
<1>3. h \in [D \X E -> D] /\ \A d \in D, i \in E : h[<<d, i>>] = MatchUp(d, i)
  OBVIOUS
<1> HIDE DEF h
<1>4. IsFold(D, E, q, seq, h)
  BY <1>3 DEF IsFold
<1>5. PICK f : Folds(f, D, q, seq, h)
  BY <1>4, FoldExists
<1>6. Is(f)
  <2>1. f \in [SUBSET (1 .. n) -> D] /\ \A s \in SUBSET (1 .. n) : s = {} => f[s] = q
    BY <1>5 DEF Folds
  <2>2. ASSUME NEW s \in SUBSET (1 .. n), s # {}
        PROVE  f[s] = MatchUp(f[s \ {Max(s)}], seq[Max(s)])
    <3>1. Max(s) \in 1 .. n
      BY <1>1, <2>2, GreatestMember
    <3>2. f[s \ {Max(s)}] \in D /\ seq[Max(s)] \in E
      BY <1>1, <2>1, <3>1
    <3>3. f[s] = h[<<f[s \ {Max(s)}], seq[Max(s)]>>]
      BY <1>5, <2>2 DEF Folds
    <3> QED BY <1>3, <3>2, <3>3
  <2> QED BY <1>1, <2>1, <2>2, Zenon
<1>7. Is(it)
  <2> HIDE DEF Is
  <2> QED BY <1>6
<1> HIDE DEF it
<1>8. Loops(it, D, q, seq, h)
  <2>1. it[{}] = q
    BY <1>7
  <2>2. ASSUME NEW s \in SUBSET (1 .. n), s # {}, it[s \ {Max(s)}] \in D
        PROVE  it[s] = h[<<it[s \ {Max(s)}], seq[Max(s)]>>]
    <3>1. it[s] = MatchUp(it[s \ {Max(s)}], seq[Max(s)])
      BY <1>1, <1>7, <2>2, Zenon
    <3>2. seq[Max(s)] \in E
      BY <1>1, <2>2, GreatestMember
    <3>3. h[<<it[s \ {Max(s)}], seq[Max(s)]>>] = MatchUp(it[s \ {Max(s)}], seq[Max(s)])
      BY <1>3, <2>2, <3>2
    <3> QED BY <3>1, <3>3
  <2> QED BY <2>1, <2>2 DEF Loops
<1>9. PICK F : Runs(F, D, q, seq, h) /\ F[n] = it[1 .. n]
  BY <1>4, <1>8, FoldRuns
<1> QED BY <1>1, <1>2, <1>9 DEF Runs

\* So do one iteration downward and one upward,
LEMMA MatchTypes ==
  ASSUME NEW C, NEW a \in Nat, NEW b \in Nat, NEW q \in Diffs(C, a, b), NEW i \in Int
  PROVE  MatchDown(q, i) \in Diffs(C, a, b) /\ MatchUp(q, i) \in Diffs(C, a, b)
<1> DEFINE below == q.n[i].row + 1
           above == q.n[i].row - 1
<1>1. DOMAIN q.o = 0 .. b - 1
  BY DEF Diffs, DiffRows
<1> HIDE DEF below, above
<1>2. below \in 0 .. b - 1 => Pair(q, i + 1, below) \in Diffs(C, a, b)
  <2>1. i + 1 \in Int
    OBVIOUS
  <2> QED BY <2>1, PairType
<1>3. above \in 0 .. b - 1 => Pair(q, i - 1, above) \in Diffs(C, a, b)
  <2>1. i - 1 \in Int
    OBVIOUS
  <2> QED BY <2>1, PairType
<1>4. MatchDown(q, i) = IF below \in DOMAIN q.o /\ q.o[below].row # 1 /\ q.n[i + 1] = q.o[below]
                        THEN Pair(q, i + 1, below) ELSE q
  BY Zenon DEF MatchDown, below
<1>5. MatchUp(q, i) = IF above \in DOMAIN q.o /\ q.n[i - 1] = q.o[above]
                      THEN Pair(q, i - 1, above) ELSE q
  BY Zenon DEF MatchUp, above
<1>6. MatchDown(q, i) \in Diffs(C, a, b)
  BY <1>1, <1>2, <1>4, Zenon
<1>7. MatchUp(q, i) \in Diffs(C, a, b)
  BY <1>1, <1>3, <1>5, Zenon
<1> QED BY <1>6, <1>7

\* and so does JS::diff.
LEMMA DiffType ==
  ASSUME NEW C, NEW old \in Seq(Seq(C)), NEW new \in WordLists(C)
  PROVE  Diff(old, new) \in Diffs(C, Len(new), Len(old))
<1> DEFINE a == Len(new)
           b == Len(old)
           o == DiffOut(old)
           n == DiffOut(new)
           unique == [o |-> MatchUnique(o, n), n |-> MatchUnique(n, o)]
           up == [k \in 1 .. a - 1 |-> k - 1]
           back == [k \in 1 .. a - 1 |-> a - 1 + 1 - k]
<1>1. a \in Nat /\ a # 0 /\ b \in Nat /\ new \in Seq(Seq(C))
  BY DEF WordLists
<1>2. o \in DiffRows(C, b, Int) /\ n \in DiffRows(C, a, RowsTo(b))
  BY <1>1, DiffOutType DEF RowsTo
<1>3. Diff(old, new) = FoldLeft(MatchUp, FoldLeft(MatchDown, unique, up), back)
  BY Zenon DEF Diff
<1>4. up \in Seq(Int) /\ back \in Seq(Int)
  BY <1>1
<1> HIDE DEF o, n, a, b, up, back
<1>5. unique \in Diffs(C, a, b)
  <2>1. MatchUnique(o, n) \in DiffRows(C, b, Int)
    BY <1>1, <1>2, MatchUniqueType
  <2>2. 0 .. b - 1 \subseteq RowsTo(b)
    BY DEF RowsTo
  <2>3. MatchUnique(n, o) \in DiffRows(C, a, RowsTo(b))
    BY <1>1, <1>2, <2>2, MatchUniqueType
  <2> QED BY <2>1, <2>3 DEF Diffs
<1> HIDE DEF unique
<1>6. FoldLeft(MatchDown, unique, up) \in Diffs(C, a, b)
  <2>1. \A q \in Diffs(C, a, b), i \in Int : MatchDown(q, i) \in Diffs(C, a, b)
    BY <1>1, MatchTypes
  <2> QED BY <1>4, <1>5, <2>1, DownKeeps
<1>7. FoldLeft(MatchUp, FoldLeft(MatchDown, unique, up), back) \in Diffs(C, a, b)
  <2>1. \A q \in Diffs(C, a, b), i \in Int : MatchUp(q, i) \in Diffs(C, a, b)
    BY <1>1, MatchTypes
  <2> QED BY <1>4, <1>6, <2>1, UpKeeps
<1> QED BY <1>3, <1>7 DEF a, b

\* A list without operations of a kind has no characters of it.
LEMMA SumOther ==
  ASSUME NEW ops \in Ops, NEW kind, \A i \in 1 .. Len(ops) : ops[i].kind # kind
  PROVE  Sum(ops, kind) = 0
<1> DEFINE n == Len(ops)
<1>1. n \in Nat
  BY OpsBasics
<1>2. PICK F : Counts(F, ops, kind) /\ Sum(ops, kind) = F[n]
  BY SumSteps
<1>3. F[0] = 0 /\ \A i \in 1 .. n : F[i] = F[i - 1] + 0
  BY <1>2 DEF Counts, Amount
<1> HIDE DEF n
<1> DEFINE T == {i \in 0 .. n : F[i] = 0}
<1>4. 0 \in T
  BY <1>1, <1>3
<1>5. ASSUME NEW i \in 0 .. n - 1, i \in T
      PROVE  i + 1 \in T
  <2> DEFINE j == i + 1
  <2>1. j \in 1 .. n /\ j - 1 = i /\ j \in 0 .. n
    BY <1>1
  <2> HIDE DEF j
  <2>2. F[j] = 0
    BY <1>3, <1>5, <2>1
  <2>3. j \in T
    BY <2>1, <2>2
  <2> QED BY <2>3 DEF j
<1>6. 0 .. n \subseteq T
  <2> HIDE DEF T
  <2> QED BY <1>1, <1>4, <1>5, UpTo
<1> QED BY <1>1, <1>2, <1>6

\* A word with its space.
LEMMA TokenType ==
  ASSUME NEW C, SP \in C, NEW a \in Nat, NEW R, NEW d \in DiffRows(C, a, R), NEW i \in 0 .. a - 1, NEW spaces
  PROVE  Token(d, i, spaces) \in Seq(C)
<1> DEFINE w == d[i].text
           e == IF i >= spaces THEN <<>> ELSE <<SP>>
<1>1. w \in Seq(C)
  BY DEF DiffRows
<1>2. <<>> \in Seq(C) /\ <<SP>> \in Seq(C)
  OBVIOUS
<1>3. e \in Seq(C)
  BY <1>2
<1> HIDE DEF w, e
<1>4. w \o e \in Seq(C)
  BY <1>1, <1>3
<1> QED BY <1>4 DEF Token, w, e

\* An operation over a text is as long as the text.
LEMMA OpOverType ==
  ASSUME NEW C, NEW text \in Seq(C), NEW kind \in {InsertChars, SkipOverChars, KeepChars},
         NEW attrib \in {-1, 0}
  PROVE  /\ OpOver(kind, text, attrib) \in OpSet
         /\ OpOver(kind, text, attrib).kind = kind /\ OpOver(kind, text, attrib).opLength = Len(text)
<1>1. NewLines(text) \in Int /\ Len(text) \in Nat
  BY CountFacts DEF NewLines
<1> QED BY <1>1 DEF OpOver, Op, OpSet

\* From first on, the first of b words that is paired is stop.
StopsAt(o, b, first, stop) ==
  /\ stop \in first .. b
  /\ stop = b \/ o[stop].row # -1
  /\ \A j \in first .. stop - 1 : o[j].row = -1

\* The deletions of m words.
Skips(o, first, m, oSpace) == [k \in 1 .. m |-> OpOver(SkipOverChars, Token(o, first + k - 1, oSpace), -1)]

\* Deletions is an operation for each word in front of the next one that is paired.
LEMMA DeletionsFound ==
  ASSUME NEW C, NEW b \in Nat, NEW R, NEW o \in DiffRows(C, b, R), NEW first \in 0 .. b, NEW oSpace
  PROVE  \E stop : StopsAt(o, b, first, stop) /\ Deletions(o, first, oSpace) = Skips(o, first, stop - first, oSpace)
<1> DEFINE size == Cardinality(DOMAIN o)
           Is(k) == /\ k = size \/ o[k].row # -1
                    /\ \A j \in first .. k - 1 : o[j].row = -1
           stop == CHOOSE k \in first .. size : Is(k)
<1>1. DOMAIN o = 0 .. b - 1
  BY DEF DiffRows
<1>2. size = b
  <2>1. Cardinality(0 .. b - 1) = b
    BY FS_Interval
  <2> QED BY <1>1, <2>1
<1> HIDE DEF size
<1>3. \E k \in first .. size : Is(k)
  <2> DEFINE T == {k \in first .. b : k = b \/ o[k].row # -1}
  <2>1. T \subseteq Nat /\ T # {}
    <3>1. b \in T
      OBVIOUS
    <3> QED BY <3>1
  <2>2. PICK k \in T : \A y \in T : k <= y
    <3> HIDE DEF T
    <3> QED BY <2>1, LeastMember
  <2>3. \A j \in first .. k - 1 : o[j].row = -1
    <3> SUFFICES ASSUME NEW j \in first .. k - 1, o[j].row # -1 PROVE FALSE
      OBVIOUS
    <3>1. j \in T /\ j < k
      BY <2>2
    <3> QED BY <2>2, <3>1
  <2> QED BY <1>2, <2>2, <2>3
<1>4. stop \in first .. size /\ Is(stop)
  <2> HIDE DEF Is
  <2> QED BY <1>3
<1>5. Deletions(o, first, oSpace) = Skips(o, first, stop - first, oSpace)
  BY Zenon DEF Deletions, Skips, size
<1> HIDE DEF stop
<1>6. StopsAt(o, b, first, stop)
  BY <1>2, <1>4 DEF StopsAt
<1> QED BY <1>5, <1>6

\* The deletions are '-' operations and insert nothing.
LEMMA DeletionsType ==
  ASSUME NEW C, SP \in C, NEW b \in Nat, NEW R, -1 \in R, NEW o \in DiffRows(C, b, R),
         NEW first \in 0 .. b, NEW oSpace
  PROVE  Deletions(o, first, oSpace) \in Ops /\ Sum(Deletions(o, first, oSpace), InsertChars) = 0
<1>1. PICK stop : StopsAt(o, b, first, stop) /\ Deletions(o, first, oSpace) = Skips(o, first, stop - first, oSpace)
  BY DeletionsFound
<1> DEFINE m == stop - first
           dels == Skips(o, first, m, oSpace)
<1>2. stop \in first .. b /\ m \in Nat
  BY <1>1 DEF StopsAt
<1>3. ASSUME NEW k \in 1 .. m
      PROVE  dels[k] \in OpSet /\ dels[k].kind = SkipOverChars
  <2> DEFINE i == first + k - 1
             text == Token(o, i, oSpace)
  <2>1. i \in 0 .. b - 1
    BY <1>2
  <2>2. text \in Seq(C)
    <3> HIDE DEF i
    <3> QED BY <2>1, TokenType
  <2>3. dels[k] = OpOver(SkipOverChars, text, -1)
    BY DEF Skips
  <2> HIDE DEF text, dels
  <2> QED BY <2>2, <2>3, OpOverType
<1>4. dels \in Ops /\ Len(dels) = m
  <2>1. dels = [k \in 1 .. m |-> dels[k]]
    BY DEF Skips
  <2> HIDE DEF dels, m
  <2>2. [k \in 1 .. m |-> dels[k]] \in Seq(OpSet) /\ Len([k \in 1 .. m |-> dels[k]]) = m
    <3>1. \A k \in 1 .. m : dels[k] \in OpSet
      BY <1>3
    <3> QED BY <1>2, <3>1
  <2> QED BY <2>1, <2>2 DEF Ops
<1> HIDE DEF dels
<1>5. SkipOverChars # InsertChars
  BY DEF SkipOverChars, InsertChars
<1>6. \A k \in 1 .. Len(dels) : dels[k].kind # InsertChars
  BY <1>3, <1>4, <1>5
<1>7. dels \in Ops /\ Sum(dels, InsertChars) = 0
  BY <1>4, <1>6, SumOther
<1> QED BY <1>1, <1>7 DEF dels

\* What a word adds: a bank as long as what its operations insert, and an
\* empty one if its operations wait.
WordParts(C) ==
  {part \in [ops : Ops, bank : Seq(C), held : BOOLEAN] :
     /\ Len(part.bank) = Sum(part.ops, InsertChars)
     /\ part.held => part.bank = <<>>}

\* What JS::createChangeset writes for one word.
LEMMA WordPartType ==
  ASSUME NEW C, SP \in C, NEW a \in Nat, NEW b \in Nat, NEW d \in Diffs(C, a, b),
         NEW i \in 0 .. a - 1, NEW oSpace, NEW nSpace
  PROVE  WordPart(d, i, oSpace, nSpace) \in WordParts(C)
<1> DEFINE word == d.n[i]
           next == word.row + 1
           delSpace == next \in DOMAIN d.o /\ d.o[next].row = -1 /\ i >= nSpace
           addSpace == i + 1 \in DOMAIN d.n /\ d.n[i + 1].row = -1 /\ word.row >= oSpace
           token == Token(d.n, i, nSpace)
           kept == IF addSpace THEN word.text ELSE token
           keep == OpOver(KeepChars, kept, -1)
           ins == OpOver(InsertChars, token, 0)
           add == IF addSpace THEN <<Op(InsertChars, 1, -1, 0)>> ELSE <<>>
           del == IF delSpace THEN <<Op(SkipOverChars, 1, -1, -1)>> ELSE <<>>
           more == Deletions(d.o, next, oSpace)
           dels == add \o del \o more
           bank == IF addSpace THEN <<SP>> ELSE <<>>
           fresh == [ops |-> <<ins>>, bank |-> token, held |-> FALSE]
           paired == [ops |-> <<keep>> \o dels, bank |-> bank, held |-> dels = <<>>]
<1>1. d.n \in DiffRows(C, a, RowsTo(b)) /\ d.o \in DiffRows(C, b, Int)
  BY DEF Diffs
<1>2. word \in [text : Seq(C), row : RowsTo(b)]
  BY <1>1 DEF DiffRows
<1>3. token \in Seq(C)
  BY <1>1, TokenType
<1>4. WordPart(d, i, oSpace, nSpace) = IF word.row = -1 THEN fresh ELSE paired
  BY Zenon DEF WordPart
<1> HIDE DEF token, delSpace, addSpace, word
<1>5. fresh \in WordParts(C)
  <2>1. ins \in OpSet /\ ins.kind = InsertChars /\ ins.opLength = Len(token)
    BY <1>3, OpOverType
  <2> HIDE DEF ins
  <2>2. <<ins>> \in Ops /\ Sum(<<ins>>, InsertChars) = Amount(ins, InsertChars)
    BY <2>1, SumOne
  <2>3. Amount(ins, InsertChars) = Len(token)
    BY <2>1 DEF Amount
  <2> QED BY <1>3, <2>2, <2>3 DEF WordParts
<1>6. ASSUME word.row # -1
      PROVE  paired \in WordParts(C)
  <2>1. next \in 0 .. b
    BY <1>2, <1>6 DEF RowsTo
  <2> HIDE DEF next
  <2>2. more \in Ops /\ Sum(more, InsertChars) = 0
    BY <1>1, <2>1, DeletionsType
  <2>3. kept \in Seq(C)
    BY <1>2, <1>3
  <2> HIDE DEF more, kept
  <2>4. keep \in OpSet /\ keep.kind = KeepChars
    BY <2>3, OpOverType
  <2> HIDE DEF keep
  <2>5. /\ Op(InsertChars, 1, -1, 0) \in OpSet /\ Op(SkipOverChars, 1, -1, -1) \in OpSet
        /\ Amount(Op(InsertChars, 1, -1, 0), InsertChars) = 1
        /\ Amount(Op(SkipOverChars, 1, -1, -1), InsertChars) = 0
        /\ Amount(keep, InsertChars) = 0
    BY <2>4 DEF Op, OpSet, Amount, InsertChars, SkipOverChars, KeepChars
  <2>6. /\ add \in Ops /\ Sum(add, InsertChars) = IF addSpace THEN 1 ELSE 0
    BY <2>5, SumOne, SumNone, OpsBasics
  <2>7. del \in Ops /\ Sum(del, InsertChars) = 0
    BY <2>5, SumOne, SumNone, OpsBasics
  <2>8. addSpace => Len(add) = 1
    OBVIOUS
  <2>9. bank \in Seq(C) /\ Len(bank) = (IF addSpace THEN 1 ELSE 0) /\ (~addSpace => bank = <<>>)
    OBVIOUS
  <2> HIDE DEF add, del, bank
  <2>10. add \o del \in Ops /\ dels \in Ops
    <3>1. add \o del \in Ops
      BY <2>6, <2>7, OpsBasics
    <3> QED BY <2>2, <3>1, OpsBasics
  <2>11. Sum(dels, InsertChars) = IF addSpace THEN 1 ELSE 0
    <3>1. Sum(add \o del, InsertChars) = Sum(add, InsertChars) + Sum(del, InsertChars)
      BY <2>6, <2>7, SumConcat
    <3>2. Sum(dels, InsertChars) = Sum(add \o del, InsertChars) + Sum(more, InsertChars)
      BY <2>2, <2>10, SumConcat
    <3> QED BY <2>2, <2>6, <2>7, <3>1, <3>2
  <2>12. dels = <<>> => ~addSpace
    <3>1. dels = <<>> => Sum(dels, InsertChars) = 0
      BY SumNone
    <3> QED BY <2>11, <3>1
  <2> HIDE DEF dels
  <2>13. <<keep>> \in Ops /\ Sum(<<keep>>, InsertChars) = 0
    BY <2>4, <2>5, SumOne
  <2>14. <<keep>> \o dels \in Ops /\ Sum(<<keep>> \o dels, InsertChars) = Len(bank)
    <3>1. <<keep>> \o dels \in Ops
      BY <2>10, <2>13, OpsBasics
    <3>2. Sum(<<keep>> \o dels, InsertChars) = Sum(<<keep>>, InsertChars) + Sum(dels, InsertChars)
      BY <2>10, <2>13, SumConcat
    <3> QED BY <2>9, <2>11, <2>13, <3>1, <3>2
  <2> DEFINE all == <<keep>> \o dels
             held == dels = <<>>
  <2>15. held \in BOOLEAN /\ (held => bank = <<>>)
    BY <2>9, <2>12
  <2> HIDE DEF all, held
  <2>16. [ops |-> all, bank |-> bank, held |-> held] \in WordParts(C)
    BY <2>9, <2>14, <2>15 DEF WordParts, all
  <2> QED BY <2>16 DEF all, held
<1> HIDE DEF fresh, paired
<1> QED BY <1>4, <1>5, <1>6

\* The operations of the first w parts, the banks of all of them.
Holding(parts, w) == \A k \in 1 .. Len(parts) : k > w => parts[k].held

\* F holds the first 0, 1, ... sequences joined.
Chains(F, S, seqs) ==
  /\ F \in [0 .. Len(seqs) -> Seq(S)] /\ F[0] = <<>>
  /\ \A i \in 1 .. Len(seqs) : F[i] = F[i - 1] \o seqs[i]

\* If the first banks are as long as what their lists insert and the others
\* are empty, the banks joined are as long as what the lists joined insert.
LEMMA BanksJoined ==
  ASSUME NEW C, NEW lists \in Seq(Ops), NEW banks \in Seq(Seq(C)), Len(lists) <= Len(banks),
         \A k \in 1 .. Len(lists) : Len(banks[k]) = Sum(lists[k], InsertChars),
         \A k \in 1 .. Len(banks) : k > Len(lists) => banks[k] = <<>>
  PROVE  /\ FlattenSeq(lists) \in Ops /\ FlattenSeq(banks) \in Seq(C)
         /\ Len(FlattenSeq(banks)) = Sum(FlattenSeq(lists), InsertChars)
<1>1. PICK G : Adds(G, lists, InsertChars) /\ Sum(FlattenSeq(lists), InsertChars) = G[Len(lists)]
  BY SumFlatten
<1>2. FlattenSeq(lists) \in Ops
  BY SumFlatten
<1>3. PICK F : Chains(F, C, banks) /\ FlattenSeq(banks) = F[Len(banks)]
  BY Flattened DEF Chains
<1> DEFINE n == Len(banks)
           w == Len(lists)
           At(k) == IF k <= w THEN G[k] ELSE G[w]
           T == {k \in 0 .. n : Len(F[k]) = At(k)}
<1>4. n \in Nat /\ w \in Nat /\ w <= n /\ \A k \in 1 .. n : banks[k] \in Seq(C)
  OBVIOUS
<1>5. \A k \in 1 .. w : Len(banks[k]) = Sum(lists[k], InsertChars)
  OBVIOUS
<1>6. \A k \in 1 .. n : k > w => banks[k] = <<>>
  OBVIOUS
<1>7. G \in [0 .. w -> Nat] /\ G[0] = 0 /\ \A k \in 1 .. w : G[k] = G[k - 1] + Sum(lists[k], InsertChars)
  BY <1>1 DEF Adds
<1>8. F \in [0 .. n -> Seq(C)] /\ F[0] = <<>> /\ \A k \in 1 .. n : F[k] = F[k - 1] \o banks[k]
  BY <1>3 DEF Chains
<1> HIDE DEF n, w
<1>9. 0 \in T
  <2>1. Len(<<>>) = 0
    OBVIOUS
  <2> QED BY <1>4, <1>7, <1>8, <2>1
<1>10. ASSUME NEW i \in 0 .. n - 1, i \in T
       PROVE  i + 1 \in T
  <2> DEFINE k == i + 1
  <2>1. k \in 1 .. n /\ k - 1 = i /\ k \in 0 .. n /\ i \in 0 .. n /\ i \in Nat
    BY <1>4
  <2>2. (k <= w => k \in 1 .. w /\ i <= w) /\ (k > w <=> ~(k <= w)) /\ (k > w /\ i <= w => i = w)
    BY <1>4, <2>1
  <2> HIDE DEF k
  <2>3. F[k] = F[i] \o banks[k]
    BY <1>8, <2>1
  <2>4. F[i] \in Seq(C) /\ banks[k] \in Seq(C)
    BY <1>4, <1>8, <2>1
  <2>5. Len(F[k]) = Len(F[i]) + Len(banks[k]) /\ Len(F[i]) \in Nat
    BY <2>3, <2>4
  <2>6. ASSUME k <= w
        PROVE  Len(F[k]) = G[k]
    <3>1. G[k] = G[i] + Sum(lists[k], InsertChars)
      BY <1>7, <2>1, <2>2, <2>6
    <3>2. Len(F[i]) = G[i]
      BY <1>10, <2>2, <2>6
    <3>3. Len(banks[k]) = Sum(lists[k], InsertChars)
      BY <1>5, <2>2, <2>6
    <3> QED BY <2>5, <3>1, <3>2, <3>3
  <2>7. ASSUME k > w
        PROVE  Len(F[k]) = G[w]
    <3>1. banks[k] = <<>>
      BY <1>6, <2>1, <2>7
    <3>2. Len(F[k]) = Len(F[i])
      BY <2>5, <3>1
    <3>3. Len(F[i]) = G[w]
      BY <1>10, <2>2, <2>7
    <3> QED BY <3>2, <3>3
  <2>8. Len(F[k]) = At(k)
    BY <2>2, <2>6, <2>7
  <2> HIDE DEF At
  <2>9. k \in T
    BY <2>1, <2>8
  <2> QED BY <2>9 DEF k
<1>11. n \in 0 .. n /\ w \in 0 .. w /\ (n <= w => n = w)
  BY <1>4
<1>12. Len(F[n]) = G[w]
  <2>1. n \in T
    <3> HIDE DEF T
    <3>1. 0 .. n \subseteq T
      BY <1>4, <1>9, <1>10, UpTo
    <3> QED BY <1>11, <3>1
  <2> QED BY <1>11, <2>1
<1>13. F[n] \in Seq(C)
  BY <1>8, <1>11
<1> QED BY <1>1, <1>2, <1>3, <1>12, <1>13 DEF n, w

\* What it has written once every word is done, if the first w parts are written.
LEMMA PartsJoined ==
  ASSUME NEW C, NEW parts \in Seq(WordParts(C)), NEW w \in 0 .. Len(parts), Holding(parts, w)
  PROVE  LET ops == FlattenSeq([k \in 1 .. w |-> parts[k].ops])
             bank == FlattenSeq([k \in DOMAIN parts |-> parts[k].bank])
         IN  ops \in Ops /\ bank \in Seq(C) /\ Len(bank) = Sum(ops, InsertChars)
<1> DEFINE n == Len(parts)
           lists == [k \in 1 .. w |-> parts[k].ops]
           banks == [k \in 1 .. n |-> parts[k].bank]
<1>1. n \in Nat /\ w \in Nat /\ w <= n /\ DOMAIN parts = 1 .. n /\ \A k \in 1 .. n : parts[k] \in WordParts(C)
  OBVIOUS
<1>2. ASSUME NEW k \in 1 .. n
      PROVE  /\ parts[k].ops \in Ops /\ parts[k].bank \in Seq(C)
             /\ Len(parts[k].bank) = Sum(parts[k].ops, InsertChars)
             /\ parts[k].held => parts[k].bank = <<>>
  BY <1>1 DEF WordParts
<1>3. \A k \in 1 .. n : k > w => parts[k].held
  BY DEF Holding
<1> HIDE DEF n
<1>4. \A k \in 1 .. w : k \in 1 .. n
  BY <1>1
<1>5. lists \in [1 .. w -> Ops] /\ \A k \in 1 .. w : lists[k] = parts[k].ops
  BY <1>2, <1>4
<1>6. banks \in [1 .. n -> Seq(C)] /\ \A k \in 1 .. n : banks[k] = parts[k].bank
  BY <1>2
<1>7. banks = [k \in DOMAIN parts |-> parts[k].bank]
  BY <1>1
<1> HIDE DEF lists, banks
<1>8. lists \in Seq(Ops) /\ Len(lists) = w
  BY <1>1, <1>5
<1> DEFINE Chars == Seq(C)
<1>9. banks \in Seq(Chars) /\ Len(banks) = n
  <2>1. banks \in [1 .. n -> Chars]
    BY <1>6
  <2> HIDE DEF Chars
  <2> QED BY <1>1, <2>1
<1>10. ASSUME NEW k \in 1 .. w
       PROVE  Len(banks[k]) = Sum(lists[k], InsertChars)
  <2>1. k \in 1 .. n
    BY <1>4
  <2>2. banks[k] = parts[k].bank /\ lists[k] = parts[k].ops
    BY <1>5, <1>6, <2>1
  <2> QED BY <1>2, <2>1, <2>2
<1>11. ASSUME NEW k \in 1 .. n, k > w
       PROVE  banks[k] = <<>>
  BY <1>2, <1>3, <1>6, <1>11
<1>12. /\ FlattenSeq(lists) \in Ops /\ FlattenSeq(banks) \in Seq(C)
       /\ Len(FlattenSeq(banks)) = Sum(FlattenSeq(lists), InsertChars)
  <2>1. Len(lists) <= Len(banks)
    BY <1>1, <1>8, <1>9
  <2>2. \A k \in 1 .. Len(lists) : Len(banks[k]) = Sum(lists[k], InsertChars)
    BY <1>8, <1>10
  <2>3. \A k \in 1 .. Len(banks) : k > Len(lists) => banks[k] = <<>>
    BY <1>8, <1>9, <1>11
  <2> QED BY <1>8, <1>9, <2>1, <2>2, <2>3, BanksJoined
<1> QED BY <1>7, <1>12 DEF lists

\* The parts that are written are the first ones.
LEMMA WrittenFirst ==
  ASSUME NEW C, NEW parts \in Seq(WordParts(C))
  PROVE  LET w == Cardinality({k \in DOMAIN parts : \E j \in k .. Len(parts) : ~ parts[j].held})
         IN  w \in 0 .. Len(parts) /\ Holding(parts, w)
<1> DEFINE n == Len(parts)
           W == {k \in DOMAIN parts : \E j \in k .. n : ~ parts[j].held}
           T == {m \in Nat : m <= n /\ \A k \in 1 .. n : k > m => parts[k].held}
<1>1. n \in Nat /\ DOMAIN parts = 1 .. n /\ \A k \in 1 .. n : parts[k].held \in BOOLEAN
  BY DEF WordParts
<1> HIDE DEF n
<1>2. T \subseteq Nat /\ T # {}
  <2>1. n \in T
    BY <1>1
  <2> QED BY <2>1
<1>3. PICK w \in T : \A y \in T : w <= y
  <2> HIDE DEF T
  <2> QED BY <1>2, LeastMember
<1>4. w \in Nat /\ w <= n /\ \A k \in 1 .. n : k > w => parts[k].held
  OBVIOUS
<1>5. w # 0 => ~ parts[w].held
  <2> SUFFICES ASSUME w # 0, parts[w].held PROVE FALSE
    OBVIOUS
  <2>1. w - 1 \in T
    <3>1. w - 1 \in Nat /\ w - 1 <= n
      BY <1>1, <1>4
    <3>2. \A k \in 1 .. n : k > w - 1 => k = w \/ k > w
      BY <1>1, <1>4
    <3> QED BY <1>4, <3>1, <3>2
  <2> QED BY <1>3, <1>4, <2>1
<1>6. W = 1 .. w
  <2>1. ASSUME NEW k \in W
        PROVE  k \in 1 .. w
    <3>1. k \in 1 .. n
      BY <1>1
    <3>2. PICK j \in k .. n : ~ parts[j].held
      OBVIOUS
    <3>3. j \in 1 .. n /\ ~(j > w)
      BY <1>1, <1>4, <3>1, <3>2
    <3> QED BY <1>4, <3>1, <3>2, <3>3
  <2>2. ASSUME NEW k \in 1 .. w
        PROVE  k \in W
    <3>1. k \in 1 .. n /\ w \in k .. n /\ w # 0
      BY <1>1, <1>4
    <3> QED BY <1>1, <1>5, <3>1
  <2> QED BY <2>1, <2>2
<1> HIDE DEF W
<1>7. Cardinality(W) = w
  <2>1. Cardinality(1 .. w) = w
    BY <1>4, FS_Interval
  <2> QED BY <1>6, <2>1
<1>8. Holding(parts, w) /\ w \in 0 .. n
  BY <1>1, <1>4 DEF Holding, n
<1>9. Cardinality(W) \in 0 .. n /\ Holding(parts, Cardinality(W))
  BY <1>7, <1>8
<1> QED BY <1>9 DEF W, n

\* The raw changeset of two texts has a bank as long as what it inserts,
\* although operations held back at the end are dropped: they insert nothing.
LEMMA RawChangesetType ==
  ASSUME NEW C, SP \in C, NEW old \in Seq(C), NEW new \in Seq(C), new # <<>>
  PROVE  RawChangeset(old, new) \in ChangesetSet(C) /\ Balanced(RawChangeset(old, new))
<1> DEFINE d == Diff(Words(old), Words(new))
           oSpace == Count(old, SP)
           nSpace == Count(new, SP)
           m == Cardinality(DOMAIN d.n)
           parts == [k \in 1 .. m |-> WordPart(d, k - 1, oSpace, nSpace)]
           leading == IF d.n[0].row # 0 THEN Deletions(d.o, 0, oSpace) ELSE <<>>
           written == {k \in DOMAIN parts : \E j \in k .. Len(parts) : ~ parts[j].held}
           ops == [k \in 1 .. Cardinality(written) |-> parts[k].ops]
           banks == [k \in DOMAIN parts |-> parts[k].bank]
           a == Len(Words(new))
           b == Len(Words(old))
<1>1. RawChangeset(old, new) = MakeChangeset(Len(old), Len(new), leading \o FlattenSeq(ops), FlattenSeq(banks))
  BY Zenon DEF RawChangeset
<1>2. Words(old) \in Seq(Seq(C)) /\ Words(new) \in WordLists(C)
  BY WordsType
<1>3. d \in Diffs(C, a, b) /\ a \in Nat /\ b \in Nat
  BY <1>2, DiffType DEF WordLists
<1> HIDE DEF d, a, b, oSpace, nSpace
<1>4. DOMAIN d.n = 0 .. a - 1 /\ d.o \in DiffRows(C, b, Int)
  BY <1>3 DEF Diffs, DiffRows
<1>5. m = a
  <2>1. Cardinality(0 .. a - 1) = a
    BY <1>3, FS_Interval
  <2> QED BY <1>4, <2>1
<1> HIDE DEF m
<1>6. parts \in Seq(WordParts(C))
  <2>1. ASSUME NEW k \in 1 .. m
        PROVE  WordPart(d, k - 1, oSpace, nSpace) \in WordParts(C)
    <3>1. k - 1 \in 0 .. a - 1
      BY <1>3, <1>5
    <3> QED BY <1>3, <3>1, WordPartType
  <2> QED BY <1>3, <1>5, <2>1
<1> HIDE DEF parts
<1> DEFINE w == Cardinality(written)
<1>7. w \in 0 .. Len(parts) /\ Holding(parts, w)
  BY <1>6, WrittenFirst
<1> HIDE DEF written
<1>8. FlattenSeq(ops) \in Ops /\ FlattenSeq(banks) \in Seq(C)
      /\ Len(FlattenSeq(banks)) = Sum(FlattenSeq(ops), InsertChars)
  <2> HIDE DEF w
  <2>1. /\ FlattenSeq([k \in 1 .. w |-> parts[k].ops]) \in Ops
        /\ FlattenSeq([k \in DOMAIN parts |-> parts[k].bank]) \in Seq(C)
        /\ Len(FlattenSeq([k \in DOMAIN parts |-> parts[k].bank])) =
             Sum(FlattenSeq([k \in 1 .. w |-> parts[k].ops]), InsertChars)
    BY <1>6, <1>7, PartsJoined
  <2> QED BY <2>1 DEF w
<1>9. leading \in Ops /\ Sum(leading, InsertChars) = 0
  <2>1. 0 \in 0 .. b /\ -1 \in Int
    BY <1>3
  <2>2. Deletions(d.o, 0, oSpace) \in Ops /\ Sum(Deletions(d.o, 0, oSpace), InsertChars) = 0
    BY <1>3, <1>4, <2>1, DeletionsType
  <2> QED BY <2>2, SumNone, OpsBasics
<1> HIDE DEF leading, ops, banks
<1>10. leading \o FlattenSeq(ops) \in Ops
  BY <1>8, <1>9, OpsBasics
<1>11. Sum(leading \o FlattenSeq(ops), InsertChars) = Len(FlattenSeq(banks))
  <2>1. Sum(leading \o FlattenSeq(ops), InsertChars) = Sum(leading, InsertChars) + Sum(FlattenSeq(ops), InsertChars)
    BY <1>8, <1>9, SumConcat
  <2>2. Sum(FlattenSeq(ops), InsertChars) \in Nat
    BY <1>8, SumType
  <2> QED BY <1>8, <1>9, <2>1, <2>2
<1>12. Len(old) \in Nat /\ Len(new) \in Nat
  OBVIOUS
<1> DEFINE all == leading \o FlattenSeq(ops)
           bank == FlattenSeq(banks)
<1>13. all \in Ops /\ bank \in Seq(C) /\ Len(bank) = Sum(all, InsertChars)
  BY <1>8, <1>10, <1>11
<1> HIDE DEF all, bank
<1>14. RawChangeset(old, new) = [oldLength |-> Len(old), newLength |-> Len(new), ops |-> all, bank |-> bank]
  BY <1>1 DEF MakeChangeset, all, bank
<1> QED BY <1>12, <1>13, <1>14 DEF ChangesetSet, Ops, Balanced

\* JS::createChangeset, with its two special cases.
LEMMA CreatedType ==
  ASSUME NEW C, SP \in C, NEW old \in Seq(C), NEW new \in Seq(C)
  PROVE  JSCreateChangeset(old, new) \in ChangesetSet(C) /\ Balanced(JSCreateChangeset(old, new))
<1>1. MakeChangeset(0, 0, <<>>, <<>>) \in ChangesetSet(C) /\ Balanced(MakeChangeset(0, 0, <<>>, <<>>))
  <2>1. Sum(<<>>, InsertChars) = 0 /\ Len(<<>>) = 0 /\ <<>> \in Seq(C) /\ <<>> \in Seq(OpSet)
    BY SumNone
  <2> QED BY <2>1 DEF MakeChangeset, ChangesetSet, Balanced
<1>2. CASE old = <<>> /\ new = <<>>
  <2>1. JSCreateChangeset(old, new) = MakeChangeset(0, 0, <<>>, <<>>)
    BY <1>2 DEF JSCreateChangeset
  <2> QED BY <1>1, <2>1
<1>3. CASE old # <<>> /\ new = <<>>
  <2> DEFINE op == Op(SkipOverChars, Len(old), -1, -1)
  <2>1. JSCreateChangeset(old, new) = MakeChangeset(Len(old), 0, <<op>>, <<>>)
    BY <1>3 DEF JSCreateChangeset
  <2>2. Len(old) \in Nat
    OBVIOUS
  <2>3. op \in OpSet /\ Amount(op, InsertChars) = 0
    BY <2>2 DEF Op, OpSet, Amount, InsertChars, SkipOverChars
  <2> HIDE DEF op
  <2>4. <<op>> \in Seq(OpSet) /\ Sum(<<op>>, InsertChars) = 0
    BY <2>3, SumOne DEF Ops
  <2> DEFINE one == <<op>>
  <2> HIDE DEF one
  <2>5. MakeChangeset(Len(old), 0, one, <<>>) \in ChangesetSet(C) /\ Balanced(MakeChangeset(Len(old), 0, one, <<>>))
    <3>1. one \in Seq(OpSet) /\ Sum(one, InsertChars) = 0 /\ <<>> \in Seq(C) /\ Len(<<>>) = 0
      BY <2>4 DEF one
    <3> QED BY <2>2, <3>1 DEF MakeChangeset, ChangesetSet, Balanced
  <2> QED BY <2>1, <2>5 DEF one
<1>4. CASE new # <<>>
  <2>1. JSCreateChangeset(old, new) = RawChangeset(old, new)
    BY <1>4 DEF JSCreateChangeset
  <2> QED BY <1>4, <2>1, RawChangesetType
<1> QED BY <1>2, <1>3, <1>4

----------------------------------------------------------------------------
(***************************************************************************)
(* The specification: createChangeset's locals between two passes.         *)
(***************************************************************************)
\* The characters of the texts, and the space a word is given back.
Letters == (UNION {Range(t) : t \in Text}) \cup {SP}

Sound(c) == c \in ChangesetSet(Letters) /\ Balanced(c)

\* The inductive invariant: what cs is at every pc.
Inv ==
  /\ oldText \in Text /\ newText \in Text
  /\ pc \in {"create", "collapse", "optimize", "recollapse", "done"}
  /\ Sound(cs) /\ Sound(beforeOptimizing)
  /\ pc = "optimize" => cs = Collapse(beforeOptimizing)
  /\ pc = "recollapse" => cs = Optimize(Collapse(beforeOptimizing), oldText)
  /\ pc = "done" => Compact(cs.ops) /\ CouplesApart(cs)

\* Both texts are sequences of letters.
LEMMA TextsAreLetters ==
  ASSUME NEW t \in Text
  PROVE  t \in Seq(Letters)
<1>1. t \in Seq(Range(t))
  BY TextsAreSequences
<1>2. Range(t) \subseteq Letters
  BY DEF Letters
<1> QED BY <1>1, <1>2

\* Changeset().
LEMMA EmptySound == Sound(EmptyChangeset)
<1>1. Sum(<<>>, InsertChars) = 0 /\ Len(<<>>) = 0 /\ <<>> \in Seq(Letters) /\ <<>> \in Seq(OpSet)
  BY SumNone
<1> QED BY <1>1 DEF EmptyChangeset, MakeChangeset, Sound, ChangesetSet, Balanced

\* The invariant holds at the start ...
LEMMA InitInv == Init => Inv
BY EmptySound DEF Init, Inv

\* ... after the raw changeset is made ...
LEMMA CreateInv == Inv /\ Create => Inv'
<1> SUFFICES ASSUME Inv, Create PROVE Inv'
  OBVIOUS
<1>1. Sound(JSCreateChangeset(oldText, newText))
  <2>1. SP \in Letters
    BY DEF Letters
  <2>2. oldText \in Seq(Letters) /\ newText \in Seq(Letters)
    BY TextsAreLetters DEF Inv
  <2> QED BY <2>1, <2>2, CreatedType DEF Sound
<1>2. Sound(cs') /\ Sound(beforeOptimizing')
  BY <1>1 DEF Create, Inv
<1> QED BY <1>2 DEF Create, Inv

\* ... after the first collapse of a round ...
LEMMA FirstCollapseInv == Inv /\ FirstCollapse => Inv'
<1> SUFFICES ASSUME Inv, FirstCollapse PROVE Inv'
  OBVIOUS
<1>1. Sound(Collapse(cs))
  BY CollapseFacts DEF Inv, Sound
<1>2. Sound(cs') /\ Sound(beforeOptimizing')
  BY <1>1 DEF FirstCollapse, Inv
<1> QED BY <1>2 DEF FirstCollapse, Inv

\* ... after its optimize ...
LEMMA OptimizePassInv == Inv /\ OptimizePass => Inv'
<1> SUFFICES ASSUME Inv, OptimizePass PROVE Inv'
  OBVIOUS
<1>1. oldText \in Seq(Letters)
  BY TextsAreLetters DEF Inv
<1>2. Sound(Optimize(cs, oldText))
  BY <1>1, OptimizeFacts DEF Inv, Sound
<1>3. Sound(cs') /\ Sound(beforeOptimizing')
  BY <1>2 DEF OptimizePass, Inv
<1> QED BY <1>3 DEF OptimizePass, Inv

\* What the last step of a round finds: the whole round behind it.
LEMMA RoundDone ==
  ASSUME Inv, SecondCollapse
  PROVE  /\ Sound(cs') /\ Sound(beforeOptimizing)
         /\ Saves(beforeOptimizing, cs')
         /\ Sum(cs'.ops, InsertChars) = Sum(beforeOptimizing.ops, InsertChars) =>
              /\ Len(cs'.ops) <= Len(beforeOptimizing.ops)
              /\ Len(cs'.ops) = Len(beforeOptimizing.ops) =>
                   /\ cs' = beforeOptimizing
                   /\ Compact(beforeOptimizing.ops) /\ CouplesApart(beforeOptimizing)
<1>1. cs' = Collapse(cs) /\ Sound(cs)
  BY DEF SecondCollapse, Inv
<1>2. Sound(cs')
  BY <1>1, CollapseFacts DEF Sound
<1>3. cs' = Collapse(Optimize(Collapse(beforeOptimizing), oldText))
  BY <1>1 DEF SecondCollapse, Inv
<1>4. oldText \in Seq(Letters)
  BY TextsAreLetters DEF Inv
<1>5. beforeOptimizing \in ChangesetSet(Letters) /\ Balanced(beforeOptimizing) /\ Sound(beforeOptimizing)
  BY DEF Inv, Sound
<1> DEFINE e == Collapse(Optimize(Collapse(beforeOptimizing), oldText))
<1>6. /\ Saves(beforeOptimizing, e)
      /\ Sum(e.ops, InsertChars) = Sum(beforeOptimizing.ops, InsertChars) =>
           /\ Len(e.ops) <= Len(beforeOptimizing.ops)
           /\ Len(e.ops) = Len(beforeOptimizing.ops) =>
                /\ e = beforeOptimizing
                /\ Compact(beforeOptimizing.ops) /\ CouplesApart(beforeOptimizing)
  BY <1>4, <1>5, RoundFacts
<1>7. cs' = e
  BY <1>3
<1> HIDE DEF e
<1> QED BY <1>2, <1>5, <1>6, <1>7

\* ... after its second collapse ...
LEMMA SecondCollapseInv == Inv /\ SecondCollapse => Inv'
<1> SUFFICES ASSUME Inv, SecondCollapse PROVE Inv'
  OBVIOUS
<1>1. Sound(cs') /\ Sound(beforeOptimizing')
  BY RoundDone DEF SecondCollapse
<1>2. ASSUME pc' = "done"
      PROVE  Compact(cs.ops)' /\ CouplesApart(cs)'
  <2>1. cs' = beforeOptimizing
    BY <1>2 DEF SecondCollapse
  <2>2. Compact(beforeOptimizing.ops) /\ CouplesApart(beforeOptimizing)
    BY <2>1, RoundDone
  <2>3. oldText' = oldText
    BY DEF SecondCollapse
  <2> QED BY <2>1, <2>2, <2>3 DEF Compact, CouplesApart, Covered, Replacements
<1>3. pc' \in {"collapse", "done"} /\ oldText' = oldText /\ newText' = newText
  BY DEF SecondCollapse
<1> QED BY <1>1, <1>2, <1>3 DEF Inv

\* ... if nothing happens ...
LEMMA StutterInv == Inv /\ UNCHANGED vars => Inv'
BY DEF Inv, vars, Sound, CouplesApart, Covered

\* ... and always.
LEMMA Invariance == Spec => []Inv
<1>1. Inv /\ [Next]_vars => Inv'
  BY CreateInv, FirstCollapseInv, OptimizePassInv, SecondCollapseInv, StutterInv DEF Next
<1> QED BY <1>1, InitInv, PTL DEF Spec

----------------------------------------------------------------------------
\* The locals have their types: no pass of the loop subtracts more from a
\* length than it has (JS::createChangeset, JS::collapse, JS::optimize).
THEOREM TypeCorrect == Spec => []TypeOK
<1>1. Inv => TypeOK
  <2> SUFFICES ASSUME Inv PROVE TypeOK
    OBVIOUS
  <2>1. cs.oldLength \in Nat /\ cs.newLength \in Nat /\ cs.ops \in Seq(OpSet)
    BY DEF Inv, Sound, ChangesetSet
  <2>2. \A i \in DOMAIN cs.ops : cs.ops[i] \in OpSet
    BY <2>1
  <2> QED BY <2>1, <2>2 DEF Inv, TypeOK
<1> QED BY <1>1, Invariance, PTL

\* The bank holds exactly the characters the '+' operations insert, between
\* any two passes: optimize cuts both at once (changeset.cpp:385-434).
THEOREM BankCorrect == Spec => []BankMatchesInsertions
<1>1. Inv => BankMatchesInsertions
  <2> SUFFICES ASSUME Inv PROVE BankMatchesInsertions
    OBVIOUS
  <2>1. Len(cs.bank) = Sum(cs.ops, InsertChars)
    BY DEF Inv, Sound, Balanced
  <2>2. Total(cs, InsertChars) = Sum(cs.ops, InsertChars)
    BY TotalIsSum
  <2> QED BY <2>1, <2>2 DEF BankMatchesInsertions
<1> QED BY <1>1, Invariance, PTL

\* The changeset the do-while loop stops at is one neither pass can shorten:
\* nothing to merge, no trailing '=', and no '-' '+' couple with a common end
\* (JS::optimizeChangeset, 231-241).
THEOREM EndsCompact == Spec => []ResultIsCompact
<1>1. Inv => ResultIsCompact
  BY DEF Inv, Compact, CouplesApart, ResultIsCompact
<1> QED BY <1>1, Invariance, PTL

\* The second collapse leaves what the round began with, or less.
LEMMA LastStepShrinks ==
  ASSUME Inv, SecondCollapse
  PROVE  /\ Total(beforeOptimizing, InsertChars) - Total(cs', InsertChars)
              = Total(beforeOptimizing, SkipOverChars) - Total(cs', SkipOverChars)
         /\ \/ pc' = "done" /\ cs' = beforeOptimizing
            \/ EditSize(cs') < EditSize(beforeOptimizing)
            \/ /\ EditSize(cs') = EditSize(beforeOptimizing)
               /\ Len(cs'.ops) < Len(beforeOptimizing.ops)
<1> DEFINE b == beforeOptimizing
           e == cs'
<1>1. /\ Sound(e) /\ Sound(b) /\ Saves(b, e)
      /\ Sum(e.ops, InsertChars) = Sum(b.ops, InsertChars) =>
           /\ Len(e.ops) <= Len(b.ops)
           /\ Len(e.ops) = Len(b.ops) => e = b
  BY RoundDone
<1>2. e = b => pc' = "done"
  BY DEF SecondCollapse
<1> HIDE DEF b, e
<1>3. e.ops \in Ops /\ b.ops \in Ops
  BY <1>1, ChangesetFacts DEF Sound
<1>4. Len(e.ops) \in Nat /\ Len(b.ops) \in Nat
  BY <1>3, OpsBasics
<1>5. PICK p \in Nat, q \in Nat, u \in Nat, v \in Nat :
        /\ p = Sum(b.ops, InsertChars) /\ q = Sum(b.ops, SkipOverChars)
        /\ u = Sum(e.ops, InsertChars) /\ v = Sum(e.ops, SkipOverChars)
  BY <1>3, SumType
<1>6. /\ Total(b, InsertChars) = p /\ Total(b, SkipOverChars) = q
      /\ Total(e, InsertChars) = u /\ Total(e, SkipOverChars) = v
  BY <1>5, TotalIsSum
<1>7. EditSize(b) = p + q /\ EditSize(e) = u + v
  BY <1>6 DEF EditSize
<1>8. u <= p /\ p + v = q + u
  BY <1>1, <1>5 DEF Saves
<1>9. Total(b, InsertChars) - Total(e, InsertChars) = Total(b, SkipOverChars) - Total(e, SkipOverChars)
  BY <1>6, <1>8
<1>10. CASE u < p
  <2>1. EditSize(e) < EditSize(b)
    BY <1>7, <1>8, <1>10
  <2> QED BY <1>9, <2>1 DEF b, e
<1>11. CASE u = p
  <2>1. EditSize(e) = EditSize(b)
    BY <1>7, <1>8, <1>11
  <2>2. Len(e.ops) <= Len(b.ops) /\ (Len(e.ops) = Len(b.ops) => e = b)
    BY <1>1, <1>5, <1>11
  <2>3. Len(e.ops) < Len(b.ops) \/ (pc' = "done" /\ e = b)
    BY <1>2, <1>4, <2>2
  <2> QED BY <1>9, <2>1, <2>3 DEF b, e
<1>12. u < p \/ u = p
  BY <1>8
<1> QED BY <1>10, <1>11, <1>12

\* Every round but the last leaves less to insert and delete, as much less on
\* either side, or as much in fewer operations: the loop, which has no limit
\* on its rounds, ends (JS::optimizeChangeset, 231-241).
THEOREM RoundsShrink == Spec => EveryRoundShrinks
<1>1. Inv /\ [Next]_vars =>
        [pc = "recollapse" =>
           /\ Total(beforeOptimizing, InsertChars) - Total(cs', InsertChars)
                = Total(beforeOptimizing, SkipOverChars) - Total(cs', SkipOverChars)
           /\ \/ pc' = "done" /\ cs' = beforeOptimizing
              \/ EditSize(cs') < EditSize(beforeOptimizing)
              \/ /\ EditSize(cs') = EditSize(beforeOptimizing)
                 /\ Len(cs'.ops) < Len(beforeOptimizing.ops)]_vars
  <2> SUFFICES ASSUME Inv, Next, pc = "recollapse"
               PROVE  /\ Total(beforeOptimizing, InsertChars) - Total(cs', InsertChars)
                           = Total(beforeOptimizing, SkipOverChars) - Total(cs', SkipOverChars)
                      /\ \/ pc' = "done" /\ cs' = beforeOptimizing
                         \/ EditSize(cs') < EditSize(beforeOptimizing)
                         \/ /\ EditSize(cs') = EditSize(beforeOptimizing)
                            /\ Len(cs'.ops) < Len(beforeOptimizing.ops)
    OBVIOUS
  <2>1. SecondCollapse
    BY DEF Next, Create, FirstCollapse, OptimizePass
  <2> QED BY <2>1, LastStepShrinks
<1> QED BY <1>1, Invariance, PTL DEF Spec, EveryRoundShrinks

----------------------------------------------------------------------------
(***************************************************************************)
(* applyChangeset: one operation after the other.                          *)
(***************************************************************************)
\* What applyChangeset has written, where it is, and how much of the bank it
\* has used.
States(C) == [text : Seq(C), pos : Nat, bankPos : Nat]

Begin(text) == [text |-> text, pos |-> 0, bankPos |-> 0]

\* Where a list of operations leads.
After(bank, text, ops) == FoldLeft(LAMBDA s, op : ApplyOp(bank, s, op), Begin(text), ops)

\* What a changeset produces depends on its operations and its bank alone.
LEMMA ProducedIsAfter ==
  ASSUME NEW c
  PROVE  Produced(c) = After(c.bank, oldText, c.ops).text
BY DEF Produced, ApplyChangeset, After, Begin

\* What insert makes of a text is one ...
LEMMA InsertType ==
  ASSUME NEW C, SP \in C, NEW text \in Seq(C), NEW pos \in Nat, NEW str \in Seq(C)
  PROVE  QStringInsert(text, pos, str) \in Seq(C)
<1> DEFINE padding == [k \in 1 .. pos - Len(text) |-> SP]
           head == Left(text \o padding, pos)
           tail == Mid(text, pos)
<1>1. padding \in Seq(C)
  <2>1. CASE pos < Len(text)
    <3>1. 1 .. pos - Len(text) = 1 .. 0
      BY <2>1
    <3>2. padding = [k \in 1 .. 0 |-> SP]
      BY <3>1
    <3>3. [k \in 1 .. 0 |-> SP] \in Seq(C)
      OBVIOUS
    <3> QED BY <3>2, <3>3
  <2>2. CASE ~(pos < Len(text))
    BY <2>2
  <2> QED BY <2>1, <2>2
<1>2. text \o padding \in Seq(C)
  BY <1>1
<1>3. head \in Seq(C) /\ tail \in Seq(C)
  BY <1>2, LeftFacts, MidFacts
<1> HIDE DEF padding
<1>4. head \o str \o tail \in Seq(C)
  <2> HIDE DEF head, tail
  <2> QED BY <1>3
<1>5. QStringInsert(text, pos, str) = IF str = <<>> THEN text ELSE head \o str \o tail
  BY DEF QStringInsert, padding
<1> QED BY <1>4, <1>5

\* ... and so is what remove leaves.
LEMMA RemoveType ==
  ASSUME NEW C, NEW text \in Seq(C), NEW pos \in Nat, NEW n \in Nat
  PROVE  QStringRemove(text, pos, n) \in Seq(C)
<1>1. Left(text, pos) \in Seq(C) /\ Mid(text, pos + n) \in Seq(C)
  BY LeftFacts, MidFacts
<1> QED BY <1>1 DEF QStringRemove

\* What each kind of operation does.
LEMMA ApplyFacts ==
  ASSUME NEW C, SP \in C, NEW bank \in Seq(C), NEW s \in States(C), NEW op \in OpSet
  PROVE  LET r == ApplyOp(bank, s, op)
             str == Left(Mid(bank, s.bankPos), op.opLength)
         IN  /\ r \in States(C)
             /\ op.kind = KeepChars =>
                  r.text = s.text /\ r.pos = s.pos + op.opLength /\ r.bankPos = s.bankPos
             /\ op.kind = InsertChars =>
                  /\ r.text = QStringInsert(s.text, s.pos, str)
                  /\ r.pos = s.pos + op.opLength /\ r.bankPos = s.bankPos + op.opLength
             /\ op.kind = SkipOverChars =>
                  /\ r.text = QStringRemove(s.text, s.pos, op.opLength)
                  /\ r.pos = s.pos /\ r.bankPos = s.bankPos
<1> DEFINE r == ApplyOp(bank, s, op)
           str == Left(Mid(bank, s.bankPos), op.opLength)
           n == op.opLength
           written == QStringInsert(s.text, s.pos, str)
           removed == QStringRemove(s.text, s.pos, n)
<1>1. s.text \in Seq(C) /\ s.pos \in Nat /\ s.bankPos \in Nat /\ n \in Nat
      /\ op.kind \in {InsertChars, SkipOverChars, KeepChars}
  BY DEF States, OpSet
<1>2. str \in Seq(C)
  <2>1. Mid(bank, s.bankPos) \in Seq(C)
    BY <1>1, MidFacts
  <2> QED BY <1>1, <2>1, LeftFacts
<1>3. written \in Seq(C) /\ removed \in Seq(C)
  BY <1>1, <1>2, InsertType, RemoveType
<1>4. CASE op.kind = KeepChars
  <2>1. r = [s EXCEPT !.pos = @ + n]
    BY <1>4 DEF ApplyOp, KeepChars, InsertChars, SkipOverChars
  <2>2. s.pos + n \in Nat
    BY <1>1
  <2> QED BY <1>1, <1>4, <2>1, <2>2 DEF States, KeepChars, InsertChars, SkipOverChars
<1>5. CASE op.kind = InsertChars
  <2>1. r = [text |-> written, pos |-> s.pos + n, bankPos |-> s.bankPos + n]
    BY <1>5 DEF ApplyOp, KeepChars, InsertChars, SkipOverChars
  <2>2. s.pos + n \in Nat /\ s.bankPos + n \in Nat
    BY <1>1
  <2> HIDE DEF written, str, removed
  <2>3. r \in States(C)
    BY <1>3, <2>1, <2>2 DEF States
  <2>4. r.text = written /\ r.pos = s.pos + n /\ r.bankPos = s.bankPos + n
    BY <2>1
  <2> QED BY <1>5, <2>3, <2>4 DEF written, str, KeepChars, InsertChars, SkipOverChars
<1>6. CASE op.kind = SkipOverChars
  <2>1. r = [s EXCEPT !.text = removed]
    BY <1>6 DEF ApplyOp, KeepChars, InsertChars, SkipOverChars
  <2> HIDE DEF written, str, removed
  <2>2. r \in States(C) /\ r.text = removed /\ r.pos = s.pos /\ r.bankPos = s.bankPos
    BY <1>1, <1>3, <2>1 DEF States
  <2> QED BY <1>6, <2>2 DEF removed, KeepChars, InsertChars, SkipOverChars
<1> QED BY <1>1, <1>4, <1>5, <1>6

\* F holds the states before and after each operation.
Applies(F, C, bank, text, ops) ==
  /\ F \in [0 .. Len(ops) -> States(C)] /\ F[0] = Begin(text)
  /\ \A i \in 1 .. Len(ops) : F[i] = ApplyOp(bank, F[i - 1], ops[i])

\* Where the operations lead is the last of the states between them.
LEMMA AfterSteps ==
  ASSUME NEW C, SP \in C, NEW bank \in Seq(C), NEW text \in Seq(C), NEW ops \in Ops
  PROVE  \E F : Applies(F, C, bank, text, ops) /\ After(bank, text, ops) = F[Len(ops)]
<1> DEFINE n == Len(ops)
           D == States(C)
           start == Begin(text)
           Is(it) == it = [s \in SUBSET (DOMAIN ops) |->
                             IF s = {} THEN start
                             ELSE LET x == Max(s)
                                  IN  ApplyOp(bank, it[s \ {x}], ops[x])]
           it == CHOOSE f : Is(f)
           h == [p \in D \X OpSet |-> ApplyOp(bank, p[1], p[2])]
<1>1. n \in Nat /\ DOMAIN ops = 1 .. n /\ \A i \in 1 .. n : ops[i] \in OpSet
  BY DEF Ops
<1>2. After(bank, text, ops) = it[DOMAIN ops]
  BY Zenon DEF FoldLeft, MapThenFoldSet, After
<1>3. h \in [D \X OpSet -> D] /\ \A s \in D, op \in OpSet : h[<<s, op>>] = ApplyOp(bank, s, op)
  <2>1. \A s \in D, op \in OpSet : ApplyOp(bank, s, op) \in D
    BY ApplyFacts
  <2> HIDE DEF D
  <2> QED BY <2>1
<1>4. start \in D
  BY DEF States, Begin
<1> HIDE DEF h, D, start
<1>5. IsFold(D, OpSet, start, ops, h)
  BY <1>3, <1>4 DEF IsFold, Ops
<1>6. PICK f : Folds(f, D, start, ops, h)
  BY <1>5, FoldExists
<1>7. Is(f)
  <2>1. f \in [SUBSET (1 .. n) -> D] /\ \A s \in SUBSET (1 .. n) : s = {} => f[s] = start
    BY <1>6 DEF Folds
  <2>2. ASSUME NEW s \in SUBSET (1 .. n), s # {}
        PROVE  f[s] = ApplyOp(bank, f[s \ {Max(s)}], ops[Max(s)])
    <3>1. Max(s) \in 1 .. n
      BY <1>1, <2>2, GreatestMember
    <3>2. f[s \ {Max(s)}] \in D /\ ops[Max(s)] \in OpSet
      BY <1>1, <2>1, <3>1
    <3>3. f[s] = h[<<f[s \ {Max(s)}], ops[Max(s)]>>]
      BY <1>6, <2>2 DEF Folds
    <3> QED BY <1>3, <3>2, <3>3
  <2> QED BY <1>1, <2>1, <2>2, Zenon
<1>8. Is(it)
  <2> HIDE DEF Is
  <2> QED BY <1>7
<1> HIDE DEF it
<1>9. Loops(it, D, start, ops, h)
  <2>1. it[{}] = start
    BY <1>8
  <2>2. ASSUME NEW s \in SUBSET (1 .. n), s # {}, it[s \ {Max(s)}] \in D
        PROVE  it[s] = h[<<it[s \ {Max(s)}], ops[Max(s)]>>]
    <3>1. it[s] = ApplyOp(bank, it[s \ {Max(s)}], ops[Max(s)])
      BY <1>1, <1>8, <2>2, Zenon
    <3>2. ops[Max(s)] \in OpSet
      BY <1>1, <2>2, GreatestMember
    <3> QED BY <1>3, <2>2, <3>1, <3>2
  <2> QED BY <2>1, <2>2 DEF Loops
<1>10. PICK F : Runs(F, D, start, ops, h) /\ F[n] = it[1 .. n]
  BY <1>5, <1>9, FoldRuns
<1>11. Applies(F, C, bank, text, ops)
  <2>1. F \in [0 .. n -> D] /\ F[0] = start /\ \A i \in 1 .. n : F[i] = h[<<F[i - 1], ops[i]>>]
    BY <1>10 DEF Runs
  <2>2. \A i \in 1 .. n : F[i - 1] \in D /\ ops[i] \in OpSet
    BY <1>1, <2>1
  <2> QED BY <1>3, <2>1, <2>2 DEF Applies, D, start
<1> QED BY <1>1, <1>2, <1>10, <1>11

\* There is one such F.
LEMMA AppliesUnique ==
  ASSUME NEW C, NEW bank, NEW text, NEW a \in Ops, NEW b \in Ops, NEW F, NEW G,
         Applies(F, C, bank, text, a), Applies(G, C, bank, text, b),
         NEW m \in Nat, m <= Len(a), m <= Len(b), \A i \in 1 .. m : a[i] = b[i]
  PROVE  F[m] = G[m]
<1> DEFINE T == {i \in 0 .. m : F[i] = G[i]}
<1>1. Len(a) \in Nat /\ Len(b) \in Nat
  BY OpsBasics
<1>2. 0 \in T
  BY DEF Applies
<1>3. ASSUME NEW i \in 0 .. m - 1, i \in T
      PROVE  i + 1 \in T
  <2> DEFINE j == i + 1
  <2>1. j \in 1 .. m /\ j \in 1 .. Len(a) /\ j \in 1 .. Len(b) /\ j - 1 = i /\ j \in 0 .. m
    BY <1>1
  <2> HIDE DEF j
  <2>2. F[j] = ApplyOp(bank, F[i], a[j]) /\ G[j] = ApplyOp(bank, G[i], b[j]) /\ a[j] = b[j]
    BY <2>1 DEF Applies
  <2>3. j \in T
    BY <1>3, <2>1, <2>2
  <2> QED BY <2>3 DEF j
<1>4. 0 .. m \subseteq T
  <2> HIDE DEF T
  <2> QED BY <1>2, <1>3, UpTo
<1> QED BY <1>4

\* No operation leads anywhere.
LEMMA AfterNone ==
  ASSUME NEW C, SP \in C, NEW bank \in Seq(C), NEW text \in Seq(C)
  PROVE  After(bank, text, <<>>) = Begin(text)
<1>1. <<>> \in Ops /\ Len(<<>>) = 0
  BY OpsBasics
<1> QED BY <1>1, AfterSteps DEF Applies

\* One more operation is applied to where the others lead.
LEMMA AfterAppend ==
  ASSUME NEW C, SP \in C, NEW bank \in Seq(C), NEW text \in Seq(C),
         NEW ops \in Ops, NEW op \in OpSet
  PROVE  After(bank, text, ops \o <<op>>) = ApplyOp(bank, After(bank, text, ops), op)
<1> DEFINE all == ops \o <<op>>
           n == Len(ops)
<1>1. all \in Ops /\ Len(all) = n + 1 /\ n \in Nat /\ all[n + 1] = op
      /\ \A i \in 1 .. n : all[i] = ops[i]
  BY DEF Ops
<1> HIDE DEF all
<1>2. PICK F : Applies(F, C, bank, text, ops) /\ After(bank, text, ops) = F[n]
  BY AfterSteps
<1>3. PICK G : Applies(G, C, bank, text, all) /\ After(bank, text, all) = G[n + 1]
  BY <1>1, AfterSteps
<1> HIDE DEF n
<1>4. F[n] = G[n]
  <2>1. ops \in Ops /\ n \in Nat /\ n <= Len(ops) /\ n <= Len(all) /\ \A i \in 1 .. n : ops[i] = all[i]
    BY <1>1 DEF n
  <2> QED BY <1>1, <1>2, <1>3, <2>1, AppliesUnique
<1>5. n + 1 \in 1 .. Len(all) /\ (n + 1) - 1 = n
  BY <1>1
<1>6. G[n + 1] = ApplyOp(bank, G[n], op)
  BY <1>1, <1>3, <1>5 DEF Applies
<1> QED BY <1>2, <1>3, <1>4, <1>6 DEF all

----------------------------------------------------------------------------
(* Two operations of one kind do what the merged one does.                 *)

\* left takes the first of two texts, mid what the second leaves.
LEMMA LeftBefore ==
  ASSUME NEW S, NEW a \in Seq(S), NEW b \in Seq(S)
  PROVE  Left(a \o b, Len(a)) = a
<1> DEFINE u == a \o b
           l == Left(u, Len(a))
<1>1. /\ u \in Seq(S) /\ Len(u) = Len(a) + Len(b) /\ Len(a) \in Nat /\ Len(b) \in Nat
      /\ \A i \in 1 .. Len(a) : u[i] = a[i]
  OBVIOUS
<1> HIDE DEF u
<1>2. /\ l \in Seq(S) /\ Len(l) = IF Len(a) < Len(u) THEN Len(a) ELSE Len(u)
      /\ \A i \in 1 .. Len(l) : l[i] = u[i]
  BY <1>1, LeftFacts
<1> HIDE DEF l
<1>3. Len(l) = Len(a)
  BY <1>1, <1>2
<1>4. \A i \in 1 .. Len(l) : l[i] = a[i]
  BY <1>1, <1>2, <1>3
<1> QED BY <1>2, <1>3, <1>4, SeqEqual DEF l, u

\* mid beyond the first of two texts is mid of the second.
LEMMA MidBeyond ==
  ASSUME NEW S, NEW a \in Seq(S), NEW b \in Seq(S), NEW n \in Nat
  PROVE  Mid(a \o b, Len(a) + n) = Mid(b, n)
<1>1. a \o b \in Seq(S) /\ Len(a) \in Nat
  OBVIOUS
<1>2. Mid(Mid(a \o b, Len(a)), n) = Mid(a \o b, Len(a) + n)
  BY <1>1, MidMid
<1>3. Mid(a \o b, Len(a)) = b
  BY MidBehind
<1> QED BY <1>2, <1>3

\* left of so many characters, taken in two steps.
LEMMA LeftTwice ==
  ASSUME NEW S, NEW s \in Seq(S), NEW m \in Nat, NEW n \in Nat
  PROVE  Left(s, m + n) = Left(s, m) \o Left(Mid(s, m), n)
<1> DEFINE a == Left(s, m)
           d == Mid(s, m)
           b == Left(d, n)
           u == a \o b
           l == Left(s, m + n)
<1>1. /\ a \in Seq(S) /\ Len(a) = (IF m < Len(s) THEN m ELSE Len(s))
      /\ Len(s) \in Nat /\ \A i \in 1 .. Len(a) : a[i] = s[i]
  BY LeftFacts
<1>2. /\ d \in Seq(S) /\ Len(d) = (IF m < Len(s) THEN Len(s) - m ELSE 0)
      /\ \A i \in 1 .. Len(d) : d[i] = s[m + i]
  BY MidFacts
<1> HIDE DEF a, d
<1>3. /\ b \in Seq(S) /\ Len(b) = (IF n < Len(d) THEN n ELSE Len(d))
      /\ \A i \in 1 .. Len(b) : b[i] = d[i]
  BY <1>2, LeftFacts
<1>4. /\ l \in Seq(S) /\ Len(l) = (IF m + n < Len(s) THEN m + n ELSE Len(s))
      /\ \A i \in 1 .. Len(l) : l[i] = s[i]
  BY LeftFacts
<1> HIDE DEF b, l
<1>5. /\ u \in Seq(S) /\ Len(u) = Len(a) + Len(b)
      /\ \A i \in 1 .. Len(a) : u[i] = a[i]
      /\ \A i \in 1 .. Len(b) : u[Len(a) + i] = b[i]
  <2>1. a \in Seq(S) /\ b \in Seq(S)
    BY <1>1, <1>3
  <2> QED BY <2>1
<1> HIDE DEF u
<1>6. Len(u) = Len(l)
  <2> DEFINE x == Len(s)
             la == Len(a)
             ld == Len(d)
             lb == Len(b)
  <2>1. Len(u) = la + lb
    BY <1>5
  <2>2. la = (IF m < x THEN m ELSE x) /\ x \in Nat
    BY <1>1
  <2>3. ld = IF m < x THEN x - m ELSE 0
    BY <1>2
  <2>4. lb = IF n < ld THEN n ELSE ld
    BY <1>3
  <2>5. Len(l) = IF m + n < x THEN m + n ELSE x
    BY <1>4
  <2> HIDE DEF x, la, ld, lb
  <2>6. la + lb = IF m + n < x THEN m + n ELSE x
    BY <2>2, <2>3, <2>4
  <2> QED BY <2>1, <2>5, <2>6
<1>7. \A i \in 1 .. Len(u) : u[i] = l[i]
  <2> TAKE i \in 1 .. Len(u)
  <2>1. CASE i \in 1 .. Len(a)
    BY <1>1, <1>4, <1>5, <1>6, <2>1
  <2>2. CASE i \notin 1 .. Len(a)
    <3> DEFINE k == i - Len(a)
    <3>1. Len(a) \in Nat /\ Len(b) \in Nat /\ Len(u) = Len(a) + Len(b)
      BY <1>1, <1>3, <1>5
    <3>2. k \in 1 .. Len(b) /\ i = Len(a) + k
      BY <2>2, <3>1
    <3>3. Len(b) = (IF n < Len(d) THEN n ELSE Len(d)) /\ Len(d) \in Nat
      BY <1>2, <1>3
    <3>4. k \in 1 .. Len(d)
      BY <3>2, <3>3
    <3>5. Len(d) = (IF m < Len(s) THEN Len(s) - m ELSE 0)
          /\ Len(a) = (IF m < Len(s) THEN m ELSE Len(s))
      BY <1>1, <1>2
    <3>6. Len(a) = m
      BY <3>4, <3>5
    <3>7. l[i] = s[m + k]
      BY <1>4, <1>6, <3>2, <3>6
    <3>8. u[i] = b[k] /\ b[k] = d[k] /\ d[k] = s[m + k]
      BY <1>2, <1>3, <1>5, <3>2, <3>4
    <3> QED BY <3>7, <3>8
  <2> QED BY <2>1, <2>2
<1>8. u = l
  BY <1>4, <1>5, <1>6, <1>7, SeqEqual
<1> QED BY <1>8 DEF u, l, a, b, d

\* insert twice, the second time behind the first.
LEMMA InsertInsert ==
  ASSUME NEW C, SP \in C, NEW text \in Seq(C), NEW pos \in Nat,
         NEW a \in Seq(C), NEW b \in Seq(C)
  PROVE  QStringInsert(QStringInsert(text, pos, a), pos + Len(a), b)
           = QStringInsert(text, pos, a \o b)
<1>1. CASE a = <<>>
  <2>1. a \o b = b /\ pos + Len(a) = pos /\ QStringInsert(text, pos, a) = text
    BY <1>1 DEF QStringInsert
  <2> QED BY <2>1
<1>2. CASE b = <<>>
  <2>1. a \o b = a
    BY <1>2
  <2> QED BY <1>2, <2>1 DEF QStringInsert
<1>3. CASE a # <<>> /\ b # <<>>
  <2> DEFINE padding == [k \in 1 .. pos - Len(text) |-> SP]
             padded == text \o padding
             head == Left(padded, pos)
             tail == Mid(text, pos)
             once == head \o a \o tail
  <2>1. padding \in Seq(C) /\ Len(padding) = IF pos < Len(text) THEN 0 ELSE pos - Len(text)
    <3>1. CASE pos < Len(text)
      <4>1. 1 .. pos - Len(text) = 1 .. 0
        BY <3>1
      <4>2. padding = [k \in 1 .. 0 |-> SP]
        BY <4>1
      <4>3. [k \in 1 .. 0 |-> SP] \in Seq(C) /\ Len([k \in 1 .. 0 |-> SP]) = 0
        OBVIOUS
      <4> QED BY <3>1, <4>2, <4>3
    <3>2. CASE ~(pos < Len(text))
      <4>1. pos - Len(text) \in Nat
        BY <3>2
      <4>2. padding \in Seq(C) /\ Len(padding) = pos - Len(text)
        BY <4>1
      <4> QED BY <3>2, <4>2
    <3> QED BY <3>1, <3>2
  <2> HIDE DEF padding
  <2>2. padded \in Seq(C) /\ Len(padded) >= pos
    BY <2>1
  <2> HIDE DEF padded
  <2>3. head \in Seq(C) /\ Len(head) = pos /\ tail \in Seq(C)
    BY <2>2, LeftFacts, MidFacts
  <2>4. QStringInsert(text, pos, a) = once /\ QStringInsert(text, pos, a \o b) = head \o (a \o b) \o tail
    BY <1>3 DEF QStringInsert, padded, padding
  <2> HIDE DEF head, tail
  <2> DEFINE p == pos + Len(a)
             h == head \o a
  <2>5. h \in Seq(C) /\ Len(h) = p /\ once = h \o tail /\ p \in Nat
    <3> HIDE DEF once, p
    <3>1. head \in Seq(C)
      BY <2>3
    <3>2. h \in Seq(C) /\ Len(h) = Len(head) + Len(a) /\ Len(a) \in Nat
      BY <3>1
    <3>3. Len(h) = p /\ p \in Nat
      BY <2>3, <3>2 DEF p
    <3>4. once = h \o tail
      BY DEF once
    <3> QED BY <3>2, <3>3, <3>4
  <2>6. once \in Seq(C) /\ Len(once) >= p /\ Len(once) \in Nat
    BY <2>3, <2>5
  <2>7. Left(once, p) = h /\ Mid(once, p) = tail
    BY <2>3, <2>5, LeftBefore, MidBehind
  <2> HIDE DEF once, p
  <2>8. Left(once \o [k \in 1 .. p - Len(once) |-> SP], p) = Left(once, p)
    <3>1. 1 .. p - Len(once) = 1 .. 0
      BY <2>5, <2>6
    <3>2. [k \in 1 .. p - Len(once) |-> SP] = [k \in 1 .. 0 |-> SP]
      BY <3>1
    <3>3. once \o [k \in 1 .. 0 |-> SP] = once
      BY <2>6
    <3> QED BY <3>2, <3>3
  <2>9. QStringInsert(once, p, b) = h \o b \o tail
    BY <1>3, <2>7, <2>8 DEF QStringInsert
  <2>10. h \o b \o tail = head \o (a \o b) \o tail
    BY <2>3
  <2> QED BY <2>4, <2>9, <2>10 DEF p
<1> QED BY <1>1, <1>2, <1>3

\* remove twice at one place.
LEMMA RemoveRemove ==
  ASSUME NEW C, NEW text \in Seq(C), NEW pos \in Nat, NEW m \in Nat, NEW n \in Nat
  PROVE  QStringRemove(QStringRemove(text, pos, m), pos, n) = QStringRemove(text, pos, m + n)
<1> DEFINE head == Left(text, pos)
           tail == Mid(text, pos + m)
           once == head \o tail
<1>1. /\ head \in Seq(C) /\ Len(head) = (IF pos < Len(text) THEN pos ELSE Len(text))
      /\ tail \in Seq(C) /\ Len(text) \in Nat
  BY LeftFacts, MidFacts
<1>2. Len(tail) = IF pos + m < Len(text) THEN Len(text) - (pos + m) ELSE 0
  BY MidFacts
<1>3. Mid(tail, n) = Mid(text, pos + (m + n))
  <2> DEFINE q == pos + m
  <2>1. q \in Nat /\ q + n = pos + (m + n)
    OBVIOUS
  <2>2. tail = Mid(text, q)
    OBVIOUS
  <2> HIDE DEF q, tail
  <2>3. Mid(Mid(text, q), n) = Mid(text, q + n)
    BY <2>1, MidMid
  <2> QED BY <2>1, <2>3, <2>2
<1> HIDE DEF head, tail
<1>4. Left(once, pos) = head /\ Mid(once, pos + n) = Mid(tail, n)
  <2>1. CASE pos < Len(text)
    <3>1. Len(head) = pos
      BY <1>1, <2>1
    <3>2. Left(once, Len(head)) = head /\ Mid(once, Len(head) + n) = Mid(tail, n)
      BY <1>1, LeftBefore, MidBeyond
    <3> QED BY <3>1, <3>2
  <2>2. CASE ~(pos < Len(text))
    <3>1. Len(tail) = 0 /\ Len(head) <= pos /\ Len(head) \in Nat
      BY <1>1, <1>2, <2>2
    <3>2. tail = <<>> /\ once = head
      BY <1>1, <3>1
    <3>3. Left(head, pos) = head
      <4>1. /\ Left(head, pos) \in Seq(C)
            /\ Len(Left(head, pos)) = (IF pos < Len(head) THEN pos ELSE Len(head))
            /\ \A i \in 1 .. Len(Left(head, pos)) : Left(head, pos)[i] = head[i]
        BY <1>1, LeftFacts
      <4>2. Len(Left(head, pos)) = Len(head)
        BY <3>1, <4>1
      <4> QED BY <1>1, <4>1, <4>2, SeqEqual
    <3>4. Mid(head, pos + n) = <<>> /\ Mid(tail, n) = <<>>
      <4>1. Len(Mid(head, pos + n)) = 0 /\ Mid(head, pos + n) \in Seq(C)
        BY <1>1, <3>1, MidFacts
      <4>2. /\ Mid(tail, n) \in Seq(C)
            /\ Len(Mid(tail, n)) = IF n < Len(tail) THEN Len(tail) - n ELSE 0
        BY <1>1, MidFacts
      <4>3. Len(Mid(tail, n)) = 0
        BY <3>1, <4>2
      <4> QED BY <4>1, <4>2, <4>3
    <3> QED BY <3>2, <3>3, <3>4
  <2> QED BY <2>1, <2>2
<1> QED BY <1>3, <1>4 DEF QStringRemove, head, tail

\* Two operations of one kind do what JS::collapse's merged one does.
LEMMA MergeApplies ==
  ASSUME NEW C, SP \in C, NEW bank \in Seq(C), NEW s \in States(C),
         NEW op \in OpSet, NEW next \in OpSet, op.kind = next.kind
  PROVE  ApplyOp(bank, ApplyOp(bank, s, op), next) = ApplyOp(bank, s, Merge(op, next))
<1> DEFINE r == ApplyOp(bank, s, op)
           e == ApplyOp(bank, r, next)
           w == ApplyOp(bank, s, Merge(op, next))
           m == op.opLength
           n == next.opLength
<1>1. /\ s.text \in Seq(C) /\ s.pos \in Nat /\ s.bankPos \in Nat
      /\ m \in Nat /\ n \in Nat /\ op.kind \in {InsertChars, SkipOverChars, KeepChars}
  BY DEF States, OpSet
<1>2. Merge(op, next) \in OpSet /\ Merge(op, next).kind = op.kind /\ Merge(op, next).opLength = m + n
  BY MergeType
<1> DEFINE strR == Left(Mid(bank, s.bankPos), m)
           strE == Left(Mid(bank, r.bankPos), n)
           strW == Left(Mid(bank, s.bankPos), m + n)
<1>3. /\ r \in States(C)
      /\ op.kind = KeepChars => r.text = s.text /\ r.pos = s.pos + m /\ r.bankPos = s.bankPos
      /\ op.kind = InsertChars =>
           /\ r.text = QStringInsert(s.text, s.pos, strR)
           /\ r.pos = s.pos + m /\ r.bankPos = s.bankPos + m
      /\ op.kind = SkipOverChars =>
           /\ r.text = QStringRemove(s.text, s.pos, m)
           /\ r.pos = s.pos /\ r.bankPos = s.bankPos
  BY ApplyFacts
<1> HIDE DEF r
<1>4. /\ e \in States(C)
      /\ op.kind = KeepChars => e.text = r.text /\ e.pos = r.pos + n /\ e.bankPos = r.bankPos
      /\ op.kind = InsertChars =>
           /\ e.text = QStringInsert(r.text, r.pos, strE)
           /\ e.pos = r.pos + n /\ e.bankPos = r.bankPos + n
      /\ op.kind = SkipOverChars =>
           /\ e.text = QStringRemove(r.text, r.pos, n)
           /\ e.pos = r.pos /\ e.bankPos = r.bankPos
  BY <1>3, ApplyFacts
<1>5. /\ w \in States(C)
      /\ op.kind = KeepChars => w.text = s.text /\ w.pos = s.pos + (m + n) /\ w.bankPos = s.bankPos
      /\ op.kind = InsertChars =>
           /\ w.text = QStringInsert(s.text, s.pos, strW)
           /\ w.pos = s.pos + (m + n) /\ w.bankPos = s.bankPos + (m + n)
      /\ op.kind = SkipOverChars =>
           /\ w.text = QStringRemove(s.text, s.pos, m + n)
           /\ w.pos = s.pos /\ w.bankPos = s.bankPos
  <2> DEFINE o == Merge(op, next)
  <2>1. o \in OpSet /\ o.kind = op.kind /\ o.opLength = m + n
    BY <1>2
  <2> HIDE DEF o
  <2>2. LET v == ApplyOp(bank, s, o)
            str == Left(Mid(bank, s.bankPos), o.opLength)
        IN  /\ v \in States(C)
            /\ o.kind = KeepChars =>
                 v.text = s.text /\ v.pos = s.pos + o.opLength /\ v.bankPos = s.bankPos
            /\ o.kind = InsertChars =>
                 /\ v.text = QStringInsert(s.text, s.pos, str)
                 /\ v.pos = s.pos + o.opLength /\ v.bankPos = s.bankPos + o.opLength
            /\ o.kind = SkipOverChars =>
                 /\ v.text = QStringRemove(s.text, s.pos, o.opLength)
                 /\ v.pos = s.pos /\ v.bankPos = s.bankPos
    BY <2>1, ApplyFacts
  <2>3. w = ApplyOp(bank, s, o)
    BY DEF o
  <2> QED BY <2>1, <2>2, <2>3
<1> HIDE DEF e, w, m, n
<1>6. e.text = w.text /\ e.pos = w.pos /\ e.bankPos = w.bankPos
  <2>1. CASE op.kind = KeepChars
    <3>1. s.pos + m + n = s.pos + (m + n)
      BY <1>1
    <3> QED BY <1>3, <1>4, <1>5, <2>1, <3>1
  <2>2. CASE op.kind = InsertChars
    <3> HIDE DEF strR, strE, strW
    <3>1. s.pos + m + n = s.pos + (m + n) /\ s.bankPos + m + n = s.bankPos + (m + n)
      BY <1>1
    <3>2. e.pos = w.pos /\ e.bankPos = w.bankPos
      BY <1>3, <1>4, <1>5, <2>2, <3>1
    <3>3. strR \in Seq(C) /\ strE \in Seq(C) /\ strW = strR \o strE
      <4> DEFINE rest == Mid(bank, s.bankPos)
      <4>1. rest \in Seq(C) /\ Mid(bank, r.bankPos) \in Seq(C)
            /\ Mid(bank, r.bankPos) = Mid(rest, m)
        <5>1. r.bankPos = s.bankPos + m
          BY <1>3, <2>2
        <5>2. Mid(bank, s.bankPos) \in Seq(C) /\ Mid(Mid(bank, s.bankPos), m) = Mid(bank, s.bankPos + m)
          BY <1>1, MidFacts, MidMid
        <5>3. Mid(rest, m) \in Seq(C)
          BY <1>1, <5>2, MidFacts
        <5> QED BY <5>1, <5>2, <5>3
      <4> HIDE DEF rest
      <4>2. strR = Left(rest, m) /\ strE = Left(Mid(rest, m), n) /\ strW = Left(rest, m + n)
        BY <4>1 DEF strR, strE, strW, rest
      <4>3. Left(rest, m) \in Seq(C) /\ Left(Mid(rest, m), n) \in Seq(C)
        BY <1>1, <4>1, LeftFacts
      <4>4. Left(rest, m + n) = Left(rest, m) \o Left(Mid(rest, m), n)
        BY <1>1, <4>1, LeftTwice
      <4> QED BY <4>2, <4>3, <4>4
    <3>4. CASE strE = <<>>
      <4>1. strW = strR
        BY <3>3, <3>4
      <4>2. e.text = r.text
        BY <1>4, <2>2, <3>4 DEF QStringInsert
      <4> QED BY <1>3, <1>5, <2>2, <3>2, <4>1, <4>2
    <3>5. CASE strE # <<>>
      <4>1. Len(strR) = m
        <5> DEFINE rest == Mid(bank, s.bankPos)
        <5>1. rest \in Seq(C)
          BY <1>1, MidFacts
        <5>2. Mid(bank, r.bankPos) = Mid(rest, m)
          <6>1. r.bankPos = s.bankPos + m
            BY <1>3, <2>2
          <6>2. Mid(Mid(bank, s.bankPos), m) = Mid(bank, s.bankPos + m)
            BY <1>1, MidMid
          <6> QED BY <6>1, <6>2
        <5> HIDE DEF rest
        <5>3. Len(strR) = IF m < Len(rest) THEN m ELSE Len(rest)
          BY <1>1, <5>1, LeftFacts DEF strR, rest
        <5> DEFINE d == Mid(rest, m)
        <5>4. d \in Seq(C) /\ Len(d) = (IF m < Len(rest) THEN Len(rest) - m ELSE 0)
          BY <1>1, <5>1, MidFacts
        <5> HIDE DEF d
        <5>5. strE = Left(d, n)
          BY <5>2 DEF strE, d
        <5>6. Len(strE) = (IF n < Len(d) THEN n ELSE Len(d)) /\ strE \in Seq(C)
          BY <1>1, <5>4, <5>5, LeftFacts
        <5>7. Len(strE) # 0
          BY <3>5, <5>6
        <5>8. Len(d) # 0
          BY <1>1, <5>4, <5>6, <5>7
        <5>9. m < Len(rest)
          BY <5>4, <5>8
        <5> QED BY <5>3, <5>9
      <4>2. r.pos = s.pos + Len(strR)
        BY <1>3, <2>2, <4>1
      <4>3. QStringInsert(QStringInsert(s.text, s.pos, strR), s.pos + Len(strR), strE)
              = QStringInsert(s.text, s.pos, strR \o strE)
        <5>1. \A t \in Seq(C), p \in Nat, a \in Seq(C), b \in Seq(C) :
                QStringInsert(QStringInsert(t, p, a), p + Len(a), b) = QStringInsert(t, p, a \o b)
          BY InsertInsert
        <5> QED BY <1>1, <3>3, <5>1, ZenonT(40)
      <4>4. e.text = w.text
        BY <1>3, <1>4, <1>5, <2>2, <3>3, <4>2, <4>3
      <4> QED BY <3>2, <4>4
    <3> QED BY <3>4, <3>5
  <2>3. CASE op.kind = SkipOverChars
    <3>1. QStringRemove(QStringRemove(s.text, s.pos, m), s.pos, n) = QStringRemove(s.text, s.pos, m + n)
      BY <1>1, RemoveRemove
    <3> QED BY <1>3, <1>4, <1>5, <2>3, <3>1
  <2> QED BY <1>1, <2>1, <2>2, <2>3
<1>7. e = w
  BY <1>4, <1>5, <1>6 DEF States
<1> QED BY <1>7 DEF e, w, r

\* Collapsing changes nothing of what the operations write.
LEMMA CollapseApplies ==
  ASSUME NEW C, SP \in C, NEW bank \in Seq(C), NEW text \in Seq(C), NEW ops \in Ops
  PROVE  After(bank, text, CollapseOps(ops)).text = After(bank, text, ops).text
<1> DEFINE n == Len(ops)
           pieces == [i \in 1 .. n |-> Piece(ops, i)]
           At(i) == IF i # 0 /\ Couple(ops, i) THEN i + 1 ELSE i
<1>1. n \in Nat /\ \A i \in 1 .. n : ops[i] \in OpSet
  BY DEF Ops
<1>2. pieces \in Seq(Ops) /\ Len(pieces) = n
  <2>1. \A i \in 1 .. n : Piece(ops, i) \in Ops
    BY PieceFacts
  <2> QED BY <1>1, <2>1
<1>3. CollapseOps(ops) = FlattenSeq(pieces) /\ \A i \in 1 .. n : pieces[i] = Piece(ops, i)
  BY CollapsePieces
<1> HIDE DEF pieces
<1>4. PICK J : Joins(J, pieces) /\ FlattenSeq(pieces) = J[n]
  BY <1>2, Joined
<1>5. /\ J \in [0 .. n -> Ops] /\ J[0] = <<>> /\ FlattenSeq(pieces) = J[n]
      /\ \A i \in 1 .. n : J[i] = J[i - 1] \o pieces[i]
  BY <1>2, <1>4 DEF Joins
<1>6. PICK F : Applies(F, C, bank, text, ops) /\ After(bank, text, ops) = F[n]
  BY AfterSteps
<1>7. /\ F \in [0 .. n -> States(C)] /\ F[0] = Begin(text)
      /\ \A i \in 1 .. n : F[i] = ApplyOp(bank, F[i - 1], ops[i])
  BY <1>6 DEF Applies
<1> DEFINE A(i) == After(bank, text, J[i])
           T == {i \in 0 .. n : /\ A(i).text = F[At(i)].text
                                /\ i < n => A(i) = F[At(i)]}
<1> HIDE DEF n
<1>8. 0 \in T
  <2>1. A(0) = Begin(text) /\ At(0) = 0
    BY <1>5, AfterNone
  <2> QED BY <1>1, <1>7, <2>1
<1>9. ASSUME NEW i \in 0 .. n - 1, i \in T
      PROVE  i + 1 \in T
  <2> DEFINE j == i + 1
  <2>1. /\ j \in 1 .. n /\ j - 1 = i /\ j \in 0 .. n /\ j # 0 /\ i \in 0 .. n /\ ops[j] \in OpSet
        /\ i # 0 => i \in 1 .. n - 1
        /\ i < n
    BY <1>1
  <2>2. Second(ops, j) <=> i # 0 /\ Couple(ops, i)
    <3>1. CASE i = 0
      <4>1. j = 1 /\ Len(ops) # 0
        BY <1>1, <3>1 DEF n
      <4> QED BY <3>1, <4>1, SecondBehindFirst
    <3>2. CASE i # 0
      <4>1. i \in 1 .. Len(ops) - 1
        BY <2>1, <3>2 DEF n
      <4> QED BY <3>2, <4>1, SecondBehindFirst
    <3> QED BY <3>1, <3>2
  <2>3. A(i) = F[At(i)]
    BY <1>9, <2>1
  <2> HIDE DEF j, T
  <2>4. J[j] = J[i] \o Piece(ops, j) /\ J[i] \in Ops
    BY <1>3, <1>5, <2>1
  <2>5. F[j] = ApplyOp(bank, F[i], ops[j]) /\ F[i] \in States(C) /\ F[j] \in States(C)
    BY <1>7, <2>1
  <2>6. j \in 1 .. Len(ops)
    BY <2>1 DEF n
  <2>7. Piece(ops, j) = <<>> => A(j) = A(i)
    <3> SUFFICES ASSUME Piece(ops, j) = <<>> PROVE A(j) = A(i)
      OBVIOUS
    <3>1. J[j] = J[i]
      BY <2>4 DEF Ops
    <3> QED BY <3>1
  <2>8. CASE Second(ops, j)
    <3>1. At(i) = j /\ At(j) = j
      BY <2>1, <2>2, <2>8 DEF j, Couple
    <3>2. A(j) = F[At(j)]
      BY <2>3, <2>6, <2>7, <2>8, <3>1, PieceFacts
    <3> QED BY <2>1, <3>2 DEF T
  <2>9. CASE Couple(ops, j)
    <3>1. j + 1 \in 1 .. n /\ (j + 1) - 1 = j /\ ops[j + 1] \in OpSet
      BY <1>1, <2>1, <2>9 DEF Couple, n
    <3>2. ~Second(ops, j) /\ ops[j].kind = ops[j + 1].kind
      BY <2>9 DEF Couple
    <3>3. At(i) = i /\ At(j) = j + 1
      BY <2>1, <2>2, <2>9, <3>2
    <3> DEFINE m == Merge(ops[j], ops[j + 1])
    <3>4. m \in OpSet /\ Piece(ops, j) = <<m>>
      BY <2>1, <2>6, <2>9, <3>1, MergeType, PieceFacts
    <3>5. ApplyOp(bank, ApplyOp(bank, F[i], ops[j]), ops[j + 1]) = ApplyOp(bank, F[i], m)
      BY <2>1, <2>5, <3>1, <3>2, MergeApplies
    <3> HIDE DEF m
    <3>6. A(j) = ApplyOp(bank, A(i), m)
      BY <2>4, <3>4, AfterAppend
    <3>7. F[j + 1] = ApplyOp(bank, F[j], ops[j + 1])
      BY <1>7, <3>1
    <3>8. A(j) = F[At(j)]
      BY <2>3, <2>5, <3>3, <3>5, <3>6, <3>7
    <3> QED BY <2>1, <3>8 DEF T
  <2>10. CASE ~Second(ops, j) /\ ~Couple(ops, j)
    <3>1. At(i) = i /\ At(j) = j
      BY <2>2, <2>10
    <3>2. CASE j = Len(ops) /\ ops[j].kind = KeepChars
      <4>1. A(j) = F[i]
        BY <2>3, <2>6, <2>7, <3>1, <3>2, PieceFacts
      <4>2. F[j].text = F[i].text
        BY <2>1, <2>5, <3>2, ApplyFacts
      <4>3. ~(j < n)
        BY <1>1, <3>2 DEF n
      <4> QED BY <2>1, <3>1, <4>1, <4>2, <4>3 DEF T
    <3>3. CASE Piece(ops, j) = <<ops[j]>>
      <4>1. A(j) = ApplyOp(bank, A(i), ops[j])
        BY <2>1, <2>4, <3>3, AfterAppend
      <4>2. A(j) = F[At(j)]
        BY <2>3, <2>5, <3>1, <4>1
      <4> QED BY <2>1, <4>2 DEF T
    <3> QED BY <2>6, <2>10, <3>2, <3>3, PieceFacts
  <2> QED BY <2>8, <2>9, <2>10
<1>10. n \in T
  <2> HIDE DEF T
  <2>1. 0 .. n \subseteq T
    BY <1>1, <1>8, <1>9, UpTo
  <2> QED BY <1>1, <2>1
<1>11. A(n).text = F[At(n)].text
  BY <1>10
<1>12. At(n) = n
  BY <1>1 DEF Couple, n
<1> QED BY <1>3, <1>5, <1>6, <1>11, <1>12

\* JS::collapse merges and drops operations without changing what the changeset
\* produces, for any texts (206-229).
THEOREM CollapseCorrect == Spec => CollapseKeepsText
<1>1. Inv /\ [Next]_vars =>
        [(pc = "collapse" \/ pc = "recollapse") => Produced(cs') = Produced(cs)]_vars
  <2> SUFFICES ASSUME Inv, Next, pc = "collapse" \/ pc = "recollapse"
               PROVE  Produced(cs') = Produced(cs)
    OBVIOUS
  <2>1. cs' = Collapse(cs)
    BY DEF Next, Create, FirstCollapse, OptimizePass, SecondCollapse
  <2>2. cs \in ChangesetSet(Letters) /\ oldText \in Seq(Letters) /\ SP \in Letters
    BY TextsAreLetters DEF Inv, Sound, Letters
  <2>3. cs.ops \in Ops /\ cs.bank \in Seq(Letters)
    BY <2>2, ChangesetFacts
  <2>4. cs'.ops = CollapseOps(cs.ops) /\ cs'.bank = cs.bank
    BY <2>1, <2>2 DEF Collapse, ChangesetSet
  <2>5. After(cs.bank, oldText, CollapseOps(cs.ops)).text = After(cs.bank, oldText, cs.ops).text
    BY <2>2, <2>3, CollapseApplies
  <2>6. Produced(cs) = After(cs.bank, oldText, cs.ops).text
        /\ Produced(cs') = After(cs'.bank, oldText, cs'.ops).text
    BY ProducedIsAfter
  <2> QED BY <2>4, <2>5, <2>6
<1> QED BY <1>1, Invariance, PTL DEF Spec, CollapseKeepsText

----------------------------------------------------------------------------
(***************************************************************************)
(* JS::optimize keeps what a changeset produces.                           *)
(***************************************************************************)
\* What holds where a list of operations leads that stays inside the old text:
\* new text in front of the position, the old text from k on behind it, and the
\* bank is used up; more bank makes no difference.
Leads(C, bank, ops, old, new, k) ==
  /\ bank \in Seq(C) /\ ops \in Ops /\ new \in Seq(C) /\ k \in 0 .. Len(old)
  /\ \A more \in Seq(C) :
       After(bank \o more, old, ops) = [text |-> new \o Mid(old, k), pos |-> Len(new), bankPos |-> Len(bank)]

\* No operation leads to the start of the old text.
LEMMA LeadsNone ==
  ASSUME NEW C, SP \in C, NEW old \in Seq(C)
  PROVE  Leads(C, <<>>, <<>>, old, <<>>, 0)
<1>1. <<>> \in Seq(C) /\ <<>> \in Ops /\ 0 \in 0 .. Len(old)
  BY OpsBasics, EmptySeq
<1>2. ASSUME NEW more \in Seq(C)
      PROVE  After(<<>> \o more, old, <<>>) = [text |-> <<>> \o Mid(old, 0), pos |-> Len(<<>>), bankPos |-> Len(<<>>)]
  <2>1. <<>> \o more = more /\ <<>> \o old = old /\ Len(<<>>) = 0
    OBVIOUS
  <2>2. Mid(old, 0) = old
    BY MidNone
  <2>3. After(more, old, <<>>) = Begin(old)
    BY AfterNone
  <2> QED BY <2>1, <2>2, <2>3 DEF Begin
<1> QED BY <1>1, <1>2 DEF Leads

\* A '=' moves a part of the old text in front of the position.
LEMMA LeadsKeep ==
  ASSUME NEW C, SP \in C, NEW old \in Seq(C), NEW bank, NEW ops, NEW new, NEW k,
         Leads(C, bank, ops, old, new, k),
         NEW op \in OpSet, op.kind = KeepChars, k + op.opLength <= Len(old)
  PROVE  Leads(C, bank, ops \o <<op>>, old, new \o Left(Mid(old, k), op.opLength), k + op.opLength)
<1> DEFINE n == op.opLength
           tail == Mid(old, k)
           part == Left(tail, n)
           rest == Mid(old, k + n)
<1>1. /\ bank \in Seq(C) /\ ops \in Ops /\ new \in Seq(C) /\ k \in Nat /\ n \in Nat /\ Len(old) \in Nat
      /\ k + n \in 0 .. Len(old)
  BY DEF Leads, OpSet
<1>2. tail \in Seq(C) /\ Len(tail) = Len(old) - k
  BY <1>1, MidFacts
<1>3. part \in Seq(C) /\ Len(part) = n
  <2> HIDE DEF tail
  <2> QED BY <1>1, <1>2, LeftFacts
<1>4. rest \in Seq(C) /\ part \o rest = tail
  <2>1. rest \in Seq(C)
    BY <1>1, MidFacts
  <2>2. Mid(tail, n) = rest
    BY <1>1, MidMid
  <2>3. part \o Mid(tail, n) = tail
    BY <1>1, <1>2, LeftMid
  <2> QED BY <2>1, <2>2, <2>3
<1>5. ops \o <<op>> \in Ops
  BY <1>1, OpsBasics, SumOne
<1> HIDE DEF tail, part, rest, n
<1>6. new \o part \in Seq(C) /\ Len(new \o part) = Len(new) + n /\ (new \o part) \o rest = new \o tail
  <2>1. new \in Seq(C) /\ part \in Seq(C) /\ rest \in Seq(C)
    BY <1>1, <1>3, <1>4
  <2>2. (new \o part) \o rest = new \o (part \o rest)
    BY <2>1, ConcatThree
  <2>3. new \o part \in Seq(C) /\ Len(new \o part) = Len(new) + Len(part)
    BY <1>1, <1>3
  <2> QED BY <1>3, <1>4, <2>2, <2>3
<1>7. ASSUME NEW more \in Seq(C)
      PROVE  After(bank \o more, old, ops \o <<op>>)
               = [text |-> (new \o part) \o rest, pos |-> Len(new \o part), bankPos |-> Len(bank)]
  <2> DEFINE s == [text |-> new \o tail, pos |-> Len(new), bankPos |-> Len(bank)]
  <2>1. bank \o more \in Seq(C)
    BY <1>1
  <2>2. After(bank \o more, old, ops) = s
    BY DEF Leads, tail
  <2>3. After(bank \o more, old, ops \o <<op>>) = ApplyOp(bank \o more, After(bank \o more, old, ops), op)
    BY <1>1, <2>1, AfterAppend
  <2>4. ApplyOp(bank \o more, s, op) = [s EXCEPT !.pos = @ + n]
    BY DEF ApplyOp, KeepChars, InsertChars, SkipOverChars, n
  <2> QED BY <1>6, <2>2, <2>3, <2>4
<1>8. Leads(C, bank, ops \o <<op>>, old, new \o part, k + n)
  BY <1>1, <1>5, <1>6, <1>7 DEF Leads, rest
<1> QED BY <1>8 DEF part, tail, n

\* A '-' removes a part of the old text.
LEMMA LeadsSkip ==
  ASSUME NEW C, SP \in C, NEW old \in Seq(C), NEW bank, NEW ops, NEW new, NEW k,
         Leads(C, bank, ops, old, new, k),
         NEW op \in OpSet, op.kind = SkipOverChars, k + op.opLength <= Len(old)
  PROVE  Leads(C, bank, ops \o <<op>>, old, new, k + op.opLength)
<1> DEFINE n == op.opLength
           tail == Mid(old, k)
           rest == Mid(old, k + n)
<1>1. /\ bank \in Seq(C) /\ ops \in Ops /\ new \in Seq(C) /\ k \in Nat /\ n \in Nat /\ Len(old) \in Nat
      /\ k + n \in 0 .. Len(old)
  BY DEF Leads, OpSet
<1>2. tail \in Seq(C) /\ Mid(tail, n) = rest
  BY <1>1, MidFacts, MidMid
<1>3. ops \o <<op>> \in Ops
  BY <1>1, OpsBasics, SumOne
<1> HIDE DEF tail, rest, n
<1>4. QStringRemove(new \o tail, Len(new), n) = new \o rest
  <2>1. Left(new \o tail, Len(new)) = new
    BY <1>1, <1>2, LeftBefore
  <2>2. Mid(new \o tail, Len(new) + n) = Mid(tail, n)
    BY <1>1, <1>2, MidBeyond
  <2> QED BY <1>2, <2>1, <2>2 DEF QStringRemove
<1>5. ASSUME NEW more \in Seq(C)
      PROVE  After(bank \o more, old, ops \o <<op>>)
               = [text |-> new \o rest, pos |-> Len(new), bankPos |-> Len(bank)]
  <2> DEFINE s == [text |-> new \o tail, pos |-> Len(new), bankPos |-> Len(bank)]
  <2>1. bank \o more \in Seq(C)
    BY <1>1
  <2>2. After(bank \o more, old, ops) = s
    BY DEF Leads, tail
  <2>3. After(bank \o more, old, ops \o <<op>>) = ApplyOp(bank \o more, After(bank \o more, old, ops), op)
    BY <1>1, <2>1, AfterAppend
  <2>4. ApplyOp(bank \o more, s, op) = [s EXCEPT !.text = QStringRemove(new \o tail, Len(new), n)]
    BY DEF ApplyOp, KeepChars, InsertChars, SkipOverChars, n
  <2> QED BY <1>4, <2>2, <2>3, <2>4
<1>6. Leads(C, bank, ops \o <<op>>, old, new, k + n)
  BY <1>1, <1>3, <1>5 DEF Leads, rest
<1> QED BY <1>6 DEF n

\* insert between two texts.
LEMMA InsertBetween ==
  ASSUME NEW C, SP \in C, NEW a \in Seq(C), NEW b \in Seq(C), NEW str \in Seq(C)
  PROVE  QStringInsert(a \o b, Len(a), str) = (a \o str) \o b
<1> DEFINE padding == [i \in 1 .. Len(a) - Len(a \o b) |-> SP]
<1>1. a \o b \in Seq(C) /\ Len(a \o b) = Len(a) + Len(b) /\ Len(a) \in Nat /\ Len(b) \in Nat
  OBVIOUS
<1>2. padding \in Seq(C)
  <2> DEFINE m == Len(a) - Len(a \o b)
  <2>1. m \in Int /\ m <= 0
    BY <1>1
  <2> HIDE DEF m
  <2>2. 1 .. m = 1 .. 0
    BY <2>1
  <2>3. [i \in 1 .. 0 |-> SP] \in Seq(C)
    OBVIOUS
  <2>4. [i \in 1 .. m |-> SP] \in Seq(C)
    BY <2>2, <2>3, Zenon
  <2> QED BY <2>4 DEF m
<1>3. CASE str = <<>>
  <2>1. a \o str = a
    BY <1>3
  <2> QED BY <1>3, <2>1 DEF QStringInsert
<1>4. CASE str # <<>>
  <2>1. QStringInsert(a \o b, Len(a), str) = Left((a \o b) \o padding, Len(a)) \o str \o Mid(a \o b, Len(a))
    BY <1>4 DEF QStringInsert
  <2> HIDE DEF padding
  <2>2. b \o padding \in Seq(C) /\ (a \o b) \o padding = a \o (b \o padding)
    BY <1>2, ConcatThree
  <2>3. Left(a \o (b \o padding), Len(a)) = a
    BY <2>2, LeftBefore
  <2>4. Mid(a \o b, Len(a)) = b
    BY MidBehind
  <2> QED BY <2>1, <2>2, <2>3, <2>4
<1> QED BY <1>3, <1>4

\* The length of two texts.
LEMMA ConcatLength ==
  ASSUME NEW S, NEW a \in Seq(S), NEW b \in Seq(S)
  PROVE  a \o b \in Seq(S) /\ Len(a \o b) = Len(a) + Len(b)
OBVIOUS

\* A '+' inserts what the bank has for it.
LEMMA LeadsInsert ==
  ASSUME NEW C, SP \in C, NEW old \in Seq(C), NEW bank, NEW ops, NEW new, NEW k,
         Leads(C, bank, ops, old, new, k),
         NEW op \in OpSet, op.kind = InsertChars, NEW str \in Seq(C), Len(str) = op.opLength
  PROVE  Leads(C, bank \o str, ops \o <<op>>, old, new \o str, k)
<1> DEFINE n == op.opLength
           tail == Mid(old, k)
<1>1. /\ bank \in Seq(C) /\ ops \in Ops /\ new \in Seq(C) /\ k \in Nat /\ n \in Nat /\ k \in 0 .. Len(old)
  BY DEF Leads, OpSet
<1>2. tail \in Seq(C)
  BY <1>1, MidFacts
<1>3. ops \o <<op>> \in Ops
  BY <1>1, OpsBasics, SumOne
<1> HIDE DEF tail, n
<1>4. /\ bank \o str \in Seq(C) /\ new \o str \in Seq(C)
      /\ Len(bank \o str) = Len(bank) + n /\ Len(new \o str) = Len(new) + n
  <2>1. bank \in Seq(C) /\ new \in Seq(C) /\ str \in Seq(C)
    BY <1>1
  <2>2. bank \o str \in Seq(C) /\ Len(bank \o str) = Len(bank) + Len(str)
    BY <2>1, ConcatLength, Zenon
  <2>3. new \o str \in Seq(C) /\ Len(new \o str) = Len(new) + Len(str)
    BY <2>1, ConcatLength, Zenon
  <2> QED BY <2>2, <2>3 DEF n
<1>5. ASSUME NEW more \in Seq(C)
      PROVE  After((bank \o str) \o more, old, ops \o <<op>>)
               = [text |-> (new \o str) \o tail, pos |-> Len(new \o str), bankPos |-> Len(bank \o str)]
  <2> DEFINE all == (bank \o str) \o more
             s == [text |-> new \o tail, pos |-> Len(new), bankPos |-> Len(bank)]
  <2>1. str \o more \in Seq(C) /\ all = bank \o (str \o more) /\ all \in Seq(C)
    <3>1. str \o more \in Seq(C)
      OBVIOUS
    <3>2. all = bank \o (str \o more)
      BY <1>1, ConcatThree
    <3>3. bank \o (str \o more) \in Seq(C)
      BY <1>1, <3>1
    <3> QED BY <3>1, <3>2, <3>3
  <2> HIDE DEF all
  <2>2. After(all, old, ops) = s
    BY <2>1 DEF Leads, tail
  <2>3. After(all, old, ops \o <<op>>) = ApplyOp(all, After(all, old, ops), op)
    BY <1>1, <2>1, AfterAppend
  <2>4. Left(Mid(all, Len(bank)), n) = str
    <3>1. Mid(bank \o (str \o more), Len(bank)) = str \o more
      BY <1>1, <2>1, MidBehind
    <3>2. Left(str \o more, Len(str)) = str
      BY LeftBefore
    <3> QED BY <2>1, <3>1, <3>2 DEF n
  <2>5. QStringInsert(new \o tail, Len(new), str) = (new \o str) \o tail
    BY <1>1, <1>2, InsertBetween
  <2>6. ApplyOp(all, s, op)
          = [text |-> QStringInsert(new \o tail, Len(new), Left(Mid(all, Len(bank)), n)),
             pos |-> Len(new) + n, bankPos |-> Len(bank) + n]
    BY DEF ApplyOp, KeepChars, InsertChars, SkipOverChars, n
  <2>7. After(all, old, ops \o <<op>>)
          = [text |-> (new \o str) \o tail, pos |-> Len(new \o str), bankPos |-> Len(bank \o str)]
    BY <1>4, <2>2, <2>3, <2>4, <2>5, <2>6
  <2> QED BY <2>7 DEF all
<1> QED BY <1>1, <1>3, <1>4, <1>5 DEF Leads, tail

\* How many characters the '-' held back deletes.
Waiting(s) == IF s.prevPart = <<>> THEN 0 ELSE s.prevPart[1].opLength

\* What the scan has written leads to new and, behind the '-' held back, to k.
Written(C, s, old, new, k) ==
  /\ Waiting(s) <= k /\ k <= Len(old)
  /\ Leads(C, s.bank, s.ops, old, new, k - Waiting(s))

\* The rest of the text is that of the old text, from the '-' held back on.
InPlace(s, old, k) == s.text = Mid(old, k - Waiting(s))

\* What is held back, and to append it.
LEMMA WaitingFacts ==
  ASSUME NEW C, NEW s \in Scan(C)
  PROVE  /\ Waiting(s) \in Nat
         /\ s.prevPart = <<>> => Waiting(s) = 0 /\ Out(s) = s.ops /\ Ahead(s) = s.text
         /\ s.prevPart # <<>> =>
              /\ s.prevPart[1] \in OpSet /\ s.prevPart[1].kind = SkipOverChars
              /\ Waiting(s) = s.prevPart[1].opLength
              /\ s.prevPart = <<s.prevPart[1]>>
              /\ Out(s) = s.ops \o <<s.prevPart[1]>>
              /\ Ahead(s) = Mid(s.text, Waiting(s))
<1>1. CASE s.prevPart = <<>>
  BY <1>1, OutFacts DEF Waiting
<1>2. CASE s.prevPart # <<>>
  <2>1. s.prevPart[1] \in Deletion /\ s.prevPart = <<s.prevPart[1]>> /\ Ahead(s) = Mid(s.text, s.prevPart[1].opLength)
    BY <1>2, OutFacts
  <2>2. Waiting(s) = s.prevPart[1].opLength
    BY <1>2 DEF Waiting
  <2>3. Out(s) = s.ops \o <<s.prevPart[1]>>
    BY <2>1 DEF Out
  <2>4. s.prevPart[1] \in OpSet /\ s.prevPart[1].kind = SkipOverChars /\ s.prevPart[1].opLength \in Nat
    BY <2>1 DEF Deletion, OpSet
  <2> QED BY <1>2, <2>1, <2>2, <2>3, <2>4
<1> QED BY <1>1, <1>2

\* With the '-' held back, the scan has written what leads to new and k.
LEMMA WrittenOut ==
  ASSUME NEW C, SP \in C, NEW old \in Seq(C), NEW s \in Scan(C), NEW new, NEW k \in Nat,
         Written(C, s, old, new, k)
  PROVE  Leads(C, s.bank, Out(s), old, new, k)
<1>1. Waiting(s) \in Nat /\ Len(old) \in Nat
  <2>1. Waiting(s) \in Nat
    BY WaitingFacts, Zenon
  <2> QED BY <2>1
<1>2. Waiting(s) <= k /\ k <= Len(old) /\ Leads(C, s.bank, s.ops, old, new, k - Waiting(s))
  BY DEF Written
<1>3. CASE s.prevPart = <<>>
  <2>1. Waiting(s) = 0 /\ Out(s) = s.ops
    BY <1>3, WaitingFacts
  <2>2. k - Waiting(s) = k
    BY <2>1
  <2> QED BY <1>2, <2>1, <2>2
<1>4. CASE s.prevPart # <<>>
  <2> DEFINE del == s.prevPart[1]
             j == k - Waiting(s)
  <2>1. del \in OpSet /\ del.kind = SkipOverChars /\ del.opLength = Waiting(s) /\ Out(s) = s.ops \o <<del>>
    BY <1>4, WaitingFacts
  <2> HIDE DEF del
  <2>2. j + del.opLength = k /\ j + del.opLength <= Len(old)
    BY <1>1, <1>2, <2>1
  <2>3. Leads(C, s.bank, s.ops, old, new, j)
    BY <1>2
  <2> HIDE DEF j
  <2>4. Leads(C, s.bank, s.ops \o <<del>>, old, new, j + del.opLength)
    BY <2>1, <2>2, <2>3, LeadsSkip
  <2> QED BY <2>1, <2>2, <2>4
<1> QED BY <1>3, <1>4

\* Behind the '-' held back the scan is at k.
LEMMA AheadInPlace ==
  ASSUME NEW C, NEW old \in Seq(C), NEW s \in Scan(C), NEW k \in Nat,
         Waiting(s) <= k, InPlace(s, old, k)
  PROVE  Ahead(s) = Mid(old, k)
<1>1. Waiting(s) \in Nat
  BY WaitingFacts
<1>2. CASE s.prevPart = <<>>
  <2>1. Waiting(s) = 0 /\ Ahead(s) = s.text
    BY <1>2, WaitingFacts
  <2>2. k - Waiting(s) = k
    BY <2>1
  <2> QED BY <2>1, <2>2 DEF InPlace
<1>3. CASE s.prevPart # <<>>
  <2> DEFINE w == Waiting(s)
             j == k - w
  <2>1. j \in Nat /\ j + w = k
    BY <1>1
  <2>2. Ahead(s) = Mid(s.text, w) /\ s.text = Mid(old, j)
    BY <1>3, WaitingFacts DEF InPlace
  <2>3. w \in Nat
    BY <1>1
  <2> HIDE DEF w, j
  <2>4. Mid(Mid(old, j), w) = Mid(old, j + w)
    BY <2>1, <2>3, MidMid
  <2> QED BY <2>1, <2>2, <2>4
<1> QED BY <1>2, <1>3

\* A '=' in the scan.
LEMMA KeepsWritten ==
  ASSUME NEW C, SP \in C, NEW old \in Seq(C), NEW s \in Scan(C), NEW new, NEW k \in Nat,
         Written(C, s, old, new, k),
         NEW op \in OpSet, op.kind = KeepChars, k + op.opLength <= Len(old)
  PROVE  LET t == OptimizeOp(s, op)
         IN  /\ Written(C, t, old, new \o Left(Mid(old, k), op.opLength), k + op.opLength)
             /\ t.rest = s.rest /\ t.prevPart = <<>>
             /\ InPlace(s, old, k) => InPlace(t, old, k + op.opLength)
<1> DEFINE n == op.opLength
           t == [ops |-> Append(Out(s), op), bank |-> s.bank, text |-> Mid(Ahead(s), n),
                 rest |-> s.rest, prevPart |-> <<>>]
           part == new \o Left(Mid(old, k), n)
<1>1. OptimizeOp(s, op) = t
  <2> DEFINE w == [ops |-> Out(s), bank |-> s.bank, text |-> Ahead(s),
                   rest |-> s.rest, prevPart |-> <<>>]
  <2>1. OptimizeOp(s, op) = [w EXCEPT !.text = Mid(@, op.opLength), !.ops = Append(@, op)]
    BY PrevPartWritten DEF OptimizeOp, InsertChars, KeepChars, SkipOverChars
  <2> QED BY <2>1
<1>2. n \in Nat /\ Len(old) \in Nat
  BY DEF OpSet
<1>3. Leads(C, s.bank, Out(s), old, new, k)
  BY WrittenOut
<1>4. Leads(C, s.bank, Out(s) \o <<op>>, old, part, k + n)
  BY <1>3, LeadsKeep
<1>5. Append(Out(s), op) = Out(s) \o <<op>>
  BY OutFacts DEF Ops
<1>6. t.ops = Out(s) \o <<op>> /\ t.bank = s.bank /\ t.prevPart = <<>> /\ t.rest = s.rest /\ t.text = Mid(Ahead(s), n)
  BY <1>5
<1> HIDE DEF t, part, n
<1>7. Waiting(t) = 0 /\ (k + n) - Waiting(t) = k + n
  BY <1>2, <1>6 DEF Waiting
<1>8. Written(C, t, old, part, k + n)
  <2>1. Waiting(t) <= k + n /\ k + n <= Len(old)
    BY <1>2, <1>7 DEF n
  <2>2. Leads(C, t.bank, t.ops, old, part, (k + n) - Waiting(t))
    BY <1>4, <1>6, <1>7
  <2> QED BY <2>1, <2>2 DEF Written
<1>9. ASSUME InPlace(s, old, k)
      PROVE  InPlace(t, old, k + n)
  <2>1. Ahead(s) = Mid(old, k)
    BY <1>9, AheadInPlace DEF Written
  <2>2. Mid(Mid(old, k), n) = Mid(old, k + n)
    BY <1>2, MidMid
  <2> QED BY <1>6, <1>7, <2>1, <2>2 DEF InPlace
<1> QED BY <1>1, <1>6, <1>8, <1>9 DEF n, part

\* A '-' in the scan.
LEMMA SkipsWritten ==
  ASSUME NEW C, SP \in C, NEW old \in Seq(C), NEW s \in Scan(C), NEW new, NEW k \in Nat,
         Written(C, s, old, new, k),
         NEW op \in OpSet, op.kind = SkipOverChars, k + op.opLength <= Len(old)
  PROVE  LET t == OptimizeOp(s, op)
         IN  /\ Written(C, t, old, new, k + op.opLength)
             /\ t.rest = s.rest /\ t.prevPart = <<op>>
             /\ InPlace(s, old, k) => InPlace(t, old, k + op.opLength)
<1> DEFINE n == op.opLength
           t == [ops |-> Out(s), bank |-> s.bank, text |-> Ahead(s),
                 rest |-> s.rest, prevPart |-> <<op>>]
<1>1. OptimizeOp(s, op) = t
  <2> DEFINE w == [ops |-> Out(s), bank |-> s.bank, text |-> Ahead(s),
                   rest |-> s.rest, prevPart |-> <<>>]
  <2>1. OptimizeOp(s, op) = [w EXCEPT !.prevPart = <<op>>]
    BY PrevPartWritten DEF OptimizeOp, InsertChars, KeepChars, SkipOverChars
  <2> QED BY <2>1
<1>2. n \in Nat /\ Len(old) \in Nat
  BY DEF OpSet
<1>3. Leads(C, s.bank, Out(s), old, new, k)
  BY WrittenOut
<1>4. t.ops = Out(s) /\ t.bank = s.bank /\ t.prevPart = <<op>> /\ t.rest = s.rest /\ t.text = Ahead(s)
  OBVIOUS
<1> HIDE DEF t, n
<1>5. Waiting(t) = n
  <2>1. <<op>> # <<>> /\ <<op>>[1] = op
    OBVIOUS
  <2> QED BY <1>4, <2>1 DEF Waiting, n
<1>6. (k + n) - Waiting(t) = k
  BY <1>2, <1>5
<1>7. Written(C, t, old, new, k + n)
  <2>1. Waiting(t) <= k + n /\ k + n <= Len(old)
    BY <1>2, <1>5 DEF n
  <2>2. Leads(C, t.bank, t.ops, old, new, (k + n) - Waiting(t))
    BY <1>3, <1>4, <1>6
  <2> QED BY <2>1, <2>2 DEF Written
<1>8. ASSUME InPlace(s, old, k)
      PROVE  InPlace(t, old, k + n)
  <2>1. Ahead(s) = Mid(old, k)
    BY <1>8, AheadInPlace DEF Written
  <2> QED BY <1>4, <1>6, <2>1 DEF InPlace
<1> QED BY <1>1, <1>4, <1>7, <1>8 DEF n

\* A '+' in the scan, behind no '-'.
LEMMA InsertsWritten ==
  ASSUME NEW C, SP \in C, NEW old \in Seq(C), NEW s \in Scan(C), NEW new, NEW k \in Nat,
         Written(C, s, old, new, k), s.prevPart = <<>>,
         NEW op \in OpSet, op.kind = InsertChars, op.opLength <= Len(s.rest)
  PROVE  LET t == OptimizeOp(s, op)
         IN  /\ Written(C, t, old, new \o Left(s.rest, op.opLength), k)
             /\ t.rest = Mid(s.rest, op.opLength) /\ t.prevPart = <<>>
             /\ InPlace(s, old, k) => InPlace(t, old, k)
<1> DEFINE n == op.opLength
           str == Left(s.rest, n)
           rest == Mid(s.rest, n)
           t == [ops |-> Append(s.ops, op), bank |-> s.bank \o str, text |-> s.text,
                 rest |-> rest, prevPart |-> <<>>]
<1>1. OptimizeOp(s, op) = t
  <2>1. OptimizeOp(s, op) = [s EXCEPT !.bank = @ \o str, !.rest = rest, !.ops = Append(@, op)]
    BY DEF OptimizeOp, InsertChars, KeepChars, SkipOverChars
  <2> HIDE DEF str, rest
  <2> QED BY <2>1 DEF Scan
<1>2. n \in Nat /\ s.rest \in Seq(C) /\ s.ops \in Ops
  BY OutFacts DEF OpSet
<1>3. str \in Seq(C) /\ Len(str) = n
  <2>1. Len(str) = (IF n < Len(s.rest) THEN n ELSE Len(s.rest)) /\ str \in Seq(C)
    BY <1>2, LeftFacts
  <2>2. Len(s.rest) \in Nat
    BY <1>2
  <2> HIDE DEF str
  <2> QED BY <1>2, <2>1, <2>2
<1>4. Waiting(s) = 0 /\ k - Waiting(s) = k
  <2>1. Waiting(s) = 0
    BY DEF Waiting
  <2> QED BY <2>1
<1>5. Leads(C, s.bank, s.ops, old, new, k) /\ k <= Len(old)
  BY <1>4 DEF Written
<1> HIDE DEF str, rest
<1>6. Leads(C, s.bank \o str, s.ops \o <<op>>, old, new \o str, k)
  BY <1>3, <1>5, LeadsInsert
<1>7. Append(s.ops, op) = s.ops \o <<op>>
  BY <1>2 DEF Ops
<1>8. /\ t.ops = s.ops \o <<op>> /\ t.bank = s.bank \o str /\ t.prevPart = <<>>
      /\ t.rest = rest /\ t.text = s.text
  BY <1>7
<1> HIDE DEF t
<1>9. Waiting(t) = 0 /\ k - Waiting(t) = k
  BY <1>8 DEF Waiting
<1>10. Written(C, t, old, new \o str, k)
  <2>1. Waiting(t) <= k
    BY <1>9
  <2> QED BY <1>5, <1>6, <1>8, <1>9, <2>1 DEF Written
<1>11. InPlace(s, old, k) => InPlace(t, old, k)
  BY <1>4, <1>8, <1>9 DEF InPlace
<1> QED BY <1>1, <1>8, <1>10, <1>11 DEF str, rest

\* An operation that is written if it has a length: '=' ...
LEMMA LeadsOneKeep ==
  ASSUME NEW C, SP \in C, NEW old \in Seq(C), NEW bank, NEW ops, NEW new, NEW k,
         Leads(C, bank, ops, old, new, k),
         NEW op \in OpSet, op.kind = KeepChars, k + op.opLength <= Len(old)
  PROVE  Leads(C, bank, ops \o One(op), old, new \o Left(Mid(old, k), op.opLength), k + op.opLength)
<1>1. ops \in Ops /\ new \in Seq(C) /\ k \in Nat /\ op.opLength \in Nat
  BY DEF Leads, OpSet
<1>2. CASE op.opLength > 0
  <2>1. One(op) = <<op>>
    BY <1>2 DEF One
  <2> QED BY <2>1, LeadsKeep
<1>3. CASE op.opLength = 0
  <2>1. One(op) = <<>>
    BY <1>3 DEF One
  <2>2. ops \o One(op) = ops
    BY <1>1, <2>1 DEF Ops
  <2>3. Mid(old, k) \in Seq(C)
    BY <1>1, MidFacts
  <2>4. Left(Mid(old, k), op.opLength) = <<>>
    BY <1>3, <2>3, LeftAll
  <2>5. new \o <<>> = new
    BY <1>1
  <2>6. k + op.opLength = k
    BY <1>1, <1>3
  <2> QED BY <2>2, <2>4, <2>5, <2>6
<1> QED BY <1>1, <1>2, <1>3

\* ... '-' ...
LEMMA LeadsOneSkip ==
  ASSUME NEW C, SP \in C, NEW old \in Seq(C), NEW bank, NEW ops, NEW new, NEW k,
         Leads(C, bank, ops, old, new, k),
         NEW op \in OpSet, op.kind = SkipOverChars, k + op.opLength <= Len(old)
  PROVE  Leads(C, bank, ops \o One(op), old, new, k + op.opLength)
<1>1. ops \in Ops /\ k \in Nat /\ op.opLength \in Nat
  BY DEF Leads, OpSet
<1>2. CASE op.opLength > 0
  <2>1. One(op) = <<op>>
    BY <1>2 DEF One
  <2> QED BY <2>1, LeadsSkip
<1>3. CASE op.opLength = 0
  <2>1. One(op) = <<>>
    BY <1>3 DEF One
  <2>2. ops \o One(op) = ops
    BY <1>1, <2>1 DEF Ops
  <2>3. k + op.opLength = k
    BY <1>1, <1>3
  <2> QED BY <2>2, <2>3
<1> QED BY <1>1, <1>2, <1>3

\* ... and '+'.
LEMMA LeadsOneInsert ==
  ASSUME NEW C, SP \in C, NEW old \in Seq(C), NEW bank, NEW ops, NEW new, NEW k,
         Leads(C, bank, ops, old, new, k),
         NEW op \in OpSet, op.kind = InsertChars, NEW str \in Seq(C), Len(str) = op.opLength
  PROVE  Leads(C, bank \o str, ops \o One(op), old, new \o str, k)
<1>1. ops \in Ops /\ new \in Seq(C) /\ bank \in Seq(C) /\ op.opLength \in Nat
  BY DEF Leads, OpSet
<1>2. CASE op.opLength > 0
  <2>1. One(op) = <<op>>
    BY <1>2 DEF One
  <2> QED BY <2>1, LeadsInsert
<1>3. CASE op.opLength = 0
  <2>1. One(op) = <<>>
    BY <1>3 DEF One
  <2>2. ops \o One(op) = ops
    BY <1>1, <2>1 DEF Ops
  <2>3. str = <<>>
    BY <1>3
  <2>4. new \o <<>> = new /\ bank \o <<>> = bank
    BY <1>1
  <2> QED BY <2>2, <2>3, <2>4
<1> QED BY <1>1, <1>2, <1>3

\* A part of the first m characters is the same part of the text: from its
\* start on, up to its end, and in the middle.
LEMMA PartOfLeft ==
  ASSUME NEW S, NEW s \in Seq(S), NEW m \in Nat, m <= Len(s),
         NEW q \in Nat, NEW r \in Nat, q + r <= m
  PROVE  SubSeq(Left(s, m), q + 1, q + r) = Left(Mid(s, q), r)
<1> DEFINE l == Left(s, m)
           d == Mid(s, q)
           a == SubSeq(l, q + 1, q + r)
           b == Left(d, r)
<1>1. l \in Seq(S) /\ Len(l) = m /\ (\A i \in 1 .. m : l[i] = s[i]) /\ Len(s) \in Nat
  <2>1. /\ l \in Seq(S) /\ Len(l) = (IF m < Len(s) THEN m ELSE Len(s))
        /\ \A i \in 1 .. Len(l) : l[i] = s[i]
    BY LeftFacts
  <2> HIDE DEF l
  <2>2. Len(s) \in Nat
    OBVIOUS
  <2>3. Len(l) = m
    BY <2>1, <2>2
  <2> QED BY <2>1, <2>2, <2>3
<1>2. /\ d \in Seq(S) /\ Len(d) = (IF q < Len(s) THEN Len(s) - q ELSE 0)
      /\ \A i \in 1 .. Len(d) : d[i] = s[q + i]
  BY MidFacts
<1> HIDE DEF l, d
<1>3. Len(d) = Len(s) - q /\ r <= Len(d)
  BY <1>1, <1>2
<1>4. a \in Seq(S) /\ Len(a) = r /\ \A i \in 1 .. r : a[i] = l[q + i]
  BY <1>1
<1>5. b \in Seq(S) /\ Len(b) = r /\ \A i \in 1 .. r : b[i] = d[i]
  <2>1. /\ b \in Seq(S) /\ Len(b) = (IF r < Len(d) THEN r ELSE Len(d))
        /\ \A i \in 1 .. Len(b) : b[i] = d[i]
    BY <1>2, LeftFacts
  <2> HIDE DEF b
  <2>2. Len(b) = r
    BY <1>1, <1>3, <2>1
  <2> QED BY <2>1, <2>2
<1> HIDE DEF a, b
<1>6. \A i \in 1 .. Len(a) : a[i] = b[i]
  <2> SUFFICES ASSUME NEW i \in 1 .. r PROVE a[i] = b[i]
    BY <1>4
  <2>1. q + i \in 1 .. m /\ i \in 1 .. Len(d)
    BY <1>1, <1>3
  <2>2. a[i] = l[q + i] /\ l[q + i] = s[q + i]
    BY <1>1, <1>4, <2>1
  <2>3. b[i] = d[i] /\ d[i] = s[q + i]
    BY <1>2, <1>5, <2>1
  <2> QED BY <2>2, <2>3
<1>7. a = b
  BY <1>4, <1>5, <1>6, SeqEqual
<1> QED BY <1>7 DEF a, b, l, d

\* A '+' behind a '-' of the scan: what both ends have in common is kept, and
\* leads to where the two lead.
LEMMA PairWritten ==
  ASSUME NEW C, SP \in C, NEW old \in Seq(C), NEW s \in Scan(C), NEW new, NEW k \in Nat,
         Written(C, s, old, new, k), InPlace(s, old, k), s.prevPart # <<>>,
         NEW op \in OpSet, op.kind = InsertChars, op.opLength <= Len(s.rest)
  PROVE  LET t == OptimizeOp(s, op)
         IN  /\ Written(C, t, old, new \o Left(s.rest, op.opLength), k)
             /\ t.rest = Mid(s.rest, op.opLength) /\ t.prevPart = <<>>
<1> DEFINE del == s.prevPart[1]
           t0  == Left(s.text, del.opLength)
           p   == Left(s.rest, op.opLength)
           len == CommonSuffix(t0, p)
           i   == CommonPrefix(Left(t0, Len(t0) - len), Left(p, Len(p) - len))
           x   == Count(Mid(t0, Len(t0) - len), NL)
           y   == Count(Left(t0, i), NL)
           a   == Op(KeepChars, i, y, -1)
           b   == Cut(del, len, i, x, y)
           c   == Cut(op, len, i, x, y)
           d   == Op(KeepChars, len, x, -1)
           str == Left(Mid(s.rest, i), c.opLength)
           text == Mid(s.text, i + b.opLength)
           rest == Mid(s.rest, i + c.opLength + len)
           t   == [ops |-> s.ops \o One(a) \o One(b) \o One(c) \o One(d), bank |-> s.bank \o str,
                   text |-> text, rest |-> rest, prevPart |-> <<>>]
           m   == del.opLength
           n   == op.opLength
           j   == k - m
<1>1. OptimizeOp(s, op) = t
  <2>1. OptimizeOp(s, op) = OptimizePair(s, op)
    <3> HIDE DEF del, t0, p, len, i, x, y, a, b, c, d, str, text, rest, t
    <3> QED BY DEF OptimizeOp, InsertChars, KeepChars, SkipOverChars
  <2>2. OptimizePair(s, op) = t
    BY Zenon DEF OptimizePair, One, Cut
  <2> QED BY <2>1, <2>2
<1>2. /\ i \in Nat /\ len \in Nat /\ i + len <= m /\ i + len <= n
      /\ x \in Nat /\ y \in Nat
  <2> HIDE DEF i, len, x, y, del
  <2> QED BY CutsInRange DEF i, len, x, y, del
<1>3. t0 \in Seq(C) /\ p \in Seq(C) /\ s.rest \in Seq(C) /\ s.text \in Seq(C)
  <2>1. m \in Nat /\ n \in Nat
    BY WaitingFacts DEF OpSet
  <2> HIDE DEF del
  <2> QED BY <2>1, OutFacts, LeftFacts
<1>4. Left(t0, i) \o SubSeq(p, i + 1, Len(p) - len) \o Mid(t0, Len(t0) - len) = p
  <2>1. Cuts(t0, p, len, i)
    <3> HIDE DEF t0, p, x, y, a, b, c, d, str, text, rest, t, m, n, j
    <3> QED BY Zenon DEF Cuts
  <2> HIDE DEF t0, p, len, i, x, y, a, b, c, d, str, text, rest, t, m, n, j
  <2>2. Rebuilds(t0, p, len, i)
    BY <1>3, <2>1, CutsRebuild
  <2> QED BY <2>2 DEF Rebuilds
<1> HIDE DEF i, len, x, y
<1>5. /\ del \in OpSet /\ del.kind = SkipOverChars /\ m \in Nat /\ n \in Nat /\ Waiting(s) = m
  BY WaitingFacts DEF OpSet
<1>6. /\ j \in Nat /\ j + m = k /\ k <= Len(old) /\ Len(old) \in Nat
      /\ Leads(C, s.bank, s.ops, old, new, j) /\ s.text = Mid(old, j)
  <2>1. m <= k /\ k <= Len(old) /\ Leads(C, s.bank, s.ops, old, new, k - m) /\ s.text = Mid(old, k - m)
    BY <1>5 DEF Written, InPlace
  <2>2. Len(old) \in Nat
    OBVIOUS
  <2> HIDE DEF m
  <2> QED BY <1>5, <2>1, <2>2
<1> HIDE DEF del, m
<1>7. /\ a \in OpSet /\ a.kind = KeepChars /\ a.opLength = i
      /\ d \in OpSet /\ d.kind = KeepChars /\ d.opLength = len
  <2>1. i \in Nat /\ len \in Nat /\ x \in Int /\ y \in Int
    BY <1>2
  <2>2. a \in OpSet /\ a.kind = KeepChars /\ a.opLength = i
    BY <2>1, KeepType
  <2>3. d \in OpSet /\ d.kind = KeepChars /\ d.opLength = len
    BY <2>1, KeepType
  <2> QED BY <2>2, <2>3, Zenon
<1>8. /\ b \in OpSet /\ b.kind = SkipOverChars /\ b.opLength = m - (i + len)
      /\ c \in OpSet /\ c.kind = InsertChars /\ c.opLength = n - (i + len)
  <2>1. del.opLength = m /\ op.opLength = n
    BY DEF m
  <2>2. i \in Nat /\ len \in Nat /\ x \in Int /\ y \in Int /\ i + len <= del.opLength /\ i + len <= op.opLength
    BY <1>2, <2>1
  <2>3. b \in OpSet /\ b.kind = del.kind /\ b.opLength = del.opLength - (i + len)
    BY <1>5, <2>2, CutFacts
  <2>4. c \in OpSet /\ c.kind = op.kind /\ c.opLength = op.opLength - (i + len)
    <3>1. \A o \in OpSet, e \in Nat, f \in Nat, g \in Int, h \in Int : f + e <= o.opLength =>
            /\ Cut(o, e, f, g, h) \in OpSet /\ Cut(o, e, f, g, h).kind = o.kind
            /\ Cut(o, e, f, g, h).opLength = o.opLength - (f + e)
      BY CutFacts
    <3> QED BY <2>2, <3>1, ZenonT(40)
  <2> HIDE DEF a, b, c, d, m, n
  <2> QED BY <1>5, <2>1, <2>3, <2>4
<1> DEFINE cut == m - (i + len)
           cur == n - (i + len)
<1>9. cut \in Nat /\ cur \in Nat /\ i + cut + len = m /\ i + cur + len = n
  BY <1>2, <1>5
<1> HIDE DEF a, b, c, d, n, j
<1>10. Len(s.text) = Len(old) - j /\ m <= Len(s.text)
  <2>1. Len(Mid(old, j)) = IF j < Len(old) THEN Len(old) - j ELSE 0
    BY <1>6, MidFacts
  <2> QED BY <1>5, <1>6, <2>1
<1>11. t0 = Left(s.text, m) /\ Len(t0) = m
  <2>1. t0 = Left(s.text, m)
    BY DEF m
  <2> HIDE DEF t0
  <2>2. Len(t0) = IF m < Len(s.text) THEN m ELSE Len(s.text)
    BY <1>3, <1>5, <2>1, LeftFacts
  <2>3. Len(s.text) \in Nat
    BY <1>3
  <2> QED BY <1>5, <1>10, <2>1, <2>2, <2>3
<1>12. p = Left(s.rest, n) /\ Len(p) = n
  <2>1. p = Left(s.rest, n)
    BY DEF n
  <2> HIDE DEF p
  <2>2. Len(p) = IF n < Len(s.rest) THEN n ELSE Len(s.rest)
    BY <1>3, <1>5, <2>1, LeftFacts
  <2>3. Len(s.rest) \in Nat /\ n <= Len(s.rest)
    BY <1>3 DEF n
  <2> QED BY <1>5, <2>1, <2>2, <2>3
<1> HIDE DEF t0, p
<1> DEFINE head == Left(Mid(old, j), i)
           tail == Left(Mid(old, j + i + cut), len)
<1>13. Left(t0, i) = head
  <2>1. SubSeq(Left(s.text, m), 0 + 1, 0 + i) = Left(Mid(s.text, 0), i)
    <3>1. s.text \in Seq(C) /\ m \in Nat /\ m <= Len(s.text) /\ 0 \in Nat /\ i \in Nat /\ 0 + i <= m
      BY <1>2, <1>3, <1>5, <1>10
    <3> QED BY <3>1, PartOfLeft, Zenon
  <2>2. Mid(s.text, 0) = Mid(old, j)
    BY <1>3, <1>6, MidNone
  <2>3. Left(t0, i) = SubSeq(t0, 1, i)
    <3>1. i <= m
      BY <1>2, <1>5
    <3> QED BY <1>2, <1>5, <1>11, <3>1 DEF Left
  <2>4. 0 + 1 = 1 /\ 0 + i = i
    BY <1>2
  <2> QED BY <1>11, <2>1, <2>2, <2>3, <2>4
<1>14. Mid(t0, Len(t0) - len) = tail
  <2> DEFINE q == i + cut
  <2>1. q \in Nat /\ q + len = m /\ m - len = q
    BY <1>2, <1>5, <1>9
  <2> HIDE DEF q
  <2>2. SubSeq(Left(s.text, m), q + 1, q + len) = Left(Mid(s.text, q), len)
    <3>1. s.text \in Seq(C) /\ m \in Nat /\ m <= Len(s.text) /\ q \in Nat /\ len \in Nat /\ q + len <= m
      BY <1>2, <1>3, <1>5, <1>10, <2>1
    <3> QED BY <3>1, PartOfLeft, Zenon
  <2>3. Mid(t0, Len(t0) - len) = SubSeq(t0, q + 1, q + len)
    BY <1>11, <2>1 DEF Mid
  <2>4. Mid(s.text, q) = Mid(old, j + q)
    <3>1. j \in Nat /\ s.text = Mid(old, j)
      BY <1>6
    <3>2. Mid(Mid(old, j), q) = Mid(old, j + q)
      BY <2>1, <3>1, MidMid, Zenon
    <3> QED BY <3>1, <3>2, Zenon
  <2>5. j + q = j + i + cut
    BY <1>2, <1>6, <1>9 DEF q
  <2> QED BY <1>11, <2>2, <2>3, <2>4, <2>5
<1>15. SubSeq(p, i + 1, Len(p) - len) = str /\ str \in Seq(C) /\ Len(str) = cur
  <2>1. n <= Len(s.rest) /\ i + cur <= n /\ i + cur = n - len
    BY <1>2, <1>5, <1>9 DEF n
  <2>2. c.opLength = cur
    BY <1>8
  <2> HIDE DEF cur
  <2>3. SubSeq(Left(s.rest, n), i + 1, i + cur) = Left(Mid(s.rest, i), cur)
    <3>1. s.rest \in Seq(C) /\ n \in Nat /\ n <= Len(s.rest) /\ i \in Nat /\ cur \in Nat /\ i + cur <= n
      BY <1>2, <1>3, <1>5, <1>9, <2>1
    <3> QED BY <3>1, PartOfLeft, Zenon
  <2>4. str = Left(Mid(s.rest, i), cur)
    BY <2>2
  <2>5. Mid(s.rest, i) \in Seq(C) /\ Len(Mid(s.rest, i)) = IF i < Len(s.rest) THEN Len(s.rest) - i ELSE 0
    BY <1>2, <1>3, MidFacts
  <2> DEFINE u == Mid(s.rest, i)
  <2>6. Left(u, cur) \in Seq(C) /\ Len(Left(u, cur)) = IF cur < Len(u) THEN cur ELSE Len(u)
    BY <1>9, <2>5, LeftFacts
  <2> HIDE DEF u
  <2>7. Len(u) = (IF i < Len(s.rest) THEN Len(s.rest) - i ELSE 0) /\ Len(s.rest) \in Nat
    BY <1>3, <2>5 DEF u
  <2>8. cur <= Len(u) /\ Len(u) \in Nat
    BY <1>2, <1>5, <1>9, <2>1, <2>7, SMTT(30)
  <2>9. Len(Left(u, cur)) = cur
    BY <1>9, <2>6, <2>8
  <2> QED BY <1>12, <2>1, <2>3, <2>4, <2>6, <2>9 DEF u
<1>16. head \o str \o tail = p
  BY <1>4, <1>13, <1>14, <1>15
<1>17. head \in Seq(C) /\ tail \in Seq(C)
  <2>1. j + i + cut \in Nat
    BY <1>2, <1>6, <1>9
  <2> QED BY <1>2, <1>6, <2>1, MidFacts, LeftFacts
<1>18. /\ j + i <= Len(old) /\ j + i + cut <= Len(old) /\ j + i + cut + len <= Len(old)
       /\ j + i + cut + len = k
  BY <1>2, <1>5, <1>6, <1>9
<1> DEFINE o1 == s.ops \o One(a)
           o2 == o1 \o One(b)
           o3 == o2 \o One(c)
           o4 == o3 \o One(d)
           k1 == j + i
           k2 == k1 + cut
<1>19. cut = b.opLength /\ cur = c.opLength
  BY <1>8
<1> HIDE DEF str, cut, cur
<1>20. Leads(C, s.bank, o1, old, new \o head, k1)
  <2>1. j + a.opLength <= Len(old)
    BY <1>7, <1>18
  <2>2. Leads(C, s.bank, s.ops \o One(a), old, new \o Left(Mid(old, j), a.opLength), j + a.opLength)
    BY <1>6, <1>7, <2>1, LeadsOneKeep
  <2> QED BY <1>7, <2>2
<1> HIDE DEF o1, head, k1
<1>21. Leads(C, s.bank, o2, old, new \o head, k2)
  <2>1. k1 + b.opLength <= Len(old)
    BY <1>18, <1>19 DEF k1
  <2>2. Leads(C, s.bank, o1 \o One(b), old, new \o head, k1 + b.opLength)
    BY <1>8, <1>20, <2>1, LeadsOneSkip
  <2> QED BY <1>19, <2>2
<1> HIDE DEF o2
<1>22. Leads(C, s.bank \o str, o3, old, (new \o head) \o str, k2)
  <2>1. Len(str) = c.opLength
    BY <1>15, <1>19
  <2> QED BY <1>8, <1>15, <1>21, <2>1, LeadsOneInsert
<1> HIDE DEF o3
<1>23. Leads(C, s.bank \o str, o4, old, ((new \o head) \o str) \o tail, k)
  <2>1. k2 = j + i + cut /\ k2 + len = k
    BY <1>18 DEF k1
  <2> HIDE DEF k2
  <2>2. k2 + d.opLength <= Len(old)
    BY <1>6, <1>7, <2>1
  <2>3. Leads(C, s.bank \o str, o3 \o One(d), old,
              ((new \o head) \o str) \o Left(Mid(old, k2), d.opLength), k2 + d.opLength)
    BY <1>7, <1>22, <2>2, LeadsOneKeep
  <2> QED BY <1>7, <2>1, <2>3
<1> HIDE DEF o4, tail
<1>24. ((new \o head) \o str) \o tail = new \o p
  <2>1. new \in Seq(C) /\ head \in Seq(C) /\ str \in Seq(C) /\ tail \in Seq(C)
    BY <1>6, <1>15, <1>17 DEF Leads
  <2>2. ((new \o head) \o str) \o tail = new \o (head \o str \o tail)
    BY <2>1, SMTT(30)
  <2> QED BY <1>16, <2>2
<1>25. rest = Mid(s.rest, n)
  <2>1. i + c.opLength + len = n
    BY <1>9, <1>19
  <2> QED BY <2>1
<1> HIDE DEF text, rest
<1>26. t.ops = o4 /\ t.bank = s.bank \o str /\ t.rest = rest /\ t.prevPart = <<>>
  BY DEF o1, o2, o3, o4
<1> HIDE DEF t
<1>27. Waiting(t) = 0 /\ k - Waiting(t) = k
  BY <1>26 DEF Waiting
<1>28. Written(C, t, old, new \o p, k)
  <2>1. Waiting(t) <= k
    BY <1>27
  <2>2. Leads(C, t.bank, t.ops, old, new \o p, k - Waiting(t))
    BY <1>23, <1>24, <1>26, <1>27
  <2>3. k <= Len(old)
    BY <1>6
  <2> QED BY <2>1, <2>2, <2>3 DEF Written
<1> QED BY <1>1, <1>12, <1>25, <1>26, <1>28, ZenonT(40) DEF n

\* What has been read of the changeset and what the scan has written of it lead
\* to the same new text and as far in the old one; until the first '-' '+'
\* couple, the scan knows where it is in the old text.
Alike(C, c, old, F, P, M, K, i) ==
  \E new :
    /\ Leads(C, Left(c.bank, P[i]), SubSeq(c.ops, 1, i), old, new, K[i] + M[i])
    /\ Written(C, F[i], old, new, K[i] + M[i])
    /\ F[i].rest = Mid(c.bank, P[i])
    /\ F[i].prevPart # <<>> => i # 0 /\ c.ops[i].kind = SkipOverChars
    /\ (\A j \in Replacements(c.ops) : i <= j) => InPlace(F[i], old, K[i] + M[i])

\* A changeset that stays inside the old text and has at most one such couple.
OneCouple(c, old, M, K) ==
  /\ K[Len(c.ops)] + M[Len(c.ops)] <= Len(old)
  /\ \A j, l \in Replacements(c.ops) : j = l

\* They are alike at the start ...
LEMMA StartAlike ==
  ASSUME NEW C, SP \in C, NEW c, NEW old, NEW F, NEW P, NEW M, NEW K, ScanOf(C, c, old, F, P, M, K)
  PROVE  Alike(C, c, old, F, P, M, K, 0)
<1> DEFINE s == OptimizeStart(c, old)
<1>1. c.ops \in Ops /\ c.bank \in Seq(C) /\ old \in Seq(C) /\ Len(old) \in Nat
  BY DEF ScanOf
<1>2. s.bank = <<>> /\ s.ops = <<>> /\ s.rest = c.bank /\ s.text = old /\ s.prevPart = <<>>
  BY DEF OptimizeStart
<1>3. F[0] = s /\ P[0] = 0 /\ M[0] = 0 /\ K[0] = 0
  BY DEF ScanOf, Scanned, Counts
<1> HIDE DEF s
<1>4. Left(c.bank, 0) = <<>> /\ Mid(c.bank, 0) = c.bank /\ Mid(old, 0) = old
  BY <1>1, LeftAll, MidNone
<1>5. SubSeq(c.ops, 1, 0) = <<>>
  BY <1>1 DEF Ops
<1>6. Leads(C, <<>>, <<>>, old, <<>>, 0)
  BY <1>1, LeadsNone
<1>7. Waiting(s) = 0
  BY <1>2 DEF Waiting
<1>8. K[0] + M[0] = 0 /\ 0 - Waiting(s) = 0
  BY <1>3, <1>7
<1>9. Written(C, s, old, <<>>, 0)
  BY <1>1, <1>2, <1>6, <1>7, <1>8 DEF Written
<1>10. InPlace(s, old, 0)
  BY <1>2, <1>4, <1>8 DEF InPlace
<1>11. Leads(C, Left(c.bank, P[0]), SubSeq(c.ops, 1, 0), old, <<>>, K[0] + M[0])
  BY <1>3, <1>4, <1>5, <1>6, <1>8
<1>12. Written(C, F[0], old, <<>>, K[0] + M[0]) /\ InPlace(F[0], old, K[0] + M[0])
  BY <1>3, <1>8, <1>9, <1>10
<1>13. F[0].rest = Mid(c.bank, P[0]) /\ F[0].prevPart = <<>>
  BY <1>2, <1>3, <1>4
<1> QED BY <1>11, <1>12, <1>13 DEF Alike

\* One operation more of a beginning.
LEMMA PrefixGrows ==
  ASSUME NEW ops \in Ops, NEW j \in 1 .. Len(ops)
  PROVE  SubSeq(ops, 1, j) = SubSeq(ops, 1, j - 1) \o <<ops[j]>>
<1> DEFINE i == j - 1
           a == SubSeq(ops, 1, j)
           h == SubSeq(ops, 1, i)
           b == h \o <<ops[j]>>
<1>1. i \in Nat /\ i <= Len(ops) /\ j = i + 1 /\ j \in Nat /\ j <= Len(ops) /\ Len(ops) \in Nat /\ ops[j] \in OpSet
  BY OpsBasics
<1>2. a \in Seq(OpSet) /\ Len(a) = j /\ \A k \in 1 .. j : a[k] = ops[k]
  BY <1>1 DEF Ops
<1>3. h \in Seq(OpSet) /\ Len(h) = i /\ \A k \in 1 .. i : h[k] = ops[k]
  BY <1>1 DEF Ops
<1> HIDE DEF a, h, i
<1>4. b \in Seq(OpSet) /\ Len(b) = j /\ (\A k \in 1 .. i : b[k] = h[k]) /\ b[j] = ops[j]
  BY <1>1, <1>3
<1> HIDE DEF b
<1>5. \A k \in 1 .. Len(a) : a[k] = b[k]
  <2> SUFFICES ASSUME NEW k \in 1 .. j PROVE a[k] = b[k]
    BY <1>2
  <2>1. k = j \/ k \in 1 .. i
    BY <1>1
  <2> QED BY <1>2, <1>3, <1>4, <2>1
<1>6. a = b
  BY <1>2, <1>4, <1>5, SeqEqual
<1> QED BY <1>6 DEF a, b, h, i

\* ... after every operation ...
LEMMA NextAlike ==
  ASSUME NEW C, SP \in C, NEW c, NEW old, NEW F, NEW P, NEW M, NEW K,
         ScanOf(C, c, old, F, P, M, K), OneCouple(c, old, M, K),
         NEW j \in 1 .. Len(c.ops), Alike(C, c, old, F, P, M, K, j - 1)
  PROVE  Alike(C, c, old, F, P, M, K, j)
<1> DEFINE i == j - 1
           op == c.ops[j]
           s == F[i]
           t == F[j]
           n == op.opLength
           k == K[i] + M[i]
           l == K[j] + M[j]
           b == Left(c.bank, P[i])
           h == SubSeq(c.ops, 1, i)
<1>1. i \in Nat /\ j \in Nat /\ j = i + 1 /\ i \in 0 .. Len(c.ops) /\ j \in 0 .. Len(c.ops) /\ Len(c.ops) \in Nat
  BY OpsBasics DEF ScanOf
<1>2. /\ op \in OpSet /\ s \in Scan(C) /\ t = OptimizeOp(s, op) /\ t \in Scan(C)
      /\ c.ops \in Ops /\ c.bank \in Seq(C) /\ old \in Seq(C) /\ Len(c.bank) \in Nat /\ Len(old) \in Nat
  <2>1. c.ops \in Ops /\ c.bank \in Seq(C) /\ old \in Seq(C)
    BY DEF ScanOf
  <2>2. Len(c.bank) \in Nat /\ Len(old) \in Nat
    BY <2>1
  <2>3. op \in OpSet
    BY <2>1, OpsBasics
  <2>4. F \in [0 .. Len(c.ops) -> Scan(C)] /\ F[j] = OptimizeOp(F[i], c.ops[j])
    BY DEF ScanOf, Scanned
  <2> QED BY <1>1, <2>1, <2>2, <2>3, <2>4
<1>3. /\ P[j] = P[i] + Amount(op, InsertChars) /\ P[i] \in Nat /\ P[j] \in Nat /\ P[j] <= Len(c.bank)
      /\ M[j] = M[i] + Amount(op, SkipOverChars) /\ M[i] \in Nat /\ M[j] \in Nat /\ M[j] <= M[Len(c.ops)]
      /\ K[j] = K[i] + Amount(op, KeepChars) /\ K[i] \in Nat /\ K[j] \in Nat /\ K[j] <= K[Len(c.ops)]
  BY CountsGrow DEF ScanOf
<1>4. l <= Len(old)
  <2>1. K[Len(c.ops)] \in Nat /\ M[Len(c.ops)] \in Nat
    <3>1. Len(c.ops) \in 0 .. Len(c.ops)
      BY <1>1
    <3> QED BY <3>1 DEF ScanOf, Counts
  <2>2. K[Len(c.ops)] + M[Len(c.ops)] <= Len(old)
    BY DEF OneCouple
  <2> QED BY <1>2, <1>3, <2>1, <2>2
<1>5. PICK new :
        /\ Leads(C, b, h, old, new, k) /\ Written(C, s, old, new, k)
        /\ s.rest = Mid(c.bank, P[i])
        /\ s.prevPart # <<>> => i # 0 /\ c.ops[i].kind = SkipOverChars
        /\ (\A r \in Replacements(c.ops) : i <= r) => InPlace(s, old, k)
  BY Zenon DEF Alike
<1>6. SubSeq(c.ops, 1, j) = h \o <<op>>
  BY <1>2, PrefixGrows
<1>7. n \in Nat /\ k \in Nat /\ l \in Nat /\ (op.kind = InsertChars \/ op.kind = SkipOverChars \/ op.kind = KeepChars)
  <2>1. k \in Nat /\ l \in Nat
    BY <1>3
  <2>2. n \in Nat /\ op.kind \in {InsertChars, SkipOverChars, KeepChars}
    <3> HIDE DEF op
    <3> QED BY <1>2 DEF OpSet
  <2> QED BY <2>1, <2>2
<1>8. (\A r \in Replacements(c.ops) : j <= r) => \A r \in Replacements(c.ops) : i <= r
  <2>1. \A r \in Replacements(c.ops) : r \in Nat
    BY DEF Replacements
  <2> QED BY <1>1, <2>1
<1> HIDE DEF op, s, t, n, k, b, h, i, l
<1>9. CASE op.kind = KeepChars
  <2>1. Amount(op, InsertChars) = 0 /\ Amount(op, SkipOverChars) = 0 /\ Amount(op, KeepChars) = n
    BY <1>9 DEF Amount, InsertChars, KeepChars, SkipOverChars, n
  <2>2. P[j] = P[i] /\ l = k + n
    BY <1>3, <1>7, <2>1 DEF k, l
  <2> DEFINE next == new \o Left(Mid(old, k), n)
  <2>3. k + op.opLength <= Len(old) /\ op.opLength = n
    BY <1>4, <2>2 DEF n
  <2>4. Leads(C, b, h \o <<op>>, old, next, l)
    BY <1>2, <1>5, <1>9, <2>2, <2>3, LeadsKeep
  <2>5. /\ Written(C, t, old, next, l) /\ t.rest = s.rest /\ t.prevPart = <<>>
        /\ InPlace(s, old, k) => InPlace(t, old, l)
    <3>1. LET u == OptimizeOp(s, op)
          IN  /\ Written(C, u, old, new \o Left(Mid(old, k), op.opLength), k + op.opLength)
              /\ u.rest = s.rest /\ u.prevPart = <<>>
              /\ InPlace(s, old, k) => InPlace(u, old, k + op.opLength)
      BY <1>2, <1>5, <1>7, <1>9, <2>3, KeepsWritten
    <3> QED BY <1>2, <2>2, <2>3, <3>1
  <2> HIDE DEF next
  <2>6. Leads(C, Left(c.bank, P[j]), SubSeq(c.ops, 1, j), old, next, K[j] + M[j])
    BY <1>6, <2>2, <2>4 DEF b, l
  <2>7. F[j].rest = Mid(c.bank, P[j]) /\ F[j].prevPart = <<>>
    BY <1>5, <2>2, <2>5 DEF t
  <2>8. Written(C, F[j], old, next, K[j] + M[j])
    BY <2>5 DEF t, l
  <2>9. (\A r \in Replacements(c.ops) : j <= r) => InPlace(F[j], old, K[j] + M[j])
    BY <1>5, <1>8, <2>5 DEF t, l
  <2> QED BY <2>6, <2>7, <2>8, <2>9 DEF Alike
<1>10. CASE op.kind = SkipOverChars
  <2>1. Amount(op, InsertChars) = 0 /\ Amount(op, SkipOverChars) = n /\ Amount(op, KeepChars) = 0
    BY <1>10 DEF Amount, InsertChars, KeepChars, SkipOverChars, n
  <2>2. P[j] = P[i] /\ l = k + n
    BY <1>3, <1>7, <2>1, SMTT(30) DEF k, l
  <2>3. k + op.opLength <= Len(old) /\ op.opLength = n
    BY <1>4, <2>2 DEF n
  <2>4. Leads(C, b, h \o <<op>>, old, new, l)
    BY <1>2, <1>5, <1>10, <2>2, <2>3, LeadsSkip
  <2>5. /\ Written(C, t, old, new, l) /\ t.rest = s.rest /\ t.prevPart = <<op>>
        /\ InPlace(s, old, k) => InPlace(t, old, l)
    <3>1. LET u == OptimizeOp(s, op)
          IN  /\ Written(C, u, old, new, k + op.opLength)
              /\ u.rest = s.rest /\ u.prevPart = <<op>>
              /\ InPlace(s, old, k) => InPlace(u, old, k + op.opLength)
      BY <1>2, <1>5, <1>7, <1>10, <2>3, SkipsWritten
    <3> QED BY <1>2, <2>2, <2>3, <3>1
  <2>6. Leads(C, Left(c.bank, P[j]), SubSeq(c.ops, 1, j), old, new, K[j] + M[j])
    BY <1>6, <2>2, <2>4 DEF b, l
  <2>7. F[j].rest = Mid(c.bank, P[j]) /\ j # 0 /\ c.ops[j].kind = SkipOverChars
    BY <1>1, <1>5, <1>10, <2>2, <2>5 DEF t, op
  <2>8. Written(C, F[j], old, new, K[j] + M[j])
    BY <2>5 DEF t, l
  <2>9. (\A r \in Replacements(c.ops) : j <= r) => InPlace(F[j], old, K[j] + M[j])
    BY <1>5, <1>8, <2>5 DEF t, l
  <2> QED BY <2>6, <2>7, <2>8, <2>9 DEF Alike
<1>11. CASE op.kind = InsertChars
  <2>1. Amount(op, InsertChars) = n /\ Amount(op, SkipOverChars) = 0 /\ Amount(op, KeepChars) = 0
    BY <1>11 DEF Amount, InsertChars, KeepChars, SkipOverChars, n
  <2>2. P[j] = P[i] + n /\ l = k
    BY <1>3, <1>7, <2>1 DEF k, l
  <2> DEFINE str == Left(s.rest, n)
             next == new \o str
  <2>3. s.rest \in Seq(C) /\ n <= Len(s.rest)
    <3>1. Len(Mid(c.bank, P[i])) = (IF P[i] < Len(c.bank) THEN Len(c.bank) - P[i] ELSE 0)
          /\ Mid(c.bank, P[i]) \in Seq(C)
      BY <1>2, <1>3, MidFacts
    <3> QED BY <1>2, <1>3, <1>5, <1>7, <2>2, <3>1
  <2>4. str \in Seq(C) /\ Len(str) = n
    <3>1. str \in Seq(C) /\ Len(str) = IF n < Len(s.rest) THEN n ELSE Len(s.rest)
      BY <1>7, <2>3, LeftFacts
    <3>2. Len(s.rest) \in Nat
      BY <2>3
    <3> HIDE DEF str
    <3> QED BY <1>7, <2>3, <3>1, <3>2
  <2>5. Left(c.bank, P[j]) = b \o str
    <3>1. Left(c.bank, P[i] + n) = Left(c.bank, P[i]) \o Left(Mid(c.bank, P[i]), n)
      BY <1>2, <1>3, <1>7, LeftTwice
    <3> QED BY <1>5, <2>2, <3>1 DEF b
  <2>6. str = Left(s.rest, op.opLength) /\ Len(str) = op.opLength /\ op.opLength <= Len(s.rest)
        /\ Mid(s.rest, op.opLength) = Mid(c.bank, P[j])
    <3>1. Mid(Mid(c.bank, P[i]), n) = Mid(c.bank, P[i] + n)
      <4>1. c.bank \in Seq(C) /\ P[i] \in Nat /\ n \in Nat
        BY <1>2, <1>3, <1>7
      <4> QED BY <4>1, MidMid, Zenon
    <3> QED BY <1>5, <2>2, <2>3, <2>4, <3>1 DEF n
  <2> HIDE DEF str
  <2>7. Leads(C, b \o str, h \o <<op>>, old, next, k)
    BY <1>2, <1>5, <1>11, <2>4, <2>6, LeadsInsert
  <2>8. Leads(C, Left(c.bank, P[j]), SubSeq(c.ops, 1, j), old, next, K[j] + M[j])
    BY <1>6, <2>2, <2>5, <2>7 DEF l
  <2>9. /\ Written(C, t, old, next, k) /\ t.rest = Mid(c.bank, P[j]) /\ t.prevPart = <<>>
        /\ (\A r \in Replacements(c.ops) : j <= r) => InPlace(t, old, k)
    <3>1. CASE s.prevPart = <<>>
      <4>1. LET u == OptimizeOp(s, op)
            IN  /\ Written(C, u, old, new \o Left(s.rest, op.opLength), k)
                /\ u.rest = Mid(s.rest, op.opLength) /\ u.prevPart = <<>>
                /\ InPlace(s, old, k) => InPlace(u, old, k)
        BY <1>2, <1>5, <1>7, <1>11, <2>6, <3>1, InsertsWritten
      <4> QED BY <1>2, <1>5, <1>8, <2>6, <4>1
    <3>2. CASE s.prevPart # <<>>
      <4>1. i \in Replacements(c.ops)
        <5>1. i \in 1 .. Len(c.ops) - 1 /\ i + 1 = j
          BY <1>1, <1>5, <3>2
        <5> QED BY <1>5, <1>11, <3>2, <5>1 DEF Replacements, op
      <4>2. \A r \in Replacements(c.ops) : r = i
        BY <4>1 DEF OneCouple
      <4>3. InPlace(s, old, k)
        BY <1>1, <1>5, <4>2
      <4>4. LET u == OptimizeOp(s, op)
            IN  /\ Written(C, u, old, new \o Left(s.rest, op.opLength), k)
                /\ u.rest = Mid(s.rest, op.opLength) /\ u.prevPart = <<>>
        BY <1>2, <1>5, <1>7, <1>11, <2>6, <3>2, <4>3, PairWritten
      <4>5. ~(j <= i)
        BY <1>1
      <4> QED BY <1>2, <2>6, <4>1, <4>4, <4>5
    <3> QED BY <3>1, <3>2
  <2> HIDE DEF next
  <2>10. Written(C, F[j], old, next, K[j] + M[j]) /\ F[j].rest = Mid(c.bank, P[j]) /\ F[j].prevPart = <<>>
    BY <2>2, <2>9 DEF t, l
  <2>11. (\A r \in Replacements(c.ops) : j <= r) => InPlace(F[j], old, K[j] + M[j])
    BY <2>2, <2>9 DEF t, l
  <2> QED BY <2>8, <2>10, <2>11 DEF Alike
<1> QED BY <1>7, <1>9, <1>10, <1>11

\* ... and at the end.
LEMMA AllAlike ==
  ASSUME NEW C, SP \in C, NEW c, NEW old, NEW F, NEW P, NEW M, NEW K,
         ScanOf(C, c, old, F, P, M, K), OneCouple(c, old, M, K)
  PROVE  Alike(C, c, old, F, P, M, K, Len(c.ops))
<1> DEFINE n == Len(c.ops)
           T == {i \in 0 .. n : Alike(C, c, old, F, P, M, K, i)}
<1>1. n \in Nat
  BY OpsBasics DEF ScanOf
<1>2. 0 \in T
  BY <1>1, StartAlike
<1>3. ASSUME NEW i \in 0 .. n - 1, i \in T
      PROVE  i + 1 \in T
  <2> DEFINE j == i + 1
  <2>1. j \in 1 .. n /\ j - 1 = i /\ j \in 0 .. n
    BY <1>1
  <2> HIDE DEF j
  <2>2. j \in T
    BY <1>3, <2>1, NextAlike
  <2> QED BY <2>2 DEF j
<1>4. 0 .. n \subseteq T
  <2> HIDE DEF T, n
  <2> QED BY <1>1, <1>2, <1>3, UpTo
<1> QED BY <1>1, <1>4

\* optimize changes nothing of what such a changeset writes.
LEMMA OptimizeApplies ==
  ASSUME NEW C, SP \in C, NEW c \in ChangesetSet(C), Balanced(c), NEW old \in Seq(C),
         Sum(c.ops, KeepChars) + Sum(c.ops, SkipOverChars) <= Len(old),
         \A j, l \in Replacements(c.ops) : j = l
  PROVE  LET r == Optimize(c, old)
         IN  After(r.bank, old, r.ops).text = After(c.bank, old, c.ops).text
<1> DEFINE n == Len(c.ops)
           r == Optimize(c, old)
<1>1. c.ops \in Ops /\ c.bank \in Seq(C) /\ n \in Nat /\ Len(c.bank) \in Nat
  <2>1. c.ops \in Ops /\ c.bank \in Seq(C)
    BY ChangesetFacts
  <2> QED BY <2>1, OpsBasics
<1>2. PICK F : /\ Scanned(F, C, OptimizeStart(c, old), c.ops)
               /\ r = With(c, Out(F[n]), F[n].bank)
  BY <1>1, OptimizeRuns
<1> HIDE DEF r
<1>3. PICK P : Counts(P, c.ops, InsertChars) /\ Sum(c.ops, InsertChars) = P[n]
  BY <1>1, SumSteps
<1>4. PICK M : Counts(M, c.ops, SkipOverChars) /\ Sum(c.ops, SkipOverChars) = M[n]
  BY <1>1, SumSteps
<1>5. PICK K : Counts(K, c.ops, KeepChars) /\ Sum(c.ops, KeepChars) = K[n]
  BY <1>1, SumSteps
<1>6. ScanOf(C, c, old, F, P, M, K)
  BY <1>1, <1>2, <1>3, <1>4, <1>5 DEF ScanOf, Balanced
<1>7. OneCouple(c, old, M, K)
  BY <1>4, <1>5 DEF OneCouple
<1>8. Alike(C, c, old, F, P, M, K, n)
  BY <1>6, <1>7, AllAlike
<1>9. n \in 0 .. n /\ F[n] \in Scan(C) /\ M[n] \in Nat /\ K[n] \in Nat
  BY <1>1, <1>2, <1>4, <1>5 DEF Scanned, Counts
<1> DEFINE k == K[n] + M[n]
<1>10. PICK new : Leads(C, Left(c.bank, P[n]), SubSeq(c.ops, 1, n), old, new, k) /\ Written(C, F[n], old, new, k)
  BY <1>8, Zenon DEF Alike
<1>11. Left(c.bank, P[n]) = c.bank
  BY <1>1, <1>3, LeftAll DEF Balanced
<1>12. SubSeq(c.ops, 1, n) = c.ops
  BY <1>1 DEF Ops
<1>13. k \in Nat
  BY <1>9
<1> HIDE DEF n, k
<1>14. Leads(C, c.bank, c.ops, old, new, k)
  BY <1>10, <1>11, <1>12
<1>15. Leads(C, F[n].bank, Out(F[n]), old, new, k)
  BY <1>9, <1>10, <1>13, WrittenOut
<1>16. r.ops = Out(F[n]) /\ r.bank = F[n].bank
  <2>1. Out(F[n]) \in Ops /\ F[n].bank \in Seq(C)
    BY <1>9, OutFacts
  <2> QED BY <1>2, <2>1, ChangesetWith
<1>17. \A bank, ops : Leads(C, bank, ops, old, new, k) => After(bank, old, ops).text = new \o Mid(old, k)
  <2> SUFFICES ASSUME NEW bank, NEW ops, Leads(C, bank, ops, old, new, k)
               PROVE  After(bank, old, ops).text = new \o Mid(old, k)
    OBVIOUS
  <2>1. bank \in Seq(C) /\ <<>> \in Seq(C)
    BY EmptySeq DEF Leads
  <2>2. bank \o <<>> = bank
    BY <2>1
  <2>3. After(bank \o <<>>, old, ops) = [text |-> new \o Mid(old, k), pos |-> Len(new), bankPos |-> Len(bank)]
    BY <2>1 DEF Leads
  <2> QED BY <2>2, <2>3
<1>18. After(r.bank, old, r.ops).text = After(c.bank, old, c.ops).text
  BY <1>14, <1>15, <1>16, <1>17, Zenon
<1> QED BY <1>18 DEF r

\* optimize does not change what a changeset produces that stays inside the old
\* text and replaces in one place at most (341-444), for any texts.
THEOREM OptimizeCorrect == Spec => OptimizeKeepsText
<1>1. Inv /\ [Next]_vars =>
        [/\ pc = "optimize"
         /\ FitsOldText(cs)
         /\ Cardinality(Replacements(cs.ops)) <= 1
         => Produced(cs') = Produced(cs)]_vars
  <2> SUFFICES ASSUME Inv, Next, pc = "optimize", FitsOldText(cs), Cardinality(Replacements(cs.ops)) <= 1
               PROVE  Produced(cs') = Produced(cs)
    OBVIOUS
  <2>1. cs' = Optimize(cs, oldText) /\ oldText' = oldText
    BY DEF Next, Create, FirstCollapse, OptimizePass, SecondCollapse
  <2>2. cs \in ChangesetSet(Letters) /\ Balanced(cs) /\ oldText \in Seq(Letters) /\ SP \in Letters
    BY TextsAreLetters DEF Inv, Sound, Letters
  <2>3. Sum(cs.ops, KeepChars) + Sum(cs.ops, SkipOverChars) <= Len(oldText)
    BY TotalIsSum DEF FitsOldText
  <2>4. \A j, l \in Replacements(cs.ops) : j = l
    <3> DEFINE R == Replacements(cs.ops)
    <3>1. IsFiniteSet(R)
      <4>1. Len(cs.ops) \in Nat
        BY <2>2, ChangesetFacts, OpsBasics
      <4>2. R \subseteq 1 .. Len(cs.ops) - 1
        BY DEF Replacements
      <4>3. IsFiniteSet(1 .. Len(cs.ops) - 1)
        BY <4>1, FS_Interval
      <4> QED BY <4>2, <4>3, FS_Subset
    <3> HIDE DEF R
    <3> SUFFICES ASSUME NEW j \in R, NEW l \in R, j # l PROVE FALSE
      BY DEF R
    <3>2. Cardinality(R) = 0 \/ Cardinality(R) = 1
      <4>1. Cardinality(R) \in Nat
        BY <3>1, FS_CardinalityType
      <4> QED BY <4>1 DEF R
    <3>3. CASE Cardinality(R) = 0
      BY <3>1, <3>3, FS_EmptySet
    <3>4. CASE Cardinality(R) = 1
      BY <3>1, <3>4, FS_Singleton
    <3> QED BY <3>2, <3>3, <3>4
  <2>5. After(cs'.bank, oldText, cs'.ops).text = After(cs.bank, oldText, cs.ops).text
    BY <2>1, <2>2, <2>3, <2>4, OptimizeApplies
  <2>6. Produced(cs) = After(cs.bank, oldText, cs.ops).text
        /\ Produced(cs') = After(cs'.bank, oldText, cs'.ops).text
    BY ProducedIsAfter
  <2> QED BY <2>5, <2>6
<1> QED BY <1>1, Invariance, PTL DEF Spec, OptimizeKeepsText

----------------------------------------------------------------------------
(***************************************************************************)
(* What JS::createChangeset writes: operations that lead through the old   *)
(* text to the new one, and count the line breaks they cover.              *)
(***************************************************************************)
\* The line breaks toString writes for an operation.
Lines(op) == IF op.newlines > 0 THEN op.newlines ELSE 0

\* An operation over a text has its length and its line breaks.
Over(op, t) == op \in OpSet /\ op.opLength = Len(t) /\ Lines(op) = Count(t, NL)

\* The characters operation i stands for: Covered, for any old text.
Part(old, bank, ops, i) ==
  IF ops[i].kind = InsertChars
  THEN Left(Mid(bank, Sum(SubSeq(ops, 1, i - 1), InsertChars)), ops[i].opLength)
  ELSE Left(Mid(old, Sum(SubSeq(ops, 1, i - 1), KeepChars) + Sum(SubSeq(ops, 1, i - 1), SkipOverChars)),
            ops[i].opLength)

\* Every operation writes the line breaks it covers, whatever follows in the bank.
Counted(C, old, bank, ops) ==
  \A more \in Seq(C) : \A i \in 1 .. Len(ops) : Lines(ops[i]) = Count(Part(old, bank \o more, ops, i), NL)

\* What the operations insert, read of the old text and leave in the new one.
Amounts(ops, ins, read, made) ==
  /\ Sum(ops, InsertChars) = ins
  /\ Sum(ops, KeepChars) + Sum(ops, SkipOverChars) = read
  /\ Sum(ops, KeepChars) + Sum(ops, InsertChars) = made

\* The operations have made "done" of "used", in front of "left".
Reach(C, bank, ops, done, used, left) ==
  /\ used \in Seq(C) /\ left \in Seq(C)
  /\ Leads(C, bank, ops, used \o left, done, Len(used))
  /\ Amounts(ops, Len(bank), Len(used), Len(done))
  /\ Counted(C, used \o left, bank, ops)

\* OpOver counts the line breaks of its text.
LEMMA OpOverOver ==
  ASSUME NEW C, NEW t \in Seq(C), NEW kind \in {InsertChars, SkipOverChars, KeepChars},
         NEW attrib \in {-1, 0}
  PROVE  Over(OpOver(kind, t, attrib), t) /\ OpOver(kind, t, attrib).kind = kind
<1>1. /\ OpOver(kind, t, attrib) \in OpSet /\ OpOver(kind, t, attrib).kind = kind
      /\ OpOver(kind, t, attrib).opLength = Len(t)
  BY OpOverType
<1>2. Count(t, NL) \in Nat
  BY CountFacts
<1>3. OpOver(kind, t, attrib).newlines = NewLines(t)
  BY DEF OpOver, Op
<1>4. Lines(OpOver(kind, t, attrib)) = Count(t, NL)
  BY <1>2, <1>3 DEF Lines, NewLines
<1> QED BY <1>1, <1>4 DEF Over

\* A space is no line break.
LEMMA SpaceOver ==
  ASSUME NEW kind \in {InsertChars, SkipOverChars, KeepChars}, NEW attrib \in {-1, 0}
  PROVE  Over(Op(kind, 1, -1, attrib), <<SP>>) /\ Op(kind, 1, -1, attrib).kind = kind
<1> DEFINE op == Op(kind, 1, -1, attrib)
<1>1. op \in OpSet /\ op.kind = kind /\ op.opLength = 1 /\ op.newlines = -1
  BY DEF Op, OpSet
<1> HIDE DEF op
<1>2. Lines(op) = 0
  BY <1>1 DEF Lines
<1>3. {i \in DOMAIN <<SP>> : <<SP>>[i] = NL} = {}
  BY SpaceIsNoLineBreak
<1>4. Count(<<SP>>, NL) = 0
  BY <1>3, FS_EmptySet DEF Count
<1>5. Len(<<SP>>) = 1
  OBVIOUS
<1>6. Over(op, <<SP>>)
  BY <1>1, <1>2, <1>4, <1>5 DEF Over
<1> QED BY <1>1, <1>6 DEF op

\* all is ops and op behind them, and none of the parts before it has changed.
OneMore(old, bank, ops, op, all) ==
  /\ Len(all) = Len(ops) + 1 /\ all[Len(ops) + 1] = op
  /\ \A i \in 1 .. Len(ops) : all[i] = ops[i] /\ Part(old, bank, all, i) = Part(old, bank, ops, i)
  /\ Part(old, bank, all, Len(ops) + 1) =
       IF op.kind = InsertChars
       THEN Left(Mid(bank, Sum(ops, InsertChars)), op.opLength)
       ELSE Left(Mid(old, Sum(ops, KeepChars) + Sum(ops, SkipOverChars)), op.opLength)

\* An operation added at the end covers what comes next, and the parts in front stay.
LEMMA PartAppend ==
  ASSUME NEW old, NEW bank, NEW ops \in Ops, NEW op \in OpSet
  PROVE  OneMore(old, bank, ops, op, ops \o <<op>>)
<1> DEFINE all == ops \o <<op>>
           n == Len(ops)
<1>1. ops \in Seq(OpSet) /\ n \in Nat
  BY DEF Ops
<1>2. Len(all) = n + 1 /\ all[n + 1] = op /\ \A i \in 1 .. n : all[i] = ops[i]
  BY <1>1
<1>3. SubSeq(all, 1, n) = ops
  BY <1>1
<1>4. ASSUME NEW i \in 1 .. n
      PROVE  SubSeq(all, 1, i - 1) = SubSeq(ops, 1, i - 1)
  <2> DEFINE m == i - 1
  <2>1. m \in Nat /\ m <= n
    BY <1>1
  <2> HIDE DEF m
  <2>2. SubSeq(all, 1, m) = SubSeq(ops, 1, m)
    BY <1>1, <2>1
  <2> QED BY <2>2 DEF m
<1> HIDE DEF all
<1>5. \A i \in 1 .. n : Part(old, bank, all, i) = Part(old, bank, ops, i)
  BY <1>2, <1>4, Zenon DEF Part
<1>6. (n + 1) - 1 = n
  BY <1>1
<1>7. Part(old, bank, all, n + 1) =
        IF op.kind = InsertChars
        THEN Left(Mid(bank, Sum(ops, InsertChars)), op.opLength)
        ELSE Left(Mid(old, Sum(ops, KeepChars) + Sum(ops, SkipOverChars)), op.opLength)
  BY <1>2, <1>3, <1>6, Zenon DEF Part
<1> QED BY <1>2, <1>5, <1>7, Zenon DEF OneMore, all

\* Joining is associative, as a fact about three texts.
Regroup(a, b, c) == (a \o b) \o c = a \o (b \o c)

\* Joining texts is associative.
LEMMA Regrouped ==
  ASSUME NEW S, NEW a \in Seq(S), NEW b \in Seq(S), NEW c \in Seq(S)
  PROVE  Regroup(a, b, c)
BY DEF Regroup

\* The text an operation appended to others stands for, whatever follows in the bank.
StandsFor(C, old, bank, ops, op, t) ==
  \A more \in Seq(C) :
    t = IF op.kind = InsertChars
        THEN Left(Mid(bank \o more, Sum(ops, InsertChars)), op.opLength)
        ELSE Left(Mid(old, Sum(ops, KeepChars) + Sum(ops, SkipOverChars)), op.opLength)

\* One operation more counts the line breaks of what it stands for.
LEMMA CountedAppend ==
  ASSUME NEW C, NEW old \in Seq(C), NEW bank \in Seq(C), NEW ops \in Ops, Counted(C, old, bank, ops),
         NEW t \in Seq(C), NEW op, Over(op, t), NEW str \in Seq(C),
         StandsFor(C, old, bank \o str, ops, op, t)
  PROVE  Counted(C, old, bank \o str, ops \o <<op>>)
<1> DEFINE n == Len(ops)
           all == ops \o <<op>>
<1>1. n \in Nat /\ op \in OpSet /\ Lines(op) = Count(t, NL)
  BY OpsBasics DEF Over
<1>2. ASSUME NEW more \in Seq(C), NEW i \in 1 .. Len(all)
      PROVE  Lines(all[i]) = Count(Part(old, (bank \o str) \o more, all, i), NL)
  <2> DEFINE b == (bank \o str) \o more
  <2>1. str \o more \in Seq(C) /\ b = bank \o (str \o more)
    <3>1. Regroup(bank, str, more)
      BY Regrouped
    <3> QED BY <3>1 DEF Regroup
  <2>2. t = IF op.kind = InsertChars
           THEN Left(Mid(b, Sum(ops, InsertChars)), op.opLength)
           ELSE Left(Mid(old, Sum(ops, KeepChars) + Sum(ops, SkipOverChars)), op.opLength)
    BY Zenon DEF StandsFor
  <2>3. \A j \in 1 .. n : Lines(ops[j]) = Count(Part(old, b, ops, j), NL)
    BY <2>1 DEF Counted
  <2> HIDE DEF b, all
  <2>4. OneMore(old, b, ops, op, all)
    BY <1>1, PartAppend DEF all
  <2>5. i \in 1 .. n \/ i = n + 1
    <3>1. Len(all) = n + 1
      BY <2>4, Zenon DEF OneMore
    <3> QED BY <1>1, <3>1
  <2>6. Part(old, b, all, n + 1) = t
    BY <2>2, <2>4, Zenon DEF OneMore
  <2> QED BY <1>1, <2>3, <2>4, <2>5, <2>6, Zenon DEF b, OneMore
<1> QED BY <1>2 DEF Counted

\* To join one operation is to append it.
LEMMA ConcatOne ==
  ASSUME NEW S, NEW s \in Seq(S), NEW e
  PROVE  s \o <<e>> = Append(s, e)
OBVIOUS

\* The sums of one operation more.
LEMMA AmountsAppend ==
  ASSUME NEW ops \in Ops, NEW op \in OpSet, NEW x \in Nat, NEW y \in Nat, NEW z \in Nat, Amounts(ops, x, y, z)
  PROVE  /\ op.kind = KeepChars => Amounts(ops \o <<op>>, x, y + op.opLength, z + op.opLength)
         /\ op.kind = SkipOverChars => Amounts(ops \o <<op>>, x, y + op.opLength, z)
         /\ op.kind = InsertChars => Amounts(ops \o <<op>>, x + op.opLength, y, z + op.opLength)
<1> DEFINE all == ops \o <<op>>
<1>1. all = Append(ops, op)
  BY ConcatOne, Zenon DEF Ops
<1>2. \A kind : Sum(all, kind) = Sum(ops, kind) + Amount(op, kind) /\ Sum(ops, kind) \in Nat
  <2>1. \A kind : Sum(Append(ops, op), kind) = Sum(ops, kind) + Amount(op, kind)
    BY SumAppend
  <2>2. \A kind : Sum(ops, kind) \in Nat
    BY SumType
  <2> HIDE DEF all
  <2> QED BY <1>1, <2>1, <2>2, Zenon
<1> HIDE DEF all
<1>3. op.opLength \in Nat
  BY DEF OpSet
<1>4. InsertChars # KeepChars /\ InsertChars # SkipOverChars /\ KeepChars # SkipOverChars
  BY DEF InsertChars, KeepChars, SkipOverChars
<1>5. /\ Sum(all, InsertChars) = Sum(ops, InsertChars) + Amount(op, InsertChars)
      /\ Sum(all, KeepChars) = Sum(ops, KeepChars) + Amount(op, KeepChars)
      /\ Sum(all, SkipOverChars) = Sum(ops, SkipOverChars) + Amount(op, SkipOverChars)
      /\ Sum(ops, InsertChars) \in Nat /\ Sum(ops, KeepChars) \in Nat /\ Sum(ops, SkipOverChars) \in Nat
  BY <1>2
<1>6. op.kind = KeepChars => Amounts(all, x, y + op.opLength, z + op.opLength)
  BY <1>3, <1>4, <1>5 DEF Amounts, Amount
<1>7. op.kind = SkipOverChars => Amounts(all, x, y + op.opLength, z)
  BY <1>3, <1>4, <1>5 DEF Amounts, Amount
<1>8. op.kind = InsertChars => Amounts(all, x + op.opLength, y, z + op.opLength)
  BY <1>3, <1>4, <1>5 DEF Amounts, Amount
<1> QED BY <1>6, <1>7, <1>8 DEF all

\* A '=' over what follows.
LEMMA ReachKeep ==
  ASSUME NEW C, SP \in C, NEW bank, NEW ops, NEW done, NEW used, NEW t \in Seq(C), NEW left \in Seq(C),
         Reach(C, bank, ops, done, used, t \o left), NEW op, Over(op, t), op.kind = KeepChars
  PROVE  Reach(C, bank, ops \o <<op>>, done \o t, used \o t, left)
<1> DEFINE old == used \o (t \o left)
           k == Len(used)
           n == Len(t)
<1>1. /\ used \in Seq(C) /\ t \o left \in Seq(C) /\ Leads(C, bank, ops, old, done, k)
      /\ Amounts(ops, Len(bank), k, Len(done))
      /\ Counted(C, old, bank, ops)
  BY DEF Reach
<1>2. op \in OpSet /\ op.opLength = n /\ n \in Nat /\ k \in Nat
  BY <1>1 DEF Over
<1>3. old \in Seq(C) /\ Len(old) = k + Len(t \o left)
  BY <1>1, ConcatLength, Zenon
<1>4. Len(t \o left) = n + Len(left) /\ Len(left) \in Nat
  OBVIOUS
<1>5. bank \in Seq(C) /\ ops \in Ops /\ done \in Seq(C)
  BY <1>1 DEF Leads
<1>6. Mid(old, k) = t \o left
  BY <1>1, MidBehind, Zenon
<1>7. Left(t \o left, n) = t
  BY LeftBefore
<1>8. old = (used \o t) \o left
  <2>1. Regroup(used, t, left)
    BY <1>1, Regrouped
  <2> QED BY <2>1 DEF Regroup
<1>9. used \o t \in Seq(C) /\ Len(used \o t) = k + n
  BY <1>1, ConcatLength, Zenon
<1>10. done \o t \in Seq(C) /\ Len(done \o t) = Len(done) + n /\ Len(done) \in Nat
  BY <1>5
<1> HIDE DEF k, n
<1>11. KeepChars # InsertChars /\ KeepChars # SkipOverChars
  BY DEF KeepChars, InsertChars, SkipOverChars
<1> HIDE DEF old
<1>12. Leads(C, bank, ops \o <<op>>, old, done \o t, k + n)
  <2>1. k + op.opLength <= Len(old)
    BY <1>2, <1>3, <1>4
  <2>2. Leads(C, bank, ops \o <<op>>, old, done \o Left(Mid(old, k), op.opLength), k + op.opLength)
    BY <1>1, <1>2, <1>3, <2>1, LeadsKeep, Zenon
  <2> QED BY <1>2, <1>6, <1>7, <2>2
<1>13. Amounts(ops \o <<op>>, Len(bank), k + n, Len(done) + n)
  <2>1. Len(bank) \in Nat
    BY <1>5
  <2> QED BY <1>1, <1>2, <1>5, <1>10, <2>1, AmountsAppend, Zenon
<1>14. Counted(C, old, bank, ops \o <<op>>)
  <2>1. <<>> \in Seq(C) /\ bank \o <<>> = bank
    BY <1>5
  <2>2. StandsFor(C, old, bank \o <<>>, ops, op, t)
    BY <1>1, <1>2, <1>6, <1>7, <1>11, Zenon DEF StandsFor, Amounts
  <2>3. Counted(C, old, bank \o <<>>, ops \o <<op>>)
    BY <1>1, <1>3, <1>5, <2>1, <2>2, CountedAppend, Zenon
  <2> QED BY <2>1, <2>3
<1> QED BY <1>8, <1>9, <1>10, <1>12, <1>13, <1>14, Zenon DEF Reach

\* A '-' over what follows.
LEMMA ReachSkip ==
  ASSUME NEW C, SP \in C, NEW bank, NEW ops, NEW done, NEW used, NEW t \in Seq(C), NEW left \in Seq(C),
         Reach(C, bank, ops, done, used, t \o left), NEW op, Over(op, t), op.kind = SkipOverChars
  PROVE  Reach(C, bank, ops \o <<op>>, done, used \o t, left)
<1> DEFINE old == used \o (t \o left)
           k == Len(used)
           n == Len(t)
<1>1. /\ used \in Seq(C) /\ t \o left \in Seq(C) /\ Leads(C, bank, ops, old, done, k)
      /\ Amounts(ops, Len(bank), k, Len(done))
      /\ Counted(C, old, bank, ops)
  BY DEF Reach
<1>2. op \in OpSet /\ op.opLength = n /\ n \in Nat /\ k \in Nat
  BY <1>1 DEF Over
<1>3. old \in Seq(C) /\ Len(old) = k + Len(t \o left)
  BY <1>1, ConcatLength, Zenon
<1>4. Len(t \o left) = n + Len(left) /\ Len(left) \in Nat
  OBVIOUS
<1>5. bank \in Seq(C) /\ ops \in Ops /\ done \in Seq(C) /\ Len(bank) \in Nat /\ Len(done) \in Nat
  BY <1>1 DEF Leads
<1>6. Mid(old, k) = t \o left
  BY <1>1, MidBehind, Zenon
<1>7. Left(t \o left, n) = t
  BY LeftBefore
<1>8. old = (used \o t) \o left
  <2>1. Regroup(used, t, left)
    BY <1>1, Regrouped
  <2> QED BY <2>1 DEF Regroup
<1>9. used \o t \in Seq(C) /\ Len(used \o t) = k + n
  BY <1>1, ConcatLength, Zenon
<1> HIDE DEF k, n
<1>10. SkipOverChars # InsertChars
  BY DEF InsertChars, SkipOverChars
<1> HIDE DEF old
<1>11. Leads(C, bank, ops \o <<op>>, old, done, k + n)
  <2>1. k + op.opLength <= Len(old)
    BY <1>2, <1>3, <1>4
  <2>2. Leads(C, bank, ops \o <<op>>, old, done, k + op.opLength)
    BY <1>1, <1>2, <1>3, <2>1, LeadsSkip, Zenon
  <2> QED BY <1>2, <2>2
<1>12. Amounts(ops \o <<op>>, Len(bank), k + n, Len(done))
  BY <1>1, <1>2, <1>5, AmountsAppend, Zenon
<1>13. Counted(C, old, bank, ops \o <<op>>)
  <2>1. <<>> \in Seq(C) /\ bank \o <<>> = bank
    BY <1>5
  <2>2. StandsFor(C, old, bank \o <<>>, ops, op, t)
    BY <1>1, <1>2, <1>6, <1>7, <1>10, Zenon DEF StandsFor, Amounts
  <2>3. Counted(C, old, bank \o <<>>, ops \o <<op>>)
    BY <1>1, <1>3, <1>5, <2>1, <2>2, CountedAppend, Zenon
  <2> QED BY <2>1, <2>3
<1> QED BY <1>8, <1>9, <1>11, <1>12, <1>13, Zenon DEF Reach

\* A '+' with its characters in the bank.
LEMMA ReachInsert ==
  ASSUME NEW C, SP \in C, NEW bank, NEW ops, NEW done, NEW used, NEW t \in Seq(C), NEW left,
         Reach(C, bank, ops, done, used, left), NEW op, Over(op, t), op.kind = InsertChars
  PROVE  Reach(C, bank \o t, ops \o <<op>>, done \o t, used, left)
<1> DEFINE old == used \o left
           k == Len(used)
           n == Len(t)
<1>1. /\ used \in Seq(C) /\ left \in Seq(C) /\ Leads(C, bank, ops, old, done, k)
      /\ Amounts(ops, Len(bank), k, Len(done))
      /\ Counted(C, old, bank, ops)
  BY DEF Reach
<1>2. op \in OpSet /\ op.opLength = n /\ n \in Nat /\ k \in Nat
  BY <1>1 DEF Over
<1>3. old \in Seq(C)
  BY <1>1, ConcatLength, Zenon
<1>4. bank \in Seq(C) /\ ops \in Ops /\ done \in Seq(C) /\ Len(bank) \in Nat /\ Len(done) \in Nat
  BY <1>1 DEF Leads
<1>5. bank \o t \in Seq(C) /\ Len(bank \o t) = Len(bank) + n /\ Len(done \o t) = Len(done) + n
  BY <1>4, ConcatLength, Zenon
<1> HIDE DEF k, n
<1> HIDE DEF old
<1>6. Leads(C, bank \o t, ops \o <<op>>, old, done \o t, k)
  <2>1. Len(t) = op.opLength
    BY <1>2 DEF n
  <2> QED BY <1>1, <1>2, <1>3, <2>1, LeadsInsert, Zenon
<1>7. Amounts(ops \o <<op>>, Len(bank \o t), k, Len(done \o t))
  BY <1>1, <1>2, <1>4, <1>5, AmountsAppend, Zenon
<1>8. Counted(C, old, bank \o t, ops \o <<op>>)
  <2>1. ASSUME NEW more \in Seq(C)
        PROVE  Left(Mid((bank \o t) \o more, Len(bank)), n) = t
    <3>1. t \o more \in Seq(C)
      BY ConcatLength, Zenon
    <3>2. Regroup(bank, t, more)
      BY <1>4, Regrouped
    <3>3. Mid(bank \o (t \o more), Len(bank)) = t \o more
      BY <1>4, <3>1, MidBehind, Zenon
    <3>4. Left(t \o more, Len(t)) = t
      BY LeftBefore
    <3>5. (bank \o t) \o more = bank \o (t \o more)
      BY <3>2 DEF Regroup
    <3> QED BY <3>3, <3>4, <3>5 DEF n
  <2>2. StandsFor(C, old, bank \o t, ops, op, t)
    BY <1>1, <1>2, <2>1, Zenon DEF StandsFor, Amounts
  <2> QED BY <1>1, <1>3, <1>4, <2>2, CountedAppend, Zenon
<1> QED BY <1>1, <1>6, <1>7, <1>8, Zenon DEF Reach, old, k

\* No operation has made nothing of nothing.
LEMMA ReachNone ==
  ASSUME NEW C, SP \in C, NEW old \in Seq(C)
  PROVE  Reach(C, <<>>, <<>>, <<>>, <<>>, old)
<1>1. <<>> \o old = old /\ <<>> \in Seq(C) /\ Len(<<>>) = 0 /\ 1 .. 0 = {}
  OBVIOUS
<1>2. Leads(C, <<>>, <<>>, old, <<>>, 0)
  BY LeadsNone
<1>3. Amounts(<<>>, 0, 0, 0)
  BY SumNone DEF Amounts
<1>4. Counted(C, old, <<>>, <<>>)
  BY <1>1 DEF Counted
<1> QED BY <1>1, <1>2, <1>3, <1>4 DEF Reach

----------------------------------------------------------------------------
(* The words and the text they were split from.                            *)

\* Qt's count of a text and one character more.
LEMMA CountAppend ==
  ASSUME NEW S, NEW s \in Seq(S), NEW c, NEW x
  PROVE  Count(Append(s, c), x) = Count(s, x) + IF c = x THEN 1 ELSE 0
<1> DEFINE n == Len(s)
           all == Append(s, c)
           P == {i \in DOMAIN s : s[i] = x}
           Q == {i \in DOMAIN all : all[i] = x}
<1>1. n \in Nat /\ DOMAIN s = 1 .. n /\ DOMAIN all = 1 .. n + 1 /\ all[n + 1] = c
      /\ \A i \in 1 .. n : all[i] = s[i]
  OBVIOUS
<1> HIDE DEF all
<1>2. IsFiniteSet(P) /\ n + 1 \notin P
  <2>1. IsFiniteSet(1 .. n)
    BY <1>1, FS_Interval
  <2>2. P \subseteq 1 .. n
    BY <1>1
  <2> HIDE DEF P
  <2>3. IsFiniteSet(P)
    BY <2>1, <2>2, FS_Subset
  <2> QED BY <1>1, <2>2, <2>3
<1>3. Cardinality(P) \in Nat
  <2> HIDE DEF P
  <2> QED BY <1>2, FS_CardinalityType
<1>4. Count(s, x) = Cardinality(P) /\ Count(Append(s, c), x) = Cardinality(Q)
  BY DEF Count, all
<1>5. CASE c = x
  <2>1. Q = P \cup {n + 1}
    BY <1>1, <1>5
  <2> HIDE DEF P, Q
  <2>2. Cardinality(Q) = Cardinality(P) + 1
    BY <1>2, <2>1, FS_AddElement
  <2> QED BY <1>5, <1>4, <2>2
<1>6. CASE c # x
  <2>1. Q = P
    BY <1>1, <1>6
  <2> HIDE DEF P, Q
  <2> QED BY <1>3, <1>6, <1>4, <2>1
<1> QED BY <1>5, <1>6

\* What split() took away behind word k of n.
Space(k, n) == IF k < n THEN <<SP>> ELSE <<>>

\* P holds the first 0, 1, ... words joined again.
Beginnings(P, C, words, text) ==
  /\ P \in [0 .. Len(words) -> Seq(C)] /\ P[0] = <<>> /\ P[Len(words)] = text
  /\ \A k \in 1 .. Len(words) : P[k] = P[k - 1] \o (words[k] \o Space(k, Len(words)))

\* A character more.
LEMMA PrefixesAdded ==
  ASSUME NEW C, SP \in C, NEW words \in WordLists(C), NEW text \in Seq(C),
         NEW P, Beginnings(P, C, words, text), NEW c \in C
  PROVE  /\ \E Q : Beginnings(Q, C, AddToWords(words, c), Append(text, c))
         /\ Len(AddToWords(words, c)) = Len(words) + IF c = SP THEN 1 ELSE 0
<1> DEFINE n == Len(words)
           all == Append(text, c)
<1>1. words \in Seq(Seq(C)) /\ n \in Nat /\ n # 0 /\ n \in 1 .. n
  BY DEF WordLists
<1>2. /\ P \in [0 .. n -> Seq(C)] /\ P[0] = <<>> /\ P[n] = text
      /\ \A k \in 1 .. n : P[k] = P[k - 1] \o (words[k] \o Space(k, n))
  BY DEF Beginnings
<1>3. all \in Seq(C) /\ all = text \o <<c>> /\ <<c>> \in Seq(C)
  OBVIOUS
<1>4. \A k \in 1 .. n : words[k] \in Seq(C)
  BY <1>1
<1> HIDE DEF all
<1>5. CASE c = SP
  <2> DEFINE new == Append(words, <<>>)
             Q == [k \in 0 .. n + 1 |-> IF k < n THEN P[k] ELSE all]
  <2>1. AddToWords(words, c) = new
    BY <1>5 DEF AddToWords
  <2>2. Len(new) = n + 1 /\ new[n + 1] = <<>> /\ \A k \in 1 .. n : new[k] = words[k]
    BY <1>1
  <2> HIDE DEF new
  <2>3. Q \in [0 .. n + 1 -> Seq(C)] /\ Q[0] = <<>> /\ Q[n + 1] = all
    BY <1>1, <1>2, <1>3
  <2>4. ASSUME NEW k \in 1 .. n + 1
        PROVE  Q[k] = Q[k - 1] \o (new[k] \o Space(k, n + 1))
    <3>1. CASE k < n
      <4>1. k \in 1 .. n /\ k - 1 \in 0 .. n + 1 /\ k \in 0 .. n + 1 /\ k - 1 < n /\ k < n + 1
        BY <1>1, <3>1
      <4>2. Q[k] = P[k] /\ Q[k - 1] = P[k - 1] /\ new[k] = words[k]
        BY <2>2, <3>1, <4>1
      <4>3. Space(k, n) = Space(k, n + 1)
        BY <3>1, <4>1 DEF Space
      <4>4. P[k] = P[k - 1] \o (words[k] \o Space(k, n))
        BY <1>2, <4>1, Zenon
      <4> QED BY <4>2, <4>3, <4>4, Zenon
    <3>2. CASE k = n
      <4>1. k - 1 \in 0 .. n + 1 /\ k \in 0 .. n + 1 /\ k - 1 < n /\ k < n + 1 /\ ~(k < n) /\ k \in 1 .. n
            /\ k - 1 \in 0 .. n
        BY <1>1, <3>2
      <4>2. Q[k] = all /\ Q[k - 1] = P[k - 1] /\ new[k] = words[k]
        BY <2>2, <4>1
      <4>3. Space(k, n) = <<>> /\ Space(k, n + 1) = <<c>>
        BY <1>5, <4>1 DEF Space
      <4> DEFINE w == words[k]
                 p == P[k - 1]
      <4>4. w \in Seq(C) /\ p \in Seq(C) /\ w \o <<>> = w
        BY <1>2, <1>4, <4>1
      <4>5. text = p \o w
        BY <1>2, <3>2, <4>1, <4>3, <4>4
      <4> HIDE DEF w, p
      <4>6. Regroup(p, w, <<c>>)
        BY <1>3, <4>4, Regrouped
      <4>7. all = p \o (w \o <<c>>)
        BY <1>3, <4>5, <4>6 DEF Regroup
      <4> QED BY <4>2, <4>3, <4>7 DEF w, p
    <3>3. CASE k = n + 1
      <4>1. k - 1 = n /\ k \in 0 .. n + 1 /\ n \in 0 .. n + 1 /\ ~(k < n) /\ ~(n < n) /\ ~(k < n + 1)
        BY <1>1, <3>3
      <4>2. Q[k] = all /\ Q[k - 1] = all
        BY <4>1
      <4>3. new[k] = <<>> /\ Space(k, n + 1) = <<>> /\ <<>> \o <<>> = <<>> /\ all \o <<>> = all
        BY <1>3, <2>2, <3>3, <4>1 DEF Space
      <4> QED BY <4>2, <4>3
    <3>4. k < n \/ k = n \/ k = n + 1
      BY <1>1
    <3> QED BY <3>1, <3>2, <3>3, <3>4
  <2> HIDE DEF Q
  <2>5. Beginnings(Q, C, new, all)
    BY <2>2, <2>3, <2>4 DEF Beginnings
  <2> QED BY <1>5, <2>1, <2>2, <2>5 DEF all
<1>6. CASE c # SP
  <2> DEFINE last == Append(words[n], c)
             new == [words EXCEPT ![n] = last]
             Q == [k \in 0 .. n |-> IF k < n THEN P[k] ELSE all]
  <2>1. AddToWords(words, c) = new
    BY <1>6 DEF AddToWords
  <2>2. last \in Seq(C) /\ last = words[n] \o <<c>>
    BY <1>1, <1>4
  <2> HIDE DEF last
  <2>3. Len(new) = n /\ new[n] = last /\ \A k \in 1 .. n : k # n => new[k] = words[k]
    BY <1>1
  <2> HIDE DEF new
  <2>4. Q \in [0 .. n -> Seq(C)] /\ Q[0] = <<>> /\ Q[n] = all
    BY <1>1, <1>2, <1>3
  <2>5. ASSUME NEW k \in 1 .. n
        PROVE  Q[k] = Q[k - 1] \o (new[k] \o Space(k, n))
    <3>1. CASE k # n
      <4>1. k - 1 \in 0 .. n /\ k \in 0 .. n /\ k - 1 < n /\ k < n
        BY <1>1, <3>1
      <4>2. Q[k] = P[k] /\ Q[k - 1] = P[k - 1] /\ new[k] = words[k]
        BY <2>3, <3>1, <4>1
      <4> QED BY <1>2, <4>2
    <3>2. CASE k = n
      <4>1. k - 1 \in 0 .. n /\ k \in 0 .. n /\ k - 1 < n /\ ~(k < n)
        BY <1>1, <3>2
      <4>2. Q[k] = all /\ Q[k - 1] = P[k - 1] /\ new[k] = last
        BY <2>3, <3>2, <4>1
      <4>3. Space(k, n) = <<>>
        BY <4>1 DEF Space
      <4> DEFINE w == words[k]
                 p == P[k - 1]
      <4>4. w \in Seq(C) /\ p \in Seq(C) /\ w \o <<>> = w /\ last \o <<>> = last
        <5>1. w \in Seq(C) /\ p \in Seq(C)
          BY <1>2, <1>4, <4>1, Zenon
        <5> HIDE DEF w, p
        <5> QED BY <2>2, <5>1
      <4>5. text = p \o w
        BY <1>2, <3>2, <4>3, <4>4
      <4>6. last = w \o <<c>>
        BY <2>2, <3>2
      <4> HIDE DEF w, p
      <4>7. Regroup(p, w, <<c>>)
        BY <1>3, <4>4, Regrouped
      <4>8. all = p \o last
        BY <1>3, <4>5, <4>6, <4>7 DEF Regroup
      <4> QED BY <4>2, <4>3, <4>4, <4>8 DEF p
    <3> QED BY <3>1, <3>2
  <2> HIDE DEF Q
  <2>6. Beginnings(Q, C, new, all)
    BY <2>3, <2>4, <2>5 DEF Beginnings
  <2> QED BY <1>1, <1>6, <2>1, <2>3, <2>6 DEF all
<1> QED BY <1>5, <1>6

\* The words with their spaces are the text again.
LEMMA WordsJoined ==
  ASSUME NEW C, SP \in C, NEW text \in Seq(C), text # <<>>
  PROVE  /\ \E P : Beginnings(P, C, Words(text), text)
         /\ Len(Words(text)) = Count(text, SP) + 1
<1> DEFINE n == Len(text)
<1>1. n \in Nat /\ SubSeq(text, 1, n) = text /\ SubSeq(text, 1, 0) = <<>>
  OBVIOUS
<1>2. PICK F : WordsOf(F, C, text) /\ Words(text) = F[n]
  BY WordsRun
<1>3. /\ F \in [0 .. n -> WordLists(C)] /\ F[0] = << <<>> >>
      /\ \A i \in 1 .. n : F[i] = AddToWords(F[i - 1], text[i])
  BY <1>2 DEF WordsOf
<1> DEFINE T == {i \in 0 .. n : /\ \E P : Beginnings(P, C, F[i], SubSeq(text, 1, i))
                                /\ Len(F[i]) = Count(SubSeq(text, 1, i), SP) + 1}
<1>4. 0 \in T
  <2> DEFINE one == << <<>> >>
             P == [k \in 0 .. 1 |-> <<>>]
  <2>1. Len(one) = 1 /\ one[1] = <<>> /\ <<>> \in Seq(C) /\ <<>> \o <<>> = <<>> /\ 0 \in 0 .. n
    BY <1>1
  <2>2. P \in [0 .. 1 -> Seq(C)] /\ P[0] = <<>> /\ P[1] = <<>>
    BY <2>1
  <2> HIDE DEF one, P
  <2>3. Beginnings(P, C, one, <<>>)
    <3>1. \A k \in 1 .. 1 : k = 1 /\ k - 1 = 0 /\ ~(k < 1)
      OBVIOUS
    <3>2. \A k \in 1 .. 1 : P[k] = P[k - 1] \o (one[k] \o Space(k, 1))
      BY <2>1, <2>2, <3>1 DEF Space
    <3> QED BY <2>1, <2>2, <3>2 DEF Beginnings
  <2>4. Count(<<>>, SP) + 1 = 1
    BY CountFacts
  <2> QED BY <1>1, <1>3, <2>1, <2>3, <2>4 DEF one
<1>5. ASSUME NEW i \in 0 .. n - 1, i \in T
      PROVE  i + 1 \in T
  <2> DEFINE j == i + 1
             c == text[j]
             s == SubSeq(text, 1, i)
  <2>1. j \in 1 .. n /\ j - 1 = i /\ j \in 0 .. n /\ i \in 0 .. n /\ c \in C
    BY <1>1
  <2>2. s \in Seq(C) /\ SubSeq(text, 1, j) = Append(s, c)
    BY <1>1, <2>1
  <2> HIDE DEF j, c, s
  <2>3. F[i] \in WordLists(C) /\ F[j] = AddToWords(F[i], c)
    BY <1>3, <2>1 DEF c
  <2>4. PICK P : Beginnings(P, C, F[i], s)
    BY <1>5 DEF s
  <2>5. Len(F[i]) = Count(s, SP) + 1 /\ Count(s, SP) \in Nat
    BY <1>5, <2>2, CountFacts DEF s
  <2>6. /\ \E Q : Beginnings(Q, C, F[j], Append(s, c))
        /\ Len(F[j]) = Len(F[i]) + IF c = SP THEN 1 ELSE 0
    BY <2>1, <2>2, <2>3, <2>4, PrefixesAdded
  <2>7. Count(Append(s, c), SP) = Count(s, SP) + IF c = SP THEN 1 ELSE 0
    BY <2>2, CountAppend
  <2>8. Len(F[j]) = Count(Append(s, c), SP) + 1
    BY <2>5, <2>6, <2>7
  <2>9. j \in T
    BY <2>1, <2>2, <2>6, <2>8
  <2> QED BY <2>9 DEF j
<1>6. n \in T
  <2> HIDE DEF T
  <2>1. 0 .. n \subseteq T
    BY <1>1, <1>4, <1>5, UpTo
  <2> QED BY <1>1, <2>1
<1> QED BY <1>1, <1>2, <1>6

\* A text split into the pieces T: F is in front of a piece, H from it on.
Splits(C, n, T, F, H, text) ==
  /\ F \in [0 .. n -> Seq(C)] /\ H \in [0 .. n -> Seq(C)] /\ F[0] = <<>> /\ H[n] = <<>>
  /\ \A k \in 0 .. n - 1 : T[k] \in Seq(C) /\ F[k + 1] = F[k] \o T[k] /\ H[k] = T[k] \o H[k + 1]
  /\ \A k \in 0 .. n : F[k] \o H[k] = text

\* Pieces whose beginnings join up to a text split that text.
LEMMA SplitsExist ==
  ASSUME NEW C, NEW n \in Nat, NEW T, \A k \in 0 .. n - 1 : T[k] \in Seq(C),
         NEW F \in [0 .. n -> Seq(C)], F[0] = <<>>, \A k \in 0 .. n - 1 : F[k + 1] = F[k] \o T[k]
  PROVE  \E H : Splits(C, n, T, F, H, F[n])
<1> DEFINE text == F[n]
           U == {m \in 0 .. n : \E h \in Seq(C) : F[n - m] \o h = text}
           H == [k \in 0 .. n |-> Mid(text, Len(F[k]))]
<1>1. n \in 0 .. n /\ text \in Seq(C) /\ <<>> \in Seq(C)
  OBVIOUS
<1> HIDE DEF text
<1>2. 0 \in U
  <2>1. n - 0 = n /\ 0 \in 0 .. n
    OBVIOUS
  <2>2. F[n] \o <<>> = text
    BY <1>1 DEF text
  <2> QED BY <1>1, <2>1, <2>2
<1>3. ASSUME NEW m \in 0 .. n - 1, m \in U
      PROVE  m + 1 \in U
  <2> DEFINE k == n - (m + 1)
  <2>1. k \in 0 .. n - 1 /\ k + 1 = n - m /\ m + 1 \in 0 .. n /\ k \in 0 .. n
    OBVIOUS
  <2> HIDE DEF k
  <2>2. PICK h \in Seq(C) : F[k + 1] \o h = text
    BY <1>3, <2>1
  <2> DEFINE f == F[k]
             t == T[k]
  <2>3. f \in Seq(C) /\ t \in Seq(C) /\ F[k + 1] = f \o t
    BY <2>1
  <2> HIDE DEF f, t
  <2>4. Regroup(f, t, h)
    BY <2>3, Regrouped
  <2>5. t \o h \in Seq(C)
    BY <2>3
  <2>6. f \o (t \o h) = text
    BY <2>2, <2>3, <2>4 DEF Regroup
  <2>7. \E g \in Seq(C) : F[k] \o g = text
    BY <2>5, <2>6 DEF f
  <2> QED BY <2>1, <2>7 DEF k
<1>4. 0 .. n \subseteq U
  <2> HIDE DEF U
  <2> QED BY <1>2, <1>3, UpTo
<1>5. ASSUME NEW k \in 0 .. n
      PROVE  H[k] \in Seq(C) /\ F[k] \o H[k] = text
  <2> DEFINE m == n - k
  <2>1. m \in 0 .. n /\ n - m = k
    OBVIOUS
  <2> HIDE DEF m
  <2>2. PICK h \in Seq(C) : F[k] \o h = text
    <3>1. m \in U
      <4> HIDE DEF U
      <4> QED BY <1>4, <2>1
    <3> QED BY <2>1, <3>1
  <2>3. Mid(F[k] \o h, Len(F[k])) = h
    <3>1. F[k] \in Seq(C)
      OBVIOUS
    <3> QED BY <3>1, MidBehind, Zenon
  <2>4. H[k] = h
    BY <2>2, <2>3
  <2> QED BY <2>2, <2>4
<1>6. H = [k \in 0 .. n |-> H[k]]
  OBVIOUS
<1>7. ASSUME NEW k \in 0 .. n, NEW h \in Seq(C), F[k] \o h = text
      PROVE  H[k] = h
  <2>1. Mid(F[k] \o h, Len(F[k])) = h
    <3>1. F[k] \in Seq(C)
      OBVIOUS
    <3> QED BY <3>1, MidBehind, Zenon
  <2> QED BY <1>7, <2>1
<1> HIDE DEF H, U
<1>8. H \in [0 .. n -> Seq(C)]
  BY <1>5, <1>6
<1>9. H[n] = <<>>
  <2>1. F[n] \o <<>> = text
    BY <1>1 DEF text
  <2> QED BY <1>1, <1>7, <2>1
<1>10. ASSUME NEW k \in 0 .. n - 1
       PROVE  H[k] = T[k] \o H[k + 1]
  <2> DEFINE f == F[k]
             t == T[k]
             h == H[k + 1]
  <2>1. k \in 0 .. n /\ k + 1 \in 0 .. n
    OBVIOUS
  <2>2. f \in Seq(C) /\ t \in Seq(C) /\ F[k + 1] = f \o t /\ h \in Seq(C) /\ F[k + 1] \o h = text
    BY <1>5, <2>1
  <2> HIDE DEF f, t, h
  <2>3. Regroup(f, t, h)
    BY <2>2, Regrouped
  <2>4. t \o h \in Seq(C)
    BY <2>2
  <2>5. f \o (t \o h) = text
    BY <2>2, <2>3 DEF Regroup
  <2>6. H[k] = t \o h
    BY <1>7, <2>1, <2>4, <2>5 DEF f
  <2> QED BY <2>6 DEF t, h
<1> QED BY <1>5, <1>8, <1>9, <1>10 DEF Splits, text

----------------------------------------------------------------------------
(* JS::diff: which words are paired.                                       *)

\* The words that have a row of the other text.
Paired(v) == {k \in DOMAIN v : v[k].row # -1}

\* v is d with row r given to word i of a.
RowGiven(v, d, a, i, r) ==
  /\ \A k \in 0 .. a - 1 : v[k].text = d[k].text /\ v[k].row = IF k = i THEN r ELSE d[k].row
  /\ Paired(v) = Paired(d) \cup {i}

\* A row given to one word pairs that word and no other.
LEMMA RowFacts ==
  ASSUME NEW C, NEW a \in Nat, NEW R, NEW d \in DiffRows(C, a, R), NEW i \in 0 .. a - 1, NEW r \in R, r # -1
  PROVE  RowGiven([d EXCEPT ![i].row = r], d, a, i, r)
<1> DEFINE new == [d EXCEPT ![i].row = r]
<1>1. DOMAIN d = 0 .. a - 1 /\ DOMAIN new = 0 .. a - 1
  BY DEF DiffRows
<1>2. ASSUME NEW k \in 0 .. a - 1
      PROVE  new[k].text = d[k].text /\ new[k].row = IF k = i THEN r ELSE d[k].row
  <2> DEFINE old == d[k]
  <2>1. old \in [text : Seq(C), row : R]
    BY DEF DiffRows
  <2>2. new[k] = IF k = i THEN [old EXCEPT !.row = r] ELSE old
    BY <1>1
  <2> HIDE DEF old, new
  <2>3. new[k].text = old.text /\ new[k].row = IF k = i THEN r ELSE old.row
    BY <2>1, <2>2
  <2> QED BY <2>3 DEF old
<1> HIDE DEF new
<1>3. Paired(new) = Paired(d) \cup {i}
  BY <1>1, <1>2 DEF Paired
<1> QED BY <1>2, <1>3 DEF RowGiven, new

\* Two diff vectors that tell the words of the texts, with the paired words
\* alike and as many on either side.
Matched(C, old, new) ==
  {q \in Diffs(C, Len(new), Len(old)) :
     /\ \A i \in DOMAIN q.n : q.n[i].text = new[i + 1]
     /\ \A j \in DOMAIN q.o : q.o[j].text = old[j + 1]
     /\ \A i \in Paired(q.n) : q.n[i].row \in Paired(q.o) /\ q.o[q.n[i].row].text = q.n[i].text
     /\ Cardinality(Paired(q.n)) = Cardinality(Paired(q.o))}

\* The paired words are finitely many.
LEMMA PairedFinite ==
  ASSUME NEW C, NEW a \in Nat, NEW R, NEW d \in DiffRows(C, a, R)
  PROVE  IsFiniteSet(Paired(d)) /\ Cardinality(Paired(d)) \in Nat /\ Paired(d) \subseteq 0 .. a - 1
<1>1. IsFiniteSet(0 .. a - 1)
  BY FS_Interval
<1>2. Paired(d) \subseteq 0 .. a - 1
  BY DEF Paired, DiffRows
<1>3. IsFiniteSet(Paired(d))
  BY <1>1, <1>2, FS_Subset
<1> QED BY <1>2, <1>3, FS_CardinalityType

\* Two words that are equal, row included, may be paired.
LEMMA PairMatched ==
  ASSUME NEW C, NEW old \in Seq(Seq(C)), NEW new \in Seq(Seq(C)), NEW q \in Matched(C, old, new),
         NEW i \in 0 .. Len(new) - 1, NEW j \in 0 .. Len(old) - 1, q.n[i] = q.o[j]
  PROVE  Pair(q, i, j) \in Matched(C, old, new)
<1> DEFINE a == Len(new)
           b == Len(old)
           n == q.n
           o == q.o
           nn == [n EXCEPT ![i].row = j]
           oo == [o EXCEPT ![j].row = i]
           p == Pair(q, i, j)
<1>1. a \in Nat /\ b \in Nat /\ q \in Diffs(C, a, b) /\ i \in Int /\ i # -1 /\ j # -1
  BY DEF Matched
<1>2. /\ \A k \in DOMAIN n : n[k].text = new[k + 1]
      /\ \A k \in DOMAIN o : o[k].text = old[k + 1]
      /\ \A k \in Paired(n) : n[k].row \in Paired(o) /\ o[n[k].row].text = n[k].text
      /\ Cardinality(Paired(n)) = Cardinality(Paired(o))
  BY DEF Matched
<1>3. n \in DiffRows(C, a, RowsTo(b)) /\ o \in DiffRows(C, b, Int) /\ j \in RowsTo(b)
  BY <1>1 DEF Diffs, RowsTo
<1>4. p = [n |-> nn, o |-> oo]
  BY DEF Pair
<1>5. p \in Diffs(C, a, b)
  BY <1>1, PairType
<1>6. n[i] = o[j] /\ i \in 0 .. a - 1 /\ j \in 0 .. b - 1
  OBVIOUS
<1> HIDE DEF p, n, o, a, b
<1>7. /\ \A k \in 0 .. a - 1 : nn[k].text = n[k].text /\ nn[k].row = IF k = i THEN j ELSE n[k].row
      /\ Paired(nn) = Paired(n) \cup {i}
  <2>1. RowGiven(nn, n, a, i, j)
    BY <1>1, <1>3, <1>6, RowFacts, Zenon
  <2> HIDE DEF nn
  <2> QED BY <2>1, Zenon DEF RowGiven
<1>8. /\ \A k \in 0 .. b - 1 : oo[k].text = o[k].text /\ oo[k].row = IF k = j THEN i ELSE o[k].row
      /\ Paired(oo) = Paired(o) \cup {j}
  <2>1. RowGiven(oo, o, b, j, i)
    BY <1>1, <1>3, <1>6, RowFacts, Zenon
  <2> HIDE DEF oo
  <2> QED BY <2>1, Zenon DEF RowGiven
<1>9. DOMAIN nn = 0 .. a - 1 /\ DOMAIN oo = 0 .. b - 1 /\ DOMAIN n = 0 .. a - 1 /\ DOMAIN o = 0 .. b - 1
  BY <1>3 DEF DiffRows
<1> HIDE DEF nn, oo
<1>10. i \in Paired(n) <=> j \in Paired(o)
  BY <1>6, <1>9 DEF Paired
<1>11. Paired(n) \subseteq 0 .. a - 1 /\ Paired(o) \subseteq 0 .. b - 1
  BY <1>9 DEF Paired
<1>12. ASSUME NEW k \in Paired(nn)
       PROVE  nn[k].row \in Paired(oo) /\ oo[nn[k].row].text = nn[k].text
  <2> HIDE DEF Paired
  <2>1. CASE k = i
    BY <1>6, <1>7, <1>8, <2>1
  <2>2. CASE k # i
    <3>1. k \in Paired(n) /\ k \in 0 .. a - 1 /\ n[k].row \in 0 .. b - 1
      BY <1>2, <1>7, <1>11, <2>2
    <3>2. nn[k].row = n[k].row /\ nn[k].text = n[k].text /\ oo[n[k].row].text = o[n[k].row].text
      BY <1>7, <1>8, <2>2, <3>1
    <3> QED BY <1>2, <1>8, <3>1, <3>2
  <2> QED BY <2>1, <2>2
<1>13. Cardinality(Paired(nn)) = Cardinality(Paired(oo))
  <2>1. IsFiniteSet(Paired(n)) /\ IsFiniteSet(Paired(o))
    BY <1>1, <1>3, PairedFinite
  <2>2. Cardinality(Paired(n) \cup {i}) = IF i \in Paired(n) THEN Cardinality(Paired(n)) ELSE Cardinality(Paired(n)) + 1
    BY <2>1, FS_AddElement
  <2>3. Cardinality(Paired(o) \cup {j}) = IF j \in Paired(o) THEN Cardinality(Paired(o)) ELSE Cardinality(Paired(o)) + 1
    BY <2>1, FS_AddElement
  <2> QED BY <1>2, <1>7, <1>8, <1>10, <2>2, <2>3
<1>14. p.n = nn /\ p.o = oo
  BY <1>4
<1>15. (\A k \in DOMAIN nn : nn[k].text = new[k + 1]) /\ (\A k \in DOMAIN oo : oo[k].text = old[k + 1])
  BY <1>2, <1>7, <1>8, <1>9
<1>16. p \in Matched(C, old, new)
  BY <1>5, <1>12, <1>13, <1>14, <1>15 DEF Matched, a, b
<1> QED BY <1>16 DEF p

\* One iteration of either loop.
LEMMA MatchedDown ==
  ASSUME NEW C, NEW old \in Seq(Seq(C)), NEW new \in Seq(Seq(C)), NEW q \in Matched(C, old, new),
         NEW i \in 0 .. Len(new) - 2
  PROVE  MatchDown(q, i) \in Matched(C, old, new)
<1> DEFINE below == q.n[i].row + 1
           M == Matched(C, old, new)
<1>1. MatchDown(q, i) = IF below \in DOMAIN q.o /\ q.o[below].row # 1 /\ q.n[i + 1] = q.o[below]
                        THEN Pair(q, i + 1, below) ELSE q
  BY Zenon DEF MatchDown, below
<1>2. DOMAIN q.o = 0 .. Len(old) - 1 /\ i + 1 \in 0 .. Len(new) - 1
  BY DEF Matched, Diffs, DiffRows
<1> HIDE DEF below
<1>3. ASSUME below \in DOMAIN q.o, q.n[i + 1] = q.o[below]
      PROVE  Pair(q, i + 1, below) \in M
  BY <1>2, <1>3, PairMatched
<1> HIDE DEF M
<1>4. q \in M
  BY DEF M
<1>5. MatchDown(q, i) \in M
  BY <1>1, <1>3, <1>4, Zenon
<1> QED BY <1>5 DEF M

\* Looking one word up keeps the words matched, as looking one down does.
LEMMA MatchedUp ==
  ASSUME NEW C, NEW old \in Seq(Seq(C)), NEW new \in Seq(Seq(C)), NEW q \in Matched(C, old, new),
         NEW i \in 1 .. Len(new) - 1
  PROVE  MatchUp(q, i) \in Matched(C, old, new)
<1> DEFINE above == q.n[i].row - 1
           M == Matched(C, old, new)
<1>1. MatchUp(q, i) = IF above \in DOMAIN q.o /\ q.n[i - 1] = q.o[above]
                      THEN Pair(q, i - 1, above) ELSE q
  BY Zenon DEF MatchUp, above
<1>2. DOMAIN q.o = 0 .. Len(old) - 1 /\ i - 1 \in 0 .. Len(new) - 1
  BY DEF Matched, Diffs, DiffRows
<1> HIDE DEF above
<1>3. ASSUME above \in DOMAIN q.o, q.n[i - 1] = q.o[above]
      PROVE  Pair(q, i - 1, above) \in M
  BY <1>2, <1>3, PairMatched
<1> HIDE DEF M
<1>4. q \in M
  BY DEF M
<1>5. MatchUp(q, i) \in M
  BY <1>1, <1>3, <1>4, Zenon
<1> QED BY <1>5 DEF M

\* What a vector holds before and after the words that occur once are paired.
LEMMA DiffOutFacts ==
  ASSUME NEW C, NEW words \in Seq(Seq(C))
  PROVE  /\ DOMAIN DiffOut(words) = 0 .. Len(words) - 1
         /\ \A i \in 0 .. Len(words) - 1 : DiffOut(words)[i].text = words[i + 1] /\ DiffOut(words)[i].row = -1
BY DEF DiffOut

\* m is d with the rows that MatchUnique gives: a word of the a in d has one
\* exactly if it occurs once there and once among the b in e.
Once(m, d, e, a, b) ==
  /\ DOMAIN m = 0 .. a - 1
  /\ \A i \in 0 .. a - 1 :
       /\ m[i].text = d[i].text
       /\ \A j \in 0 .. b - 1 : Rows(d, d[i].text) = {i} /\ Rows(e, d[i].text) = {j} => m[i].row = j
       /\ m[i].row # -1 =>
            /\ m[i].row \in 0 .. b - 1
            /\ Rows(d, d[i].text) = {i} /\ Rows(e, d[i].text) = {m[i].row}

\* MatchUnique pairs the words that occur once in either text, and no others.
LEMMA UniqueFacts ==
  ASSUME NEW C, NEW a \in Nat, NEW b \in Nat, NEW R, NEW S,
         NEW d \in DiffRows(C, a, R), NEW e \in DiffRows(C, b, S),
         \A i \in 0 .. a - 1 : d[i].row = -1
  PROVE  Once(MatchUnique(d, e), d, e, a, b)
<1> DEFINE m == MatchUnique(d, e)
           Twins(i) == Rows(e, d[i].text)
           At(i) == IF Rows(d, d[i].text) = {i} /\ Cardinality(Twins(i)) = 1
                    THEN [d[i] EXCEPT !.row = CHOOSE j \in Twins(i) : TRUE]
                    ELSE d[i]
<1>1. DOMAIN d = 0 .. a - 1 /\ DOMAIN e = 0 .. b - 1
  BY DEF DiffRows
<1>2. m = [i \in 0 .. a - 1 |-> At(i)]
  BY <1>1, Zenon DEF MatchUnique
<1> HIDE DEF m
<1>3. ASSUME NEW i \in 0 .. a - 1
      PROVE  /\ m[i].text = d[i].text
             /\ \A j \in 0 .. b - 1 :
                  Rows(d, d[i].text) = {i} /\ Rows(e, d[i].text) = {j} => m[i].row = j
             /\ m[i].row # -1 =>
                  /\ m[i].row \in 0 .. b - 1
                  /\ Rows(d, d[i].text) = {i} /\ Rows(e, d[i].text) = {m[i].row}
  <2> DEFINE x == d[i]
             T == Rows(e, x.text)
             U == Rows(d, x.text)
             r == CHOOSE j \in T : TRUE
  <2>1. m[i] = IF U = {i} /\ Cardinality(T) = 1 THEN [x EXCEPT !.row = r] ELSE x
    BY <1>2
  <2>2. x \in [text : Seq(C), row : R] /\ x.row = -1
    BY DEF DiffRows
  <2>3. T \subseteq 0 .. b - 1
    BY <1>1 DEF Rows
  <2> HIDE DEF T, U, x
  <2>4. IsFiniteSet(T)
    <3>1. IsFiniteSet(0 .. b - 1)
      BY FS_Interval
    <3> QED BY <2>3, <3>1, FS_Subset
  <2>5. Cardinality(T) = 1 <=> \E j : T = {j}
    BY <2>4, FS_Singleton
  <2>6. CASE U = {i} /\ Cardinality(T) = 1
    <3>1. PICK j : T = {j}
      BY <2>5, <2>6
    <3>2. r = j /\ T = {r} /\ r \in 0 .. b - 1
      BY <2>3, <3>1
    <3> HIDE DEF r
    <3>3. m[i].text = x.text /\ m[i].row = r
      BY <2>1, <2>2, <2>6
    <3>4. \A k \in 0 .. b - 1 : T = {k} => r = k
      BY <3>2
    <3> QED BY <2>6, <3>2, <3>3, <3>4 DEF T, U, x
  <2>7. CASE ~(U = {i} /\ Cardinality(T) = 1)
    <3>1. m[i] = x
      BY <2>1, <2>7
    <3>2. ~(U = {i} /\ \E k \in 0 .. b - 1 : T = {k})
      BY <2>5, <2>7
    <3> QED BY <2>2, <3>1, <3>2 DEF T, U, x
  <2> QED BY <2>6, <2>7
<1>4. DOMAIN m = 0 .. a - 1
  BY <1>2
<1> QED BY <1>3, <1>4 DEF Once, m

\* A paired word occurs once on either side, and so does its twin.
LEMMA OnceTwin ==
  ASSUME NEW a \in Nat, NEW b \in Nat, NEW d, NEW e, DOMAIN d = 0 .. a - 1, DOMAIN e = 0 .. b - 1,
         NEW m, Once(m, d, e, a, b), NEW p, Once(p, e, d, b, a), NEW i \in Paired(m)
  PROVE  m[i].row \in Paired(p) /\ p[m[i].row].row = i /\ p[m[i].row].text = m[i].text
<1> DEFINE r == m[i].row
           t == d[i].text
<1>1. i \in 0 .. a - 1 /\ m[i].row # -1
  BY DEF Paired, Once
<1>2. r \in 0 .. b - 1 /\ Rows(d, t) = {i} /\ Rows(e, t) = {r} /\ m[i].text = t
  BY <1>1, Zenon DEF Once
<1> HIDE DEF r, t
<1>3. e[r].text = t
  BY <1>2 DEF Rows
<1>4. p[r].row = i /\ p[r].text = t /\ DOMAIN p = 0 .. b - 1
  <2>1. /\ DOMAIN p = 0 .. b - 1 /\ p[r].text = e[r].text
        /\ \A j \in 0 .. a - 1 : Rows(e, e[r].text) = {r} /\ Rows(d, e[r].text) = {j} => p[r].row = j
    BY <1>2, Zenon DEF Once
  <2> QED BY <1>1, <1>2, <1>3, <2>1
<1>5. r \in Paired(p)
  BY <1>1, <1>2, <1>4 DEF Paired
<1> QED BY <1>2, <1>4, <1>5 DEF r

\* The diff starts with matched words.
LEMMA UniqueMatched ==
  ASSUME NEW C, NEW old \in Seq(Seq(C)), NEW new \in Seq(Seq(C))
  PROVE  [o |-> MatchUnique(DiffOut(old), DiffOut(new)), n |-> MatchUnique(DiffOut(new), DiffOut(old))]
           \in Matched(C, old, new)
<1> DEFINE a == Len(new)
           b == Len(old)
           d == DiffOut(new)
           e == DiffOut(old)
           n == MatchUnique(d, e)
           o == MatchUnique(e, d)
           q == [o |-> o, n |-> n]
<1>1. a \in Nat /\ b \in Nat
  OBVIOUS
<1>2. /\ DOMAIN d = 0 .. a - 1 /\ \A i \in 0 .. a - 1 : d[i].text = new[i + 1] /\ d[i].row = -1
      /\ DOMAIN e = 0 .. b - 1 /\ \A i \in 0 .. b - 1 : e[i].text = old[i + 1] /\ e[i].row = -1
  BY DiffOutFacts
<1>3. d \in DiffRows(C, a, RowsTo(b)) /\ e \in DiffRows(C, b, Int)
  BY DiffOutType DEF RowsTo
<1>4. n \in DiffRows(C, a, RowsTo(b)) /\ o \in DiffRows(C, b, Int)
  <2> HIDE DEF d, e, a, b
  <2>1. o \in DiffRows(C, b, Int)
    BY <1>1, <1>3, MatchUniqueType
  <2>2. 0 .. b - 1 \subseteq RowsTo(b)
    BY DEF RowsTo
  <2> QED BY <1>1, <1>3, <2>1, <2>2, MatchUniqueType
<1>5. Once(n, d, e, a, b) /\ Once(o, e, d, b, a)
  <2> HIDE DEF d, e, a, b
  <2>1. Once(n, d, e, a, b)
    BY <1>1, <1>2, <1>3, UniqueFacts
  <2>2. Once(o, e, d, b, a)
    BY <1>1, <1>2, <1>3, UniqueFacts
  <2> QED BY <2>1, <2>2
<1> HIDE DEF d, e, n, o, a, b
<1>6. \A i \in Paired(n) : n[i].row \in Paired(o) /\ o[n[i].row].row = i /\ o[n[i].row].text = n[i].text
  BY <1>1, <1>2, <1>5, OnceTwin
<1>7. \A i \in Paired(o) : o[i].row \in Paired(n) /\ n[o[i].row].row = i
  BY <1>1, <1>2, <1>5, OnceTwin
<1>8. Cardinality(Paired(n)) = Cardinality(Paired(o))
  <2> DEFINE f == [i \in Paired(n) |-> n[i].row]
  <2>1. f \in [Paired(n) -> Paired(o)] /\ \A i \in Paired(n) : f[i] = n[i].row
    BY <1>6
  <2> HIDE DEF f
  <2>2. \A i, k \in Paired(n) : f[i] = f[k] => i = k
    BY <1>6, <2>1
  <2>3. \A j \in Paired(o) : \E i \in Paired(n) : f[i] = j
    BY <1>7, <2>1
  <2>4. f \in Bijection(Paired(n), Paired(o))
    BY <2>1, <2>2, <2>3 DEF Bijection, Injection, Surjection, IsInjective
  <2>5. IsFiniteSet(Paired(n)) /\ ExistsBijection(Paired(n), Paired(o))
    BY <1>1, <1>4, <2>4, PairedFinite DEF ExistsBijection
  <2> QED BY <2>5, FS_Bijection
<1>9. q \in Diffs(C, a, b)
  BY <1>4 DEF Diffs
<1>10. /\ \A i \in DOMAIN n : n[i].text = new[i + 1]
       /\ \A i \in DOMAIN o : o[i].text = old[i + 1]
  BY <1>2, <1>5 DEF Once
<1>11. q.n = n /\ q.o = o
  OBVIOUS
<1> HIDE DEF q
<1>12. q \in Matched(C, old, new)
  BY <1>6, <1>8, <1>9, <1>10, <1>11 DEF Matched, a, b
<1> QED BY <1>12 DEF q, n, o, d, e

\* So JS::diff ends with matched words.
LEMMA DiffMatched ==
  ASSUME NEW C, NEW old \in Seq(Seq(C)), NEW new \in WordLists(C)
  PROVE  Diff(old, new) \in Matched(C, old, new)
<1> DEFINE a == Len(new)
           o == DiffOut(old)
           n == DiffOut(new)
           unique == [o |-> MatchUnique(o, n), n |-> MatchUnique(n, o)]
           up == [k \in 1 .. a - 1 |-> k - 1]
           back == [k \in 1 .. a - 1 |-> a - 1 + 1 - k]
           M == Matched(C, old, new)
<1>1. a \in Nat /\ a # 0 /\ new \in Seq(Seq(C))
  BY DEF WordLists
<1>2. Diff(old, new) = FoldLeft(MatchUp, FoldLeft(MatchDown, unique, up), back)
  BY Zenon DEF Diff
<1>3. up \in Seq(0 .. a - 2) /\ back \in Seq(1 .. a - 1)
  BY <1>1
<1>4. unique \in M
  BY <1>1, UniqueMatched
<1>5. (\A q \in M, i \in 0 .. a - 2 : MatchDown(q, i) \in M) /\ (\A q \in M, i \in 1 .. a - 1 : MatchUp(q, i) \in M)
  BY <1>1, MatchedDown, MatchedUp
<1> HIDE DEF up, back, unique, M
<1>6. FoldLeft(MatchDown, unique, up) \in M
  BY <1>3, <1>4, <1>5, DownKeeps
<1>7. FoldLeft(MatchUp, FoldLeft(MatchDown, unique, up), back) \in M
  BY <1>3, <1>5, <1>6, UpKeeps
<1> QED BY <1>2, <1>7 DEF M

\* The paired words in one order.
InOrder(n) == \A i, j \in Paired(n) : i < j => n[i].row < n[j].row

\* Every paired old word is that of a new word.
Onto(q) == \A j \in Paired(q.o) : \E i \in Paired(q.n) : q.n[i].row = j

\* If no word moved, every paired old word is that of one new word.
LEMMA InOrderOnto ==
  ASSUME NEW C, NEW old \in Seq(Seq(C)), NEW new \in Seq(Seq(C)), NEW q \in Matched(C, old, new), InOrder(q.n)
  PROVE  Onto(q)
<1> DEFINE n == q.n
           o == q.o
           f == [i \in Paired(n) |-> n[i].row]
<1>1. /\ n \in DiffRows(C, Len(new), RowsTo(Len(old))) /\ o \in DiffRows(C, Len(old), Int)
      /\ \A i \in Paired(n) : n[i].row \in Paired(o)
      /\ Cardinality(Paired(n)) = Cardinality(Paired(o))
      /\ Len(new) \in Nat /\ Len(old) \in Nat
  BY DEF Matched, Diffs
<1>2. InOrder(n)
  OBVIOUS
<1> HIDE DEF n, o
<1>3. IsFiniteSet(Paired(n)) /\ IsFiniteSet(Paired(o)) /\ Paired(n) \subseteq Int /\ Paired(o) \subseteq Int
  <2>1. Paired(n) \subseteq 0 .. Len(new) - 1 /\ Paired(o) \subseteq 0 .. Len(old) - 1
    BY <1>1, PairedFinite
  <2> QED BY <1>1, <2>1, PairedFinite
<1>4. f \in [Paired(n) -> Paired(o)] /\ \A i \in Paired(n) : f[i] = n[i].row
  BY <1>1
<1> HIDE DEF f
<1>5. ASSUME NEW i \in Paired(n), NEW k \in Paired(n), f[i] = f[k]
      PROVE  i = k
  <2>1. i \in Int /\ k \in Int /\ f[i] \in Int
    BY <1>3, <1>4
  <2>2. (i < k => f[i] < f[k]) /\ (k < i => f[k] < f[i])
    BY <1>2, <1>4 DEF InOrder
  <2> QED BY <1>5, <2>1, <2>2
<1>6. f \in Injection(Paired(n), Paired(o))
  BY <1>4, <1>5 DEF Injection, IsInjective
<1>7. f \in Surjection(Paired(n), Paired(o))
  BY <1>1, <1>3, <1>6, FS_Injection
<1>8. \A j \in Paired(o) : \E i \in Paired(n) : f[i] = j
  BY <1>7 DEF Surjection
<1>9. \A j \in Paired(o) : \E i \in Paired(n) : n[i].row = j
  BY <1>4, <1>8
<1> QED BY <1>9, Zenon DEF n, o, Onto

----------------------------------------------------------------------------
(* The words with their spaces, and the deletions between paired ones.     *)

\* What createChangeset calls the words with their spaces.
Tokens(d, a, spaces) == [k \in 0 .. a - 1 |-> Token(d, k, spaces)]

\* They split the text.
LEMMA TokensSplit ==
  ASSUME NEW C, SP \in C, NEW text \in Seq(C), NEW R, NEW d \in DiffRows(C, Len(Words(text)), R),
         \A k \in 0 .. Len(Words(text)) - 1 : d[k].text = Words(text)[k + 1]
  PROVE  \E F, H : Splits(C, Len(Words(text)), Tokens(d, Len(Words(text)), Count(text, SP)), F, H, text)
<1> DEFINE words == Words(text)
           a == Len(words)
           spaces == Count(text, SP)
           T == Tokens(d, a, spaces)
<1>1. words \in Seq(Seq(C)) /\ a \in Nat
  <2>1. words \in Seq(Seq(C))
    BY WordsType
  <2> QED BY <2>1
<1>2. d \in DiffRows(C, a, R) /\ \A k \in 0 .. a - 1 : d[k].text = words[k + 1]
  OBVIOUS
<1> HIDE DEF words, a
<1>3. \A k \in 0 .. a - 1 : T[k] = Token(d, k, spaces)
  BY DEF Tokens
<1>4. \A k \in 0 .. a - 1 : T[k] \in Seq(C)
  <2> HIDE DEF T
  <2> QED BY <1>1, <1>2, <1>3, TokenType
<1> HIDE DEF T
<1>5. CASE text = <<>>
  <2>1. words = <<>> /\ a = 0
    BY <1>5 DEF Words, words, a
  <2> DEFINE F == [k \in 0 .. 0 |-> text]
  <2>2. F \in [0 .. a -> Seq(C)] /\ F[0] = <<>> /\ F[a] = text /\ \A k \in 0 .. a - 1 : F[k + 1] = F[k] \o T[k]
    BY <1>5, <2>1
  <2> HIDE DEF F
  <2>3. \E H : Splits(C, a, T, F, H, F[a])
    BY <1>1, <1>4, <2>2, SplitsExist
  <2> QED BY <2>2, <2>3 DEF words, a, T
<1>6. CASE text # <<>>
  <2>1. PICK P : Beginnings(P, C, words, text)
    BY <1>6, WordsJoined DEF words
  <2>2. a = spaces + 1 /\ spaces \in Nat
    BY <1>6, WordsJoined, CountFacts DEF words, a
  <2>3. /\ P \in [0 .. a -> Seq(C)] /\ P[0] = <<>> /\ P[a] = text
        /\ \A k \in 1 .. a : P[k] = P[k - 1] \o (words[k] \o Space(k, a))
    BY <2>1, Zenon DEF Beginnings, a
  <2>4. ASSUME NEW k \in 0 .. a - 1
        PROVE  P[k + 1] = P[k] \o T[k]
    <3>1. k + 1 \in 1 .. a /\ (k + 1) - 1 = k
      BY <1>1
    <3>2. P[k + 1] = P[k] \o (words[k + 1] \o Space(k + 1, a))
      BY <2>3, <3>1
    <3>3. Space(k + 1, a) = IF k >= spaces THEN <<>> ELSE <<SP>>
      BY <1>1, <2>2 DEF Space
    <3>4. T[k] = words[k + 1] \o Space(k + 1, a)
      BY <1>2, <1>3, <3>3 DEF Token
    <3> QED BY <3>2, <3>4
  <2>5. \E H : Splits(C, a, T, P, H, P[a])
    BY <1>1, <1>4, <2>3, <2>4, SplitsExist
  <2> QED BY <2>3, <2>5 DEF words, a, T
<1> QED BY <1>5, <1>6

\* A list of deletions one longer.
LEMMA SkipsAppend ==
  ASSUME NEW C, SP \in C, NEW b \in Nat, NEW R, NEW o \in DiffRows(C, b, R), NEW first \in 0 .. b,
         NEW m \in 0 .. b - first - 1, NEW oSpace
  PROVE  /\ Skips(o, first, m, oSpace) \in Ops
         /\ Skips(o, first, m + 1, oSpace) =
              Skips(o, first, m, oSpace) \o <<OpOver(SkipOverChars, Token(o, first + m, oSpace), -1)>>
<1> DEFINE at == [k \in 1 .. m + 1 |-> OpOver(SkipOverChars, Token(o, first + k - 1, oSpace), -1)]
<1>1. ASSUME NEW k \in 1 .. m + 1
      PROVE  at[k] = OpOver(SkipOverChars, Token(o, first + k - 1, oSpace), -1) /\ at[k] \in OpSet
  <2> DEFINE i == first + k - 1
             text == Token(o, i, oSpace)
  <2>1. i \in 0 .. b - 1
    OBVIOUS
  <2>2. text \in Seq(C)
    <3> HIDE DEF i
    <3> QED BY <2>1, TokenType
  <2>3. at[k] = OpOver(SkipOverChars, text, -1)
    OBVIOUS
  <2> HIDE DEF text, at
  <2>4. OpOver(SkipOverChars, text, -1) \in OpSet
    BY <2>2, OpOverType
  <2> QED BY <2>3, <2>4 DEF text
<1>2. Skips(o, first, m + 1, oSpace) = [k \in 1 .. m + 1 |-> at[k]]
  BY DEF Skips
<1>3. Skips(o, first, m, oSpace) = [k \in 1 .. m |-> at[k]]
  <2>1. \A k \in 1 .. m : k \in 1 .. m + 1
    OBVIOUS
  <2> QED BY <1>1, <2>1 DEF Skips
<1>4. at[m + 1] = OpOver(SkipOverChars, Token(o, first + m, oSpace), -1)
  <2>1. first + (m + 1) - 1 = first + m /\ m + 1 \in 1 .. m + 1
    OBVIOUS
  <2> QED BY <1>1, <2>1
<1> HIDE DEF at
<1>5. [k \in 1 .. m |-> at[k]] \in Seq(OpSet)
  BY <1>1
<1>6. [k \in 1 .. m + 1 |-> at[k]] = [k \in 1 .. m |-> at[k]] \o <<at[m + 1]>>
  <2> DEFINE s == [k \in 1 .. m |-> at[k]]
             t == [k \in 1 .. m + 1 |-> at[k]]
  <2>1. s \in Seq(OpSet) /\ Len(s) = m /\ \A k \in 1 .. m : s[k] = at[k]
    BY <1>1
  <2>2. at[m + 1] \in OpSet
    BY <1>1
  <2> HIDE DEF s
  <2>3. t = Append(s, at[m + 1])
    BY <2>1, <2>2
  <2> HIDE DEF t
  <2>4. s \o <<at[m + 1]>> = Append(s, at[m + 1])
    BY <2>1, <2>2
  <2> QED BY <2>3, <2>4 DEF s, t
<1> QED BY <1>2, <1>3, <1>4, <1>5, <1>6 DEF Ops

\* The deletions lead to the first word from there on that is paired.
Deleted(C, b, o, first, oSpace, F, H, bank, ops, done) ==
  \E stop : /\ StopsAt(o, b, first, stop)
            /\ Deletions(o, first, oSpace) \in Ops
            /\ Deletions(o, first, oSpace) = <<>> => stop = first
            /\ Reach(C, bank, ops \o Deletions(o, first, oSpace), done, F[stop], H[stop])

\* Deleting the words up to the next paired one passes over them in the old text.
LEMMA DeletionsReach ==
  ASSUME NEW C, SP \in C, NEW b \in Nat, NEW R, NEW o \in DiffRows(C, b, R), NEW first \in 0 .. b, NEW oSpace,
         NEW F, NEW H, NEW old, Splits(C, b, Tokens(o, b, oSpace), F, H, old),
         NEW bank, NEW ops \in Ops, NEW done, Reach(C, bank, ops, done, F[first], H[first])
  PROVE  Deleted(C, b, o, first, oSpace, F, H, bank, ops, done)
<1>1. PICK stop : StopsAt(o, b, first, stop) /\ Deletions(o, first, oSpace) = Skips(o, first, stop - first, oSpace)
  BY DeletionsFound
<1>2. stop \in first .. b
  BY <1>1 DEF StopsAt
<1> DEFINE n == stop - first
           S(m) == Skips(o, first, m, oSpace)
           T == {m \in 0 .. n : S(m) \in Ops /\ Reach(C, bank, ops \o S(m), done, F[first + m], H[first + m])}
<1>3. n \in Nat /\ n \in 0 .. n
  BY <1>2
<1>4. /\ F \in [0 .. b -> Seq(C)] /\ H \in [0 .. b -> Seq(C)]
      /\ \A k \in 0 .. b - 1 : /\ Token(o, k, oSpace) \in Seq(C) /\ F[k + 1] = F[k] \o Token(o, k, oSpace)
                             /\ H[k] = Token(o, k, oSpace) \o H[k + 1]
  <2>1. \A k \in 0 .. b - 1 : Tokens(o, b, oSpace)[k] = Token(o, k, oSpace)
    BY DEF Tokens
  <2> QED BY <2>1 DEF Splits
<1>5. 0 \in T
  <2>1. S(0) = <<>> /\ first + 0 = first /\ 0 \in 0 .. n
    <3>1. 1 .. 0 = {}
      OBVIOUS
    <3> QED BY <1>3, <3>1 DEF Skips
  <2>2. <<>> \in Ops /\ ops \o <<>> = ops
    BY DEF Ops
  <2> HIDE DEF S
  <2> QED BY <2>1, <2>2
<1>6. ASSUME NEW m \in 0 .. n - 1, m \in T
      PROVE  m + 1 \in T
  <2> DEFINE k == first + m
             t == Token(o, k, oSpace)
             op == OpOver(SkipOverChars, t, -1)
             s == S(m)
  <2>1. k \in 0 .. b - 1 /\ first + (m + 1) = k + 1 /\ m \in 0 .. b - first - 1 /\ m + 1 \in 0 .. n /\ k + 1 \in 0 .. b
    BY <1>2
  <2>2. s \in Ops /\ Reach(C, bank, ops \o s, done, F[k], H[k])
    BY <1>6
  <2>3. S(m + 1) = s \o <<op>>
    BY <2>1, SkipsAppend
  <2> HIDE DEF k, s, S
  <2>4. t \in Seq(C) /\ F[k + 1] = F[k] \o t /\ H[k] = t \o H[k + 1] /\ H[k + 1] \in Seq(C)
    BY <1>4, <2>1
  <2> HIDE DEF t
  <2>5. Over(op, t) /\ op.kind = SkipOverChars
    BY <2>4, OpOverOver
  <2> HIDE DEF op
  <2>6. Reach(C, bank, (ops \o s) \o <<op>>, done, F[k] \o t, H[k + 1])
    BY <2>2, <2>4, <2>5, ReachSkip
  <2>7. op \in OpSet
    BY <2>5 DEF Over
  <2>8. (ops \o s) \o <<op>> = ops \o (s \o <<op>>) /\ s \o <<op>> \in Ops
    <3>1. <<op>> \in Seq(OpSet) /\ s \in Seq(OpSet) /\ ops \in Seq(OpSet)
      BY <2>2, <2>7 DEF Ops
    <3>2. Regroup(ops, s, <<op>>)
      BY <3>1, Regrouped
    <3>3. s \o <<op>> \in Seq(OpSet)
      BY <3>1, ConcatLength, Zenon
    <3> QED BY <3>2, <3>3 DEF Regroup, Ops
  <2>9. Reach(C, bank, ops \o S(m + 1), done, F[k + 1], H[k + 1]) /\ S(m + 1) \in Ops
    BY <2>3, <2>4, <2>6, <2>8
  <2> QED BY <2>1, <2>9
<1>7. n \in T
  <2> HIDE DEF T, n
  <2>1. 0 .. n \subseteq T
    BY <1>3, <1>5, <1>6, UpTo
  <2> QED BY <1>3, <2>1
<1>8. first + n = stop
  BY <1>2
<1>9. S(n) = <<>> => n = 0
  <2> DEFINE s == [k \in 1 .. n |-> OpOver(SkipOverChars, Token(o, first + k - 1, oSpace), -1)]
  <2>1. DOMAIN s = 1 .. n /\ S(n) = s
    BY DEF Skips
  <2> HIDE DEF s, n, S
  <2>2. s = <<>> => 1 .. n = {}
    BY <2>1
  <2> QED BY <1>3, <2>1, <2>2
<1>10. S(n) = <<>> => stop = first
  BY <1>2, <1>9
<1> HIDE DEF n, S
<1>11. Deletions(o, first, oSpace) = S(n)
  BY <1>1, Zenon DEF S, n
<1> QED BY <1>1, <1>7, <1>8, <1>10, <1>11 DEF Deleted

----------------------------------------------------------------------------
(* Where in the old text the words from k on begin, if no word moved.      *)

\* Paired words have rows of paired words, in the order of the text, and every
\* paired old word is one of them.
Aligned(q, a, b) ==
  /\ a \in Nat /\ b \in Nat /\ DOMAIN q.n = 0 .. a - 1 /\ DOMAIN q.o = 0 .. b - 1
  /\ InOrder(q.n)
  /\ \A i \in Paired(q.n) : q.n[i].row \in Paired(q.o)
  /\ \A j \in Paired(q.o) : \E i \in Paired(q.n) : q.n[i].row = j

\* At the new word k the old words in front of J are done: J is the first one
\* that is paired with a new word from k on.
Pending(q, b, k, J) ==
  /\ J \in 0 .. b
  /\ J = b \/ J \in Paired(q.o)
  /\ \A j \in Paired(q.o) : j >= J <=> \E i \in Paired(q.n) : i >= k /\ q.n[i].row = j

\* The rows of paired words are words of the other text.
LEMMA AlignedFacts ==
  ASSUME NEW q, NEW a, NEW b, Aligned(q, a, b)
  PROVE  /\ Paired(q.n) \subseteq 0 .. a - 1 /\ Paired(q.o) \subseteq 0 .. b - 1
         /\ \A i \in Paired(q.n) : q.n[i].row \in 0 .. b - 1
BY DEF Aligned, Paired

\* The first paired word is where the text begins.
LEMMA PendingStart ==
  ASSUME NEW q, NEW a, NEW b, Aligned(q, a, b), NEW J, StopsAt(q.o, b, 0, J)
  PROVE  Pending(q, b, 0, J)
<1>1. a \in Nat /\ b \in Nat /\ DOMAIN q.o = 0 .. b - 1
  BY DEF Aligned
<1>2. J \in 0 .. b /\ (J = b \/ q.o[J].row # -1) /\ \A j \in 0 .. J - 1 : q.o[j].row = -1
  BY DEF StopsAt
<1>3. J = b \/ J \in Paired(q.o)
  BY <1>1, <1>2 DEF Paired
<1>4. ASSUME NEW j \in Paired(q.o)
      PROVE  j >= J /\ \E i \in Paired(q.n) : i >= 0 /\ q.n[i].row = j
  <2>1. j \in 0 .. b - 1 /\ q.o[j].row # -1
    BY <1>1 DEF Paired
  <2>2. j >= J
    BY <1>1, <1>2, <2>1
  <2>3. PICK i \in Paired(q.n) : q.n[i].row = j
    BY DEF Aligned
  <2>4. i \in 0 .. a - 1
    BY AlignedFacts
  <2>5. i >= 0
    BY <2>4
  <2> QED BY <2>2, <2>3, <2>5
<1> QED BY <1>2, <1>3, <1>4 DEF Pending

\* Behind the last word nothing is pending.
LEMMA PendingEnd ==
  ASSUME NEW q, NEW a, NEW b, Aligned(q, a, b), NEW J, Pending(q, b, a, J)
  PROVE  J = b
<1> SUFFICES ASSUME J # b PROVE FALSE
  OBVIOUS
<1>1. J \in Paired(q.o) /\ J \in 0 .. b
  BY DEF Pending
<1>2. J >= J /\ a \in Nat
  BY <1>1 DEF Aligned
<1>3. PICK i \in Paired(q.n) : i >= a
  BY <1>1, <1>2 DEF Pending
<1>4. i \in 0 .. a - 1
  BY AlignedFacts
<1> QED BY <1>2, <1>3, <1>4

\* A word without a row changes nothing.
LEMMA PendingSame ==
  ASSUME NEW q, NEW a, NEW b, Aligned(q, a, b), NEW k \in 0 .. a - 1, k \notin Paired(q.n), NEW J, Pending(q, b, k, J)
  PROVE  Pending(q, b, k + 1, J)
<1>1. \A i \in Paired(q.n) : i >= k <=> i >= k + 1
  <2> TAKE i \in Paired(q.n)
  <2>1. i \in 0 .. a - 1 /\ a \in Nat /\ i # k
    BY AlignedFacts DEF Aligned
  <2> QED BY <2>1
<1> QED BY <1>1, Zenon DEF Pending

\* A word with a row is the one that is pending.
LEMMA PendingRow ==
  ASSUME NEW q, NEW a, NEW b, Aligned(q, a, b), NEW k \in Paired(q.n), NEW J, Pending(q, b, k, J)
  PROVE  q.n[k].row = J /\ J \in 0 .. b - 1
<1> DEFINE r == q.n[k].row
<1>1. k \in 0 .. a - 1 /\ r \in 0 .. b - 1 /\ r \in Paired(q.o) /\ a \in Nat /\ b \in Nat
  BY AlignedFacts DEF Aligned
<1>2. k >= k
  BY <1>1
<1>3. r >= J /\ J \in 0 .. b
  BY <1>1, <1>2 DEF Pending
<1>4. J \in Paired(q.o)
  BY <1>1, <1>3 DEF Pending
<1>5. J >= J
  BY <1>3
<1>6. PICK i \in Paired(q.n) : i >= k /\ q.n[i].row = J
  BY <1>4, <1>5 DEF Pending
<1>7. i \in 0 .. a - 1
  BY AlignedFacts
<1>8. k < i => r < q.n[i].row
  BY DEF Aligned, InOrder
<1>9. ~(k < i)
  BY <1>1, <1>3, <1>6, <1>8
<1>10. i = k
  BY <1>1, <1>6, <1>7, <1>9
<1> QED BY <1>1, <1>6, <1>10

\* Behind it comes the next paired old word.
LEMMA PendingNext ==
  ASSUME NEW q, NEW a, NEW b, Aligned(q, a, b), NEW k \in Paired(q.n), NEW J, Pending(q, b, k, J),
         NEW stop, StopsAt(q.o, b, J + 1, stop)
  PROVE  Pending(q, b, k + 1, stop)
<1>1. q.n[k].row = J /\ J \in 0 .. b - 1
  BY PendingRow
<1>2. a \in Nat /\ b \in Nat /\ DOMAIN q.o = 0 .. b - 1 /\ k \in 0 .. a - 1
  BY AlignedFacts DEF Aligned
<1>3. stop \in J + 1 .. b /\ (stop = b \/ q.o[stop].row # -1) /\ \A j \in J + 1 .. stop - 1 : q.o[j].row = -1
  BY DEF StopsAt
<1>4. stop \in 0 .. b /\ (stop = b \/ stop \in Paired(q.o))
  BY <1>1, <1>2, <1>3 DEF Paired
<1>5. ASSUME NEW j \in Paired(q.o)
      PROVE  j >= stop <=> \E i \in Paired(q.n) : i >= k + 1 /\ q.n[i].row = j
  <2>1. j \in 0 .. b - 1 /\ q.o[j].row # -1
    BY <1>2 DEF Paired
  <2>2. j >= stop <=> j >= J /\ j # J
    BY <1>1, <1>2, <1>3, <2>1
  <2>3. j >= J <=> \E i \in Paired(q.n) : i >= k /\ q.n[i].row = j
    BY DEF Pending
  <2>4. ASSUME NEW i \in Paired(q.n), q.n[i].row = j
        PROVE  (i >= k + 1 => i >= k /\ j # J) /\ (i >= k /\ j # J => i >= k + 1)
    <3>1. i \in 0 .. a - 1
      BY AlignedFacts
    <3>2. k < i => q.n[k].row < q.n[i].row
      BY DEF Aligned, InOrder
    <3>3. k < i => J < j
      BY <1>1, <2>4, <3>2
    <3>4. i = k => j = J
      BY <1>1, <2>4
    <3> QED BY <1>1, <1>2, <2>1, <3>1, <3>3, <3>4
  <2> QED BY <2>2, <2>3, <2>4
<1> QED BY <1>4, <1>5 DEF Pending

\* Behind the last new word no old word is paired, and behind the last old word
\* the next new word is not.
LEMMA LastWords ==
  ASSUME NEW q, NEW a, NEW b, Aligned(q, a, b), NEW k \in Paired(q.n), NEW J, Pending(q, b, k, J)
  PROVE  /\ k = a - 1 /\ J # b - 1 => q.o[J + 1].row = -1
         /\ k # a - 1 /\ J = b - 1 => q.n[k + 1].row = -1
<1>1. q.n[k].row = J /\ J \in 0 .. b - 1
  BY PendingRow
<1>2. a \in Nat /\ b \in Nat /\ DOMAIN q.o = 0 .. b - 1 /\ DOMAIN q.n = 0 .. a - 1 /\ k \in 0 .. a - 1
  BY AlignedFacts DEF Aligned
<1>3. ASSUME k = a - 1, J # b - 1, q.o[J + 1].row # -1
      PROVE  FALSE
  <2>1. J + 1 \in Paired(q.o) /\ J + 1 >= J
    BY <1>1, <1>2, <1>3 DEF Paired
  <2>2. PICK i \in Paired(q.n) : i >= k /\ q.n[i].row = J + 1
    BY <2>1 DEF Pending
  <2>3. i \in 0 .. a - 1
    BY AlignedFacts
  <2>4. i = k
    BY <1>2, <1>3, <2>2, <2>3
  <2> QED BY <1>1, <2>2, <2>4
<1>4. ASSUME k # a - 1, J = b - 1, q.n[k + 1].row # -1
      PROVE  FALSE
  <2>1. k + 1 \in Paired(q.n) /\ k < k + 1
    BY <1>2, <1>4 DEF Paired
  <2>2. q.n[k].row < q.n[k + 1].row
    BY <2>1 DEF Aligned, InOrder
  <2>3. q.n[k + 1].row \in 0 .. b - 1
    BY <2>1, AlignedFacts
  <2> QED BY <1>1, <1>2, <1>4, <2>2, <2>3
<1> QED BY <1>3, <1>4

\* The '=' for a kept word, the space that is new or gone behind it, and its
\* characters in the bank: the last word of a text has no space.
KeptText(w, a, b, k, J) == IF k = a - 1 \/ J = b - 1 THEN w ELSE w \o <<SP>>

Between(a, b, k, J) ==
  IF k # a - 1 /\ J = b - 1 THEN <<Op(InsertChars, 1, -1, 0)>>
  ELSE IF k = a - 1 /\ J # b - 1 THEN <<Op(SkipOverChars, 1, -1, -1)>>
  ELSE <<>>

Added(a, b, k, J) == IF k # a - 1 /\ J = b - 1 THEN <<SP>> ELSE <<>>

\* What a kept word adds.
KeptPart(keep, dels, bank) == [ops |-> <<keep>> \o dels, bank |-> bank, held |-> dels = <<>>]

\* What createChangeset writes for a word that is kept.
LEMMA WordShape ==
  ASSUME NEW C, SP \in C, NEW q, NEW a, NEW b, Aligned(q, a, b), q \in Diffs(C, a, b),
         NEW k \in Paired(q.n), NEW J, Pending(q, b, k, J)
  PROVE  WordPart(q, k, b - 1, a - 1) =
           KeptPart(OpOver(KeepChars, KeptText(q.n[k].text, a, b, k, J), -1),
                    Between(a, b, k, J) \o Deletions(q.o, J + 1, b - 1), Added(a, b, k, J))
<1> DEFINE word == q.n[k]
           next == word.row + 1
           delSpace == next \in DOMAIN q.o /\ q.o[next].row = -1 /\ k >= a - 1
           addSpace == k + 1 \in DOMAIN q.n /\ q.n[k + 1].row = -1 /\ word.row >= b - 1
           token == Token(q.n, k, a - 1)
           kept == IF addSpace THEN word.text ELSE token
           add == IF addSpace THEN <<Op(InsertChars, 1, -1, 0)>> ELSE <<>>
           del == IF delSpace THEN <<Op(SkipOverChars, 1, -1, -1)>> ELSE <<>>
           bank == IF addSpace THEN <<SP>> ELSE <<>>
           more == Deletions(q.o, next, b - 1)
           dels == add \o del \o more
           t == KeptText(word.text, a, b, k, J)
           x == Between(a, b, k, J)
           y == Added(a, b, k, J)
<1>1. word.row = J /\ next = J + 1 /\ J \in 0 .. b - 1 /\ word.row # -1
  BY PendingRow DEF Paired
<1>2. a \in Nat /\ b \in Nat /\ DOMAIN q.o = 0 .. b - 1 /\ DOMAIN q.n = 0 .. a - 1 /\ k \in 0 .. a - 1
  BY AlignedFacts DEF Aligned
<1>3. WordPart(q, k, b - 1, a - 1) = KeptPart(OpOver(KeepChars, kept, -1), dels, bank)
  BY <1>1, Zenon DEF WordPart, KeptPart
<1>4. delSpace <=> k = a - 1 /\ J # b - 1
  <2>1. k = a - 1 /\ J # b - 1 => q.o[J + 1].row = -1
    BY LastWords
  <2> QED BY <1>1, <1>2, <2>1
<1>5. addSpace <=> k # a - 1 /\ J = b - 1
  <2>1. k # a - 1 /\ J = b - 1 => q.n[k + 1].row = -1
    BY LastWords
  <2> QED BY <1>1, <1>2, <2>1
<1>6. word.text \in Seq(C)
  BY <1>2 DEF Diffs, DiffRows
<1>7. token = IF k = a - 1 THEN word.text ELSE word.text \o <<SP>>
  <2>1. word.text \o <<>> = word.text
    <3> DEFINE w == word.text
    <3> HIDE DEF w
    <3>1. w \in Seq(C) => w \o <<>> = w
      OBVIOUS
    <3> QED BY <1>6, <3>1 DEF w
  <2>2. k >= a - 1 <=> k = a - 1
    BY <1>2
  <2>3. token = word.text \o (IF k >= a - 1 THEN <<>> ELSE <<SP>>)
    BY DEF Token
  <2> HIDE DEF token, word
  <2> QED BY <2>1, <2>2, <2>3, Zenon
<1> HIDE DEF delSpace, addSpace, word, token, more
<1>8. kept = t
  BY <1>5, <1>7 DEF KeptText
<1>9. add \o del = x /\ bank = y
  <2> DEFINE ins == Op(InsertChars, 1, -1, 0)
             skip == Op(SkipOverChars, 1, -1, -1)
  <2>1. add = (IF addSpace THEN <<ins>> ELSE <<>>) /\ del = IF delSpace THEN <<skip>> ELSE <<>>
    OBVIOUS
  <2>2. x = IF addSpace THEN <<ins>> ELSE IF delSpace THEN <<skip>> ELSE <<>>
    BY <1>4, <1>5 DEF Between
  <2>3. bank = y
    BY <1>5 DEF Added
  <2>4. ~(addSpace /\ delSpace)
    BY <1>4, <1>5
  <2> HIDE DEF ins, skip, add, del, x
  <2>5. <<>> \o <<>> = <<>> /\ <<>> \o <<skip>> = <<skip>> /\ <<ins>> \o <<>> = <<ins>>
    OBVIOUS
  <2>6. add \o del = x
    BY <2>1, <2>2, <2>4, <2>5, Zenon
  <2> QED BY <2>3, <2>6
<1> HIDE DEF add, del, bank, kept
<1>10. WordPart(q, k, b - 1, a - 1) = KeptPart(OpOver(KeepChars, t, -1), x \o more, y)
  BY <1>3, <1>8, <1>9, Zenon
<1> HIDE DEF t, x, y
<1>11. more = Deletions(q.o, J + 1, b - 1)
  BY <1>1 DEF more
<1> QED BY <1>10, <1>11, Zenon DEF t, x, y, word

\* The i-th of n words with its space.
Spaced(w, i, n) == IF i = n - 1 THEN w ELSE w \o <<SP>>

\* A list with nothing behind it.
LEMMA NothingBehind ==
  ASSUME NEW S, NEW s \in Seq(S)
  PROVE  s \o <<>> = s /\ <<>> \in Seq(S)
OBVIOUS

\* A kept word is written, with what makes up for the space behind it.
KeptAhead(C, a, b, k, J, w, bank, ops, done, used, left) ==
  /\ Reach(C, bank \o Added(a, b, k, J),
           (ops \o <<OpOver(KeepChars, KeptText(w, a, b, k, J), -1)>>) \o Between(a, b, k, J),
           done \o Spaced(w, k, a), used \o Spaced(w, J, b), left)
  /\ Between(a, b, k, J) \in Ops
  /\ Between(a, b, k, J) = <<>> =>
       /\ Added(a, b, k, J) = <<>>
       /\ (done \o Spaced(w, k, a)) \o left = done \o (Spaced(w, J, b) \o left)

\* The '=' for a kept word and what makes up for the space behind it lead
\* behind the word in both texts.
LEMMA KeptReach ==
  ASSUME NEW C, SP \in C, NEW a \in Int, NEW b \in Int, NEW k \in Int, NEW J \in Int, NEW w \in Seq(C),
         NEW bank, NEW ops, NEW done, NEW used, NEW left \in Seq(C),
         Reach(C, bank, ops, done, used, Spaced(w, J, b) \o left)
  PROVE  KeptAhead(C, a, b, k, J, w, bank, ops, done, used, left)
<1> DEFINE Keep(t) == OpOver(KeepChars, t, -1)
           sp == <<SP>>
           ws == w \o sp
           ins == Op(InsertChars, 1, -1, 0)
           skip == Op(SkipOverChars, 1, -1, -1)
<1>1. sp \in Seq(C) /\ ws \in Seq(C)
  OBVIOUS
<1>2. bank \in Seq(C) /\ ops \in Ops /\ done \in Seq(C) /\ used \in Seq(C)
  BY DEF Reach, Leads
<1>3. bank \o <<>> = bank
  BY <1>2, NothingBehind
<1>4. /\ Over(Keep(w), w) /\ Keep(w).kind = KeepChars
      /\ Over(Keep(ws), ws) /\ Keep(ws).kind = KeepChars
  BY <1>1, OpOverOver
<1>5. Over(ins, sp) /\ ins.kind = InsertChars /\ Over(skip, sp) /\ skip.kind = SkipOverChars
  BY SpaceOver
<1>6. \A op \in OpSet : <<op>> \in Ops /\ <<op>> # <<>> /\ ops \o <<op>> \in Ops
  <2> TAKE op \in OpSet
  <2>1. <<op>> \in Ops /\ <<op>> # <<>>
    BY DEF Ops
  <2> QED BY <1>2, <2>1, OpsBasics
<1>7. Keep(w) \in OpSet /\ Keep(ws) \in OpSet /\ ins \in OpSet /\ skip \in OpSet /\ <<>> \in Ops
  BY <1>4, <1>5, OpsBasics DEF Over
<1>8. Regroup(done, w, left) /\ Regroup(done, ws, left) /\ Regroup(w, sp, left) /\ Regroup(done, w, sp) /\ Regroup(used, w, sp)
  BY <1>1, <1>2, Regrouped
<1>9. CASE k # a - 1 /\ J # b - 1
  <2>1. /\ Added(a, b, k, J) = <<>> /\ Between(a, b, k, J) = <<>> /\ KeptText(w, a, b, k, J) = ws
        /\ Spaced(w, J, b) = ws /\ Spaced(w, k, a) = ws
    BY <1>9, Zenon DEF Added, Between, KeptText, Spaced
  <2> HIDE DEF Keep, ws
  <2>2. Reach(C, bank, ops \o <<Keep(ws)>>, done \o ws, used \o ws, left)
    BY <1>1, <1>4, <2>1, ReachKeep
  <2>3. (ops \o <<Keep(ws)>>) \o <<>> = ops \o <<Keep(ws)>>
    BY <1>6, <1>7, NothingBehind DEF Ops
  <2>4. (done \o ws) \o left = done \o (ws \o left)
    BY <1>8 DEF Regroup
  <2> QED BY <1>3, <1>7, <2>1, <2>2, <2>3, <2>4, Zenon DEF Keep, KeptAhead
<1>10. CASE k = a - 1 /\ J # b - 1
  <2>1. /\ Added(a, b, k, J) = <<>> /\ Between(a, b, k, J) = <<skip>> /\ KeptText(w, a, b, k, J) = w
        /\ Spaced(w, J, b) = ws /\ Spaced(w, k, a) = w
    BY <1>10, Zenon DEF Added, Between, KeptText, Spaced
  <2>2. (w \o sp) \o left = w \o (sp \o left) /\ (used \o w) \o sp = used \o (w \o sp)
    BY <1>8 DEF Regroup
  <2> HIDE DEF Keep, sp
  <2>3. Reach(C, bank, ops, done, used, w \o (sp \o left)) /\ sp \o left \in Seq(C)
    BY <1>1, <2>1, <2>2, ConcatLength, Zenon
  <2> HIDE DEF skip
  <2>4. Reach(C, bank, ops \o <<Keep(w)>>, done \o w, used \o w, sp \o left)
    BY <1>4, <2>3, ReachKeep
  <2>5. Reach(C, bank, (ops \o <<Keep(w)>>) \o <<skip>>, done \o w, (used \o w) \o sp, left)
    BY <1>1, <1>5, <2>4, ReachSkip
  <2>6. <<skip>> # <<>> /\ <<skip>> \in Ops
    BY <1>6, <1>7
  <2> QED BY <1>3, <2>1, <2>2, <2>5, <2>6, Zenon DEF Keep, KeptAhead
<1>11. CASE k # a - 1 /\ J = b - 1
  <2>1. /\ Added(a, b, k, J) = sp /\ Between(a, b, k, J) = <<ins>> /\ KeptText(w, a, b, k, J) = w
        /\ Spaced(w, J, b) = w /\ Spaced(w, k, a) = ws
    BY <1>11, Zenon DEF Added, Between, KeptText, Spaced
  <2>2. (done \o w) \o sp = done \o (w \o sp)
    BY <1>8 DEF Regroup
  <2> HIDE DEF Keep, sp, ins
  <2>3. Reach(C, bank, ops \o <<Keep(w)>>, done \o w, used \o w, left)
    BY <1>4, <2>1, ReachKeep
  <2>4. Reach(C, bank \o sp, (ops \o <<Keep(w)>>) \o <<ins>>, (done \o w) \o sp, used \o w, left)
    BY <1>1, <1>5, <2>3, ReachInsert
  <2>5. <<ins>> # <<>> /\ <<ins>> \in Ops
    BY <1>6, <1>7
  <2> QED BY <2>1, <2>2, <2>4, <2>5, Zenon DEF Keep, KeptAhead
<1>12. CASE k = a - 1 /\ J = b - 1
  <2>1. /\ Added(a, b, k, J) = <<>> /\ Between(a, b, k, J) = <<>> /\ KeptText(w, a, b, k, J) = w
        /\ Spaced(w, J, b) = w /\ Spaced(w, k, a) = w
    BY <1>12, Zenon DEF Added, Between, KeptText, Spaced
  <2> HIDE DEF Keep
  <2>2. Reach(C, bank, ops \o <<Keep(w)>>, done \o w, used \o w, left)
    BY <1>4, <2>1, ReachKeep
  <2>3. (ops \o <<Keep(w)>>) \o <<>> = ops \o <<Keep(w)>>
    BY <1>6, <1>7, NothingBehind DEF Ops
  <2>4. (done \o w) \o left = done \o (w \o left)
    BY <1>8 DEF Regroup
  <2> QED BY <1>3, <1>7, <2>1, <2>2, <2>3, <2>4, Zenon DEF Keep, KeptAhead
<1> QED BY <1>9, <1>10, <1>11, <1>12, Zenon

\* The diff of two texts without a moved word, and the texts split at its words:
----------------------------------------------------------------------------
(* What WordPart writes for one new word.                                 *)
\* FO and HO in front of and behind an old word, FN and HN a new one.
Splitting(C, q, a, b, oSpace, old, FO, HO, new, FN, HN) ==
  /\ Aligned(q, a, b) /\ q \in Diffs(C, a, b) /\ a # 0 /\ (b # 0 => oSpace = b - 1)
  /\ \A i \in Paired(q.n) : q.o[q.n[i].row].text = q.n[i].text
  /\ Splits(C, b, Tokens(q.o, b, oSpace), FO, HO, old)
  /\ Splits(C, a, Tokens(q.n, a, a - 1), FN, HN, new)

\* Word k of a with its space is the piece between F and H there.
PieceAt(C, d, a, F, H, k) ==
  /\ d[k].text \in Seq(C) /\ Token(d, k, a - 1) = Spaced(d[k].text, k, a)
  /\ F[k] \in Seq(C) /\ F[k + 1] = F[k] \o Spaced(d[k].text, k, a)
  /\ H[k + 1] \in Seq(C) /\ H[k] = Spaced(d[k].text, k, a) \o H[k + 1]

\* The pieces are the words with their spaces.
LEMMA SpacedToken ==
  ASSUME NEW C, SP \in C, NEW a \in Nat, NEW R, NEW d \in DiffRows(C, a, R),
         NEW F, NEW H, NEW text, Splits(C, a, Tokens(d, a, a - 1), F, H, text), NEW k \in 0 .. a - 1
  PROVE  PieceAt(C, d, a, F, H, k)
<1> DEFINE w == d[k].text
           t == Spaced(w, k, a)
<1>1. w \in Seq(C)
  BY DEF DiffRows
<1>2. Tokens(d, a, a - 1)[k] = Token(d, k, a - 1)
  BY DEF Tokens
<1>3. Token(d, k, a - 1) = w \o (IF k = a - 1 THEN <<>> ELSE <<SP>>)
  <2>1. k >= a - 1 <=> k = a - 1
    OBVIOUS
  <2> QED BY <2>1, Zenon DEF Token
<1>4. k \in 0 .. a /\ k + 1 \in 0 .. a
  OBVIOUS
<1> HIDE DEF w
<1>5. w \o <<>> = w
  BY <1>1
<1>6. Token(d, k, a - 1) = t
  BY <1>3, <1>5, Zenon DEF Spaced
<1> HIDE DEF t
<1>7. F[k] \in Seq(C) /\ H[k + 1] \in Seq(C)
  BY <1>4 DEF Splits
<1>8. F[k + 1] = F[k] \o Tokens(d, a, a - 1)[k] /\ H[k] = Tokens(d, a, a - 1)[k] \o H[k + 1]
  BY Zenon DEF Splits
<1> QED BY <1>1, <1>2, <1>6, <1>7, <1>8, Zenon DEF PieceAt, t, w

\* What is written for word k leads from one word to the next.  If it may be
\* held back, the text made and the text to come stay the same without it.
WordDone(C, q, b, FO, HO, FN, k, J, bank, ops, part) ==
  \E next :
    /\ Pending(q, b, k + 1, next)
    /\ Reach(C, bank \o part.bank, ops \o part.ops, FN[k + 1], FO[next], HO[next])
    /\ part.held => part.bank = <<>> /\ FN[k + 1] \o HO[next] = FN[k] \o HO[J]

\* The operations for one new word lead from the word in front of it to the next.
LEMMA WordStep ==
  ASSUME NEW C, SP \in C, NEW q, NEW a, NEW b, NEW oSpace, NEW old, NEW FO, NEW HO, NEW new, NEW FN, NEW HN,
         Splitting(C, q, a, b, oSpace, old, FO, HO, new, FN, HN), NEW k \in 0 .. a - 1,
         NEW J, Pending(q, b, k, J), NEW bank, NEW ops, Reach(C, bank, ops, FN[k], FO[J], HO[J])
  PROVE  WordDone(C, q, b, FO, HO, FN, k, J, bank, ops, WordPart(q, k, oSpace, a - 1))
<1> DEFINE part == WordPart(q, k, oSpace, a - 1)
           w == q.n[k].text
<1>1. /\ Aligned(q, a, b) /\ q \in Diffs(C, a, b) /\ a \in Nat /\ b \in Nat
      /\ Splits(C, b, Tokens(q.o, b, oSpace), FO, HO, old)
      /\ Splits(C, a, Tokens(q.n, a, a - 1), FN, HN, new)
  BY Zenon DEF Splitting, Aligned
<1>2. q.n \in DiffRows(C, a, RowsTo(b)) /\ q.o \in DiffRows(C, b, Int)
  BY <1>1 DEF Diffs
<1>3. /\ w \in Seq(C) /\ Token(q.n, k, a - 1) = Spaced(w, k, a)
      /\ FN[k + 1] = FN[k] \o Spaced(w, k, a)
  <2>1. PieceAt(C, q.n, a, FN, HN, k)
    BY <1>1, <1>2, SpacedToken, Zenon
  <2> QED BY <2>1, Zenon DEF PieceAt
<1>4. bank \in Seq(C) /\ ops \in Ops /\ FN[k] \in Seq(C)
  BY DEF Reach, Leads
<1> HIDE DEF w
<1>5. CASE k \notin Paired(q.n)
  <2> DEFINE t == Spaced(w, k, a)
             op == OpOver(InsertChars, t, 0)
  <2>1. q.n[k].row = -1
    BY <1>1, <1>5 DEF Paired, Aligned
  <2>2. part = [ops |-> <<OpOver(InsertChars, Token(q.n, k, a - 1), 0)>>, bank |-> Token(q.n, k, a - 1), held |-> FALSE]
    BY <2>1, Zenon DEF WordPart
  <2>3. part.ops = <<op>> /\ part.bank = t /\ ~part.held
    BY <1>3, <2>2
  <2>4. t \in Seq(C)
    BY <1>3 DEF Spaced
  <2> HIDE DEF t, part
  <2>5. Over(op, t) /\ op.kind = InsertChars
    BY <2>4, OpOverOver
  <2> HIDE DEF op
  <2>6. Reach(C, bank \o t, ops \o <<op>>, FN[k] \o t, FO[J], HO[J])
    BY <2>4, <2>5, ReachInsert
  <2>7. Pending(q, b, k + 1, J)
    BY <1>1, <1>5, PendingSame
  <2> QED BY <1>3, <2>3, <2>6, <2>7, Zenon DEF t, part, WordDone
<1>6. CASE k \in Paired(q.n)
  <2> DEFINE x == Between(a, b, k, J)
             y == Added(a, b, k, J)
             more == Deletions(q.o, J + 1, b - 1)
             keep == OpOver(KeepChars, KeptText(w, a, b, k, J), -1)
             left == HO[J + 1]
  <2>1. J \in 0 .. b - 1 /\ q.n[k].row = J /\ b # 0
    <3>1. q.n[k].row = J /\ J \in 0 .. b - 1
      BY <1>1, <1>6, PendingRow, Zenon
    <3> QED BY <1>1, <3>1
  <2>2. oSpace = b - 1 /\ q.o[J].text = w
    BY <1>6, <2>1, Zenon DEF Splitting, w
  <2>3. part = KeptPart(keep, x \o more, y)
    BY <1>1, <1>6, <2>2, WordShape DEF w
  <2>4. part.ops = <<keep>> \o (x \o more) /\ part.bank = y /\ part.held = (x \o more = <<>>)
    BY <2>3 DEF KeptPart
  <2>5. /\ FO[J + 1] = FO[J] \o Spaced(w, J, b)
        /\ left \in Seq(C) /\ HO[J] = Spaced(w, J, b) \o left
    <3>1. PieceAt(C, q.o, b, FO, HO, J)
      BY <1>1, <1>2, <2>1, <2>2, SpacedToken, Zenon
    <3> QED BY <2>2, <3>1, Zenon DEF PieceAt
  <2>6. a \in Int /\ b \in Int /\ k \in Int /\ J \in Int /\ J + 1 \in 0 .. b
    BY <1>1, <2>1
  <2> HIDE DEF part, left
  <2>7. Reach(C, bank, ops, FN[k], FO[J], Spaced(w, J, b) \o left)
    BY <2>5
  <2>8. /\ Reach(C, bank \o y, (ops \o <<keep>>) \o x, FN[k] \o Spaced(w, k, a), FO[J] \o Spaced(w, J, b), left)
        /\ x \in Ops
        /\ x = <<>> => y = <<>> /\ (FN[k] \o Spaced(w, k, a)) \o left = FN[k] \o (Spaced(w, J, b) \o left)
    <3>1. KeptAhead(C, a, b, k, J, w, bank, ops, FN[k], FO[J], left)
      BY <1>3, <2>5, <2>6, <2>7, KeptReach, Zenon
    <3> QED BY <3>1, Zenon DEF KeptAhead
  <2>9. Reach(C, bank \o y, (ops \o <<keep>>) \o x, FN[k + 1], FO[J + 1], HO[J + 1])
    BY <1>3, <2>5, <2>8 DEF left
  <2>10. keep \in OpSet /\ <<keep>> \in Seq(OpSet)
    <3>1. KeptText(w, a, b, k, J) \in Seq(C)
      BY <1>3 DEF KeptText
    <3>2. keep \in OpSet
      BY <3>1, OpOverType
    <3> HIDE DEF keep
    <3> QED BY <3>2
  <2> HIDE DEF x, y, keep, more
  <2>11. x \in Seq(OpSet) /\ ops \in Seq(OpSet)
    BY <1>4, <2>8 DEF Ops
  <2>12. (ops \o <<keep>>) \o x \in Ops /\ ops \o <<keep>> \in Seq(OpSet) /\ <<keep>> \o x \in Seq(OpSet)
    <3>1. ops \o <<keep>> \in Seq(OpSet) /\ <<keep>> \o x \in Seq(OpSet)
      BY <2>10, <2>11, ConcatLength, Zenon
    <3>2. (ops \o <<keep>>) \o x \in Seq(OpSet)
      BY <2>11, <3>1, ConcatLength, Zenon
    <3> QED BY <3>1, <3>2 DEF Ops
  <2>13. PICK next : /\ StopsAt(q.o, b, J + 1, next) /\ more \in Ops /\ (more = <<>> => next = J + 1)
                    /\ Reach(C, bank \o y, ((ops \o <<keep>>) \o x) \o more, FN[k + 1], FO[next], HO[next])
    <3>1. Splits(C, b, Tokens(q.o, b, b - 1), FO, HO, old)
      BY <1>1, <2>2
    <3>2. Deleted(C, b, q.o, J + 1, b - 1, FO, HO, bank \o y, (ops \o <<keep>>) \o x, FN[k + 1])
      BY <1>1, <1>2, <2>6, <2>9, <2>12, <3>1, DeletionsReach, Zenon
    <3> QED BY <3>2, Zenon DEF Deleted, more
  <2>14. Pending(q, b, k + 1, next)
    BY <1>1, <1>6, <2>13, PendingNext
  <2>15. ((ops \o <<keep>>) \o x) \o more = ops \o (<<keep>> \o (x \o more)) /\ (x \o more = <<>> => x = <<>> /\ more = <<>>)
    <3>1. more \in Seq(OpSet)
      BY <2>13 DEF Ops
    <3>2. x \o more \in Seq(OpSet) /\ Len(x \o more) = Len(x) + Len(more)
      BY <2>11, <3>1, ConcatLength, Zenon
    <3>3. Regroup(ops \o <<keep>>, x, more) /\ Regroup(ops, <<keep>>, x \o more)
      BY <2>10, <2>11, <2>12, <3>1, <3>2, Regrouped
    <3>4. ((ops \o <<keep>>) \o x) \o more = ops \o (<<keep>> \o (x \o more))
      BY <3>3, Zenon DEF Regroup
    <3>5. x \o more = <<>> => Len(x) = 0 /\ Len(more) = 0
      BY <2>11, <3>1, <3>2
    <3>6. (Len(x) = 0 => x = <<>>) /\ (Len(more) = 0 => more = <<>>)
      BY <2>11, <3>1
    <3> QED BY <3>4, <3>5, <3>6, Zenon
  <2>16. Reach(C, bank \o part.bank, ops \o part.ops, FN[k + 1], FO[next], HO[next])
    BY <2>4, <2>13, <2>15, Zenon
  <2>17. ASSUME part.held
         PROVE  part.bank = <<>> /\ FN[k + 1] \o HO[next] = FN[k] \o HO[J]
    <3>1. x = <<>> /\ more = <<>>
      BY <2>4, <2>15, <2>17
    <3>2. next = J + 1 /\ y = <<>>
      BY <2>8, <2>13, <3>1
    <3> QED BY <1>3, <2>4, <2>5, <2>8, <3>1, <3>2, Zenon DEF left
  <2> QED BY <2>14, <2>16, <2>17, Zenon DEF part, WordDone
<1> QED BY <1>5, <1>6

----------------------------------------------------------------------------
(* All the words: what MakeChangeset joins.                               *)
\* The operations lead to new word m and the old words that are pending there.
LedTo(C, q, b, FO, HO, FN, m, bank, ops) ==
  \E J : Pending(q, b, m, J) /\ Reach(C, bank, ops, FN[m], FO[J], HO[J])

\* The deletions in front of the first word.
LEMMA LeadingReach ==
  ASSUME NEW C, SP \in C, NEW q, NEW a, NEW b, NEW oSpace, NEW old, NEW FO, NEW HO, NEW new, NEW FN, NEW HN,
         Splitting(C, q, a, b, oSpace, old, FO, HO, new, FN, HN),
         NEW leading, leading = IF q.n[0].row # 0 THEN Deletions(q.o, 0, oSpace) ELSE <<>>
  PROVE  leading \in Ops /\ LedTo(C, q, b, FO, HO, FN, 0, <<>>, leading)
<1>1. /\ Aligned(q, a, b) /\ q \in Diffs(C, a, b) /\ a \in Nat /\ b \in Nat /\ a # 0
      /\ Splits(C, b, Tokens(q.o, b, oSpace), FO, HO, old)
      /\ Splits(C, a, Tokens(q.n, a, a - 1), FN, HN, new)
  BY Zenon DEF Splitting, Aligned
<1>2. q.o \in DiffRows(C, b, Int) /\ 0 \in 0 .. b /\ 0 \in 0 .. a - 1
  BY <1>1 DEF Diffs
<1>3. FN[0] = <<>> /\ FO[0] = <<>> /\ HO[0] \in Seq(C)
  BY <1>1, <1>2, Zenon DEF Splits
<1>4. Reach(C, <<>>, <<>>, FN[0], FO[0], HO[0])
  BY <1>3, ReachNone
<1>5. CASE q.n[0].row # 0
  <2>1. <<>> \in Ops
    BY DEF Ops
  <2>2. Deleted(C, b, q.o, 0, oSpace, FO, HO, <<>>, <<>>, FN[0])
    BY <1>1, <1>2, <1>4, <2>1, DeletionsReach, Zenon
  <2>3. PICK J : /\ StopsAt(q.o, b, 0, J) /\ leading \in Ops
                 /\ Reach(C, <<>>, <<>> \o leading, FN[0], FO[J], HO[J])
    BY <1>5, <2>2, Zenon DEF Deleted
  <2>4. <<>> \o leading = leading
    BY <2>3 DEF Ops
  <2>5. Pending(q, b, 0, J)
    BY <1>1, <2>3, PendingStart
  <2> QED BY <2>3, <2>4, <2>5, Zenon DEF LedTo
<1>6. CASE q.n[0].row = 0
  <2>1. 0 \in Paired(q.n)
    BY <1>1, <1>2, <1>6 DEF Paired, Aligned
  <2>2. 0 \in Paired(q.o)
    BY <1>1, <1>6, <2>1, Zenon DEF Aligned
  <2>3. StopsAt(q.o, b, 0, 0)
    <3>1. q.o[0].row # -1 /\ 0 \in 0 .. b /\ 0 .. 0 - 1 = {}
      BY <1>2, <2>2 DEF Paired
    <3> QED BY <3>1 DEF StopsAt
  <2>4. Pending(q, b, 0, 0)
    BY <1>1, <2>3, PendingStart
  <2>5. leading = <<>> /\ <<>> \in Ops
    BY <1>6 DEF Ops
  <2> QED BY <1>4, <2>4, <2>5, Zenon DEF LedTo
<1> QED BY <1>5, <1>6

\* The parts of all the words of the new text.
PartsOf(parts, C, q, a, oSpace) ==
  /\ parts \in Seq(WordParts(C)) /\ Len(parts) = a
  /\ \A k \in 0 .. a - 1 : parts[k + 1] = WordPart(q, k, oSpace, a - 1)

\* The operations and the banks of the first 0, 1, ... parts joined.
OpsJoined(G, parts, w) ==
  G \in [0 .. w -> Seq(OpSet)] /\ G[0] = <<>> /\ \A k \in 0 .. w - 1 : G[k + 1] = G[k] \o parts[k + 1].ops

BankJoined(B, C, parts, a) ==
  B \in [0 .. a -> Seq(C)] /\ B[0] = <<>> /\ \A k \in 0 .. a - 1 : B[k + 1] = B[k] \o parts[k + 1].bank

\* The first parts lead to the word behind them.
LEMMA FirstParts ==
  ASSUME NEW C, SP \in C, NEW q, NEW a, NEW b, NEW oSpace, NEW old, NEW FO, NEW HO, NEW new, NEW FN, NEW HN,
         Splitting(C, q, a, b, oSpace, old, FO, HO, new, FN, HN),
         NEW parts, PartsOf(parts, C, q, a, oSpace), NEW w \in 0 .. a, NEW leading \in Ops,
         LedTo(C, q, b, FO, HO, FN, 0, <<>>, leading),
         NEW G, OpsJoined(G, parts, w), NEW B, BankJoined(B, C, parts, a)
  PROVE  LedTo(C, q, b, FO, HO, FN, w, B[w], leading \o G[w])
<1> DEFINE At(m) == LedTo(C, q, b, FO, HO, FN, m, B[m], leading \o G[m])
           T == {m \in 0 .. w : At(m)}
<1>1. a \in Nat /\ w \in Nat /\ w <= a
  BY DEF Splitting, Aligned
<1>2. /\ G \in [0 .. w -> Seq(OpSet)] /\ G[0] = <<>> /\ \A k \in 0 .. w - 1 : G[k + 1] = G[k] \o parts[k + 1].ops
      /\ B \in [0 .. a -> Seq(C)] /\ B[0] = <<>> /\ \A k \in 0 .. a - 1 : B[k + 1] = B[k] \o parts[k + 1].bank
  BY Zenon DEF OpsJoined, BankJoined
<1>3. At(0)
  <2>1. leading \o <<>> = leading
    BY NothingBehind DEF Ops
  <2> QED BY <1>2, <2>1, Zenon
<1>4. ASSUME NEW m \in 0 .. w - 1, At(m)
      PROVE  At(m + 1)
  <2> DEFINE part == parts[m + 1]
             g == G[m]
  <2>1. m \in 0 .. a - 1 /\ m + 1 \in 1 .. a /\ m \in 0 .. w /\ m \in 0 .. a
    BY <1>1
  <2>2. PICK J : Pending(q, b, m, J) /\ Reach(C, B[m], leading \o G[m], FN[m], FO[J], HO[J])
    BY <1>4, Zenon DEF LedTo
  <2>3. part = WordPart(q, m, oSpace, a - 1)
    BY <2>1, Zenon DEF PartsOf
  <2>4. part \in WordParts(C)
    BY <2>1 DEF PartsOf
  <2>5. WordDone(C, q, b, FO, HO, FN, m, J, B[m], leading \o G[m], part)
    BY <2>1, <2>2, <2>3, WordStep, Zenon
  <2>6. G[m + 1] = G[m] \o part.ops /\ B[m + 1] = B[m] \o part.bank
    BY <1>2, <2>1, Zenon
  <2>7. g \in Seq(OpSet)
    BY <1>2, <2>1, Zenon
  <2> HIDE DEF part, g
  <2>8. part.ops \in Seq(OpSet) /\ leading \in Seq(OpSet)
    BY <2>4 DEF WordParts, Ops
  <2>9. Regroup(leading, g, part.ops)
    BY <2>7, <2>8, Regrouped
  <2>10. (leading \o G[m]) \o part.ops = leading \o G[m + 1]
    BY <2>6, <2>9, Zenon DEF Regroup, g
  <2> QED BY <2>5, <2>6, <2>10, Zenon DEF WordDone, LedTo
<1>5. w \in T
  <2> HIDE DEF At
  <2>1. 0 \in T /\ \A m \in 0 .. w - 1 : m \in T => m + 1 \in T
    <3>1. 0 \in 0 .. w /\ \A m \in 0 .. w - 1 : m + 1 \in 0 .. w
      BY <1>1
    <3> QED BY <1>3, <1>4, <3>1
  <2> HIDE DEF T
  <2>2. 0 .. w \subseteq T
    BY <1>1, <2>1, UpTo
  <2> QED BY <1>1, <2>2
<1> QED BY <1>5

\* No bank is added from part w on, and nothing else of either text is made there.
Ended(B, a, w, FN, HO, J, new) == B[a] = B[w] /\ FN[w] \o HO[J] = new

\* The parts held back at the end would not change what has been made and what is to come.
LEMMA HeldParts ==
  ASSUME NEW C, SP \in C, NEW q, NEW a, NEW b, NEW oSpace, NEW old, NEW FO, NEW HO, NEW new, NEW FN, NEW HN,
         Splitting(C, q, a, b, oSpace, old, FO, HO, new, FN, HN),
         NEW parts, PartsOf(parts, C, q, a, oSpace), NEW w \in 0 .. a, Holding(parts, w),
         NEW B, BankJoined(B, C, parts, a),
         NEW J, Pending(q, b, w, J), NEW bank, NEW ops, Reach(C, bank, ops, FN[w], FO[J], HO[J])
  PROVE  Ended(B, a, w, FN, HO, J, new)
<1> DEFINE all == FN[w] \o HO[J]
           Is(m, j) == /\ Pending(q, b, m, j) /\ FN[m] \o HO[j] = all
                       /\ \E x, y : Reach(C, x, y, FN[m], FO[j], HO[j])
           At(m) == B[m] = B[w] /\ \E j : Is(m, j)
           T == {i \in 0 .. a - w : At(w + i)}
<1>1. a \in Nat /\ w \in Nat /\ w <= a /\ a - w \in Nat
  BY DEF Splitting, Aligned
<1>2. B \in [0 .. a -> Seq(C)] /\ \A k \in 0 .. a - 1 : B[k + 1] = B[k] \o parts[k + 1].bank
  BY Zenon DEF BankJoined
<1>3. At(w)
  BY Zenon
<1>4. ASSUME NEW m \in w .. a - 1, At(m)
      PROVE  At(m + 1)
  <2> DEFINE part == parts[m + 1]
             x == B[m]
  <2>1. m \in 0 .. a - 1 /\ m + 1 \in 1 .. a /\ m + 1 > w /\ m \in 0 .. a
    BY <1>1
  <2>2. PICK j : Is(m, j)
    BY <1>4
  <2>3. part = WordPart(q, m, oSpace, a - 1)
    BY <2>1, Zenon DEF PartsOf
  <2>4. part.held
    BY <2>1 DEF PartsOf, Holding
  <2>5. PICK s, t : Reach(C, s, t, FN[m], FO[j], HO[j])
    BY <2>2
  <2>6. Pending(q, b, m, j) /\ FN[m] \o HO[j] = all
    BY <2>2
  <2>7. WordDone(C, q, b, FO, HO, FN, m, j, s, t, part)
    BY <2>1, <2>3, <2>5, <2>6, WordStep, Zenon
  <2>8. B[m + 1] = B[m] \o part.bank
    BY <1>2, <2>1, Zenon
  <2>9. x \in Seq(C)
    BY <1>2, <2>1, Zenon
  <2> HIDE DEF part, x, all
  <2>10. x \o <<>> = x
    BY <2>9
  <2>11. PICK next : /\ Pending(q, b, m + 1, next)
                     /\ Reach(C, s \o part.bank, t \o part.ops, FN[m + 1], FO[next], HO[next])
                     /\ part.bank = <<>> /\ FN[m + 1] \o HO[next] = FN[m] \o HO[j]
    BY <2>4, <2>7, Zenon DEF WordDone
  <2>12. B[m + 1] = B[m]
    BY <2>8, <2>10, <2>11, Zenon DEF x
  <2>13. B[m + 1] = B[w]
    BY <1>4, <2>12
  <2>14. Is(m + 1, next)
    BY <2>6, <2>11, Zenon
  <2> QED BY <2>13, <2>14
<1>5. At(a)
  <2> HIDE DEF At
  <2>1. 0 \in T
    <3>1. 0 \in 0 .. a - w /\ w + 0 = w
      BY <1>1
    <3> QED BY <1>3, <3>1
  <2>2. ASSUME NEW i \in 0 .. (a - w) - 1, i \in T
        PROVE  i + 1 \in T
    <3>1. w + i \in w .. a - 1 /\ (w + i) + 1 = w + (i + 1) /\ i + 1 \in 0 .. a - w
      BY <1>1
    <3>2. At(w + i)
      BY <2>2
    <3>3. At((w + i) + 1)
      BY <1>4, <3>1, <3>2
    <3> QED BY <3>1, <3>3
  <2> HIDE DEF T
  <2>3. 0 .. a - w \subseteq T
    BY <1>1, <2>1, <2>2, UpTo
  <2>4. a - w \in T /\ w + (a - w) = a
    BY <1>1, <2>3
  <2> QED BY <2>4 DEF T
<1>6. PICK j : Is(a, j)
  BY <1>5
<1>7. Aligned(q, a, b) /\ Splits(C, b, Tokens(q.o, b, oSpace), FO, HO, old) /\ Splits(C, a, Tokens(q.n, a, a - 1), FN, HN, new)
  BY Zenon DEF Splitting
<1>8. j = b
  BY <1>6, <1>7, PendingEnd, Zenon
<1>9. a \in 0 .. a
  BY <1>1
<1>10. HO[b] = <<>> /\ HN[a] = <<>> /\ FN[a] \o HN[a] = new
  BY <1>7, <1>9, Zenon DEF Splits
<1> QED BY <1>5, <1>6, <1>8, <1>10, Zenon DEF Ended

\* The operations make the new text of the old one, except for an end both share.
Makes(C, bank, ops, old, new) ==
  \E done, used, left : Reach(C, bank, ops, done, used, left) /\ used \o left = old /\ done \o left = new

\* The banks of all the parts, and the operations of the first w of them.
BankOf(parts) == FlattenSeq([k \in DOMAIN parts |-> parts[k].bank])

OpsOf(parts, w) == FlattenSeq([k \in 1 .. w |-> parts[k].ops])

\* The parts joined, without those held back at the end.
LEMMA JoinedReach ==
  ASSUME NEW C, SP \in C, NEW q, NEW a, NEW b, NEW oSpace, NEW old, NEW FO, NEW HO, NEW new, NEW FN, NEW HN,
         Splitting(C, q, a, b, oSpace, old, FO, HO, new, FN, HN),
         NEW parts, PartsOf(parts, C, q, a, oSpace), NEW w \in 0 .. a, Holding(parts, w), NEW leading \in Ops,
         LedTo(C, q, b, FO, HO, FN, 0, <<>>, leading)
  PROVE  Makes(C, BankOf(parts), leading \o OpsOf(parts, w), old, new)
<1> DEFINE lists == [k \in 1 .. w |-> parts[k].ops]
           banks == [k \in 1 .. a |-> parts[k].bank]
<1>1. a \in Nat /\ w \in Nat /\ w <= a /\ w \in 0 .. w /\ a \in 0 .. a
  BY DEF Splitting, Aligned
<1>2. parts \in Seq(WordParts(C)) /\ Len(parts) = a /\ DOMAIN parts = 1 .. a
  BY DEF PartsOf
<1>3. ASSUME NEW k \in 1 .. a
      PROVE  parts[k].ops \in Seq(OpSet) /\ parts[k].bank \in Seq(C)
  <2>1. parts[k] \in WordParts(C)
    BY <1>2
  <2> QED BY <2>1 DEF WordParts, Ops
<1>4. \A k \in 1 .. w : k \in 1 .. a
  BY <1>1
<1> DEFINE OpLists == Seq(OpSet)
           Texts == Seq(C)
<1>5. lists \in Seq(OpLists) /\ Len(lists) = w /\ \A k \in 1 .. w : lists[k] = parts[k].ops
  <2>1. \A k \in 1 .. w : parts[k].ops \in OpLists
    BY <1>3, <1>4
  <2> HIDE DEF OpLists
  <2> QED BY <1>1, <2>1
<1>6. banks \in Seq(Texts) /\ Len(banks) = a /\ \A k \in 1 .. a : banks[k] = parts[k].bank
  <2>1. \A k \in 1 .. a : parts[k].bank \in Texts
    BY <1>3
  <2> HIDE DEF Texts
  <2> QED BY <1>1, <2>1
<1>7. banks = [k \in DOMAIN parts |-> parts[k].bank]
  BY <1>2
<1> HIDE DEF lists, banks
<1>8. PICK G \in [0 .. w -> Seq(OpSet)] :
        G[0] = <<>> /\ (\A i \in 1 .. w : G[i] = G[i - 1] \o lists[i]) /\ FlattenSeq(lists) = G[w]
  BY <1>5, Flattened
<1>9. PICK B \in [0 .. a -> Seq(C)] :
        B[0] = <<>> /\ (\A i \in 1 .. a : B[i] = B[i - 1] \o banks[i]) /\ FlattenSeq(banks) = B[a]
  BY <1>6, Flattened
<1>10. \A k \in 0 .. w - 1 : G[k + 1] = G[k] \o parts[k + 1].ops
  <2> TAKE k \in 0 .. w - 1
  <2>1. k + 1 \in 1 .. w /\ (k + 1) - 1 = k
    BY <1>1
  <2> QED BY <1>5, <1>8, <2>1
<1>11. \A k \in 0 .. a - 1 : B[k + 1] = B[k] \o parts[k + 1].bank
  <2> TAKE k \in 0 .. a - 1
  <2>1. k + 1 \in 1 .. a /\ (k + 1) - 1 = k
    BY <1>1
  <2> QED BY <1>6, <1>9, <2>1
<1>12. OpsJoined(G, parts, w) /\ BankJoined(B, C, parts, a)
  BY <1>8, <1>9, <1>10, <1>11, Zenon DEF OpsJoined, BankJoined
<1>13. LedTo(C, q, b, FO, HO, FN, w, B[w], leading \o G[w])
  BY <1>12, FirstParts, Zenon
<1>14. PICK J : Pending(q, b, w, J) /\ Reach(C, B[w], leading \o G[w], FN[w], FO[J], HO[J])
  BY <1>13, Zenon DEF LedTo
<1>15. B[a] = B[w] /\ FN[w] \o HO[J] = new
  <2> DEFINE made == leading \o G[w]
             bank == B[w]
  <2>1. Reach(C, bank, made, FN[w], FO[J], HO[J])
    BY <1>14
  <2>2. Pending(q, b, w, J)
    BY <1>14
  <2>3. BankJoined(B, C, parts, a)
    BY <1>12
  <2> HIDE DEF made, bank
  <2>4. Ended(B, a, w, FN, HO, J, new)
    BY <2>1, <2>2, <2>3, HeldParts, Zenon
  <2> QED BY <2>4, Zenon DEF Ended
<1>16. FO[J] \o HO[J] = old
  <2>1. J \in 0 .. b
    BY <1>14 DEF Pending
  <2> QED BY <2>1, Zenon DEF Splitting, Splits
<1>17. Reach(C, FlattenSeq(banks), leading \o FlattenSeq(lists), FN[w], FO[J], HO[J])
  BY <1>8, <1>9, <1>14, <1>15, Zenon
<1>18. Makes(C, FlattenSeq(banks), leading \o FlattenSeq(lists), old, new)
  BY <1>15, <1>16, <1>17, Zenon DEF Makes
<1> QED BY <1>7, <1>18, Zenon DEF lists, BankOf, OpsOf

\* The words of two texts that are in order line up.
LEMMA MatchedAligned ==
  ASSUME NEW C, NEW old \in Seq(Seq(C)), NEW new \in Seq(Seq(C)), NEW q \in Matched(C, old, new), InOrder(q.n)
  PROVE  Aligned(q, Len(new), Len(old))
<1>1. q \in Diffs(C, Len(new), Len(old)) /\ \A i \in Paired(q.n) : q.n[i].row \in Paired(q.o)
  BY Zenon DEF Matched
<1>2. DOMAIN q.n = 0 .. Len(new) - 1 /\ DOMAIN q.o = 0 .. Len(old) - 1
  BY <1>1 DEF Diffs, DiffRows
<1>3. \A j \in Paired(q.o) : \E i \in Paired(q.n) : q.n[i].row = j
  <2>1. Onto(q)
    BY InOrderOnto, Zenon
  <2> QED BY <2>1, Zenon DEF Onto
<1>4. Len(new) \in Nat /\ Len(old) \in Nat
  OBVIOUS
<1> QED BY <1>1, <1>2, <1>3, <1>4, Zenon DEF Aligned

\* The diff of two texts splits them, if no word moved.
LEMMA SplittingFound ==
  ASSUME NEW C, SP \in C, NEW old \in Seq(C), NEW new \in Seq(C), new # <<>>,
         NEW q, q = Diff(Words(old), Words(new)), InOrder(q.n)
  PROVE  /\ \E FO, HO, FN, HN :
              Splitting(C, q, Len(Words(new)), Len(Words(old)), Count(old, SP), old, FO, HO, new, FN, HN)
         /\ Count(new, SP) = Len(Words(new)) - 1
<1> DEFINE ws == Words(new)
           us == Words(old)
           a == Len(ws)
           b == Len(us)
           oSpace == Count(old, SP)
<1>1. ws \in WordLists(C) /\ ws \in Seq(Seq(C)) /\ us \in Seq(Seq(C))
  BY WordsType DEF WordLists
<1>2. a \in Nat /\ b \in Nat /\ a # 0
  BY <1>1 DEF WordLists
<1>3. Count(new, SP) = a - 1
  <2>1. a = Count(new, SP) + 1 /\ Count(new, SP) \in Nat
    BY WordsJoined, CountFacts
  <2> HIDE DEF a
  <2> QED BY <2>1
<1>4. b # 0 => oSpace = b - 1
  <2>1. CASE old = <<>>
    <3>1. us = <<>>
      BY <2>1 DEF Words
    <3> QED BY <3>1
  <2>2. CASE old # <<>>
    <3>1. b = oSpace + 1 /\ oSpace \in Nat
      BY <2>2, WordsJoined, CountFacts
    <3> HIDE DEF b, oSpace
    <3> QED BY <3>1
  <2> QED BY <2>1, <2>2
<1>5. q \in Matched(C, us, ws)
  BY <1>1, DiffMatched
<1> HIDE DEF ws, us
<1>6. /\ q \in Diffs(C, a, b)
      /\ \A i \in DOMAIN q.n : q.n[i].text = ws[i + 1]
      /\ \A j \in DOMAIN q.o : q.o[j].text = us[j + 1]
      /\ \A i \in Paired(q.n) : q.n[i].row \in Paired(q.o) /\ q.o[q.n[i].row].text = q.n[i].text
  BY <1>5 DEF Matched
<1>7. q.n \in DiffRows(C, a, RowsTo(b)) /\ q.o \in DiffRows(C, b, Int)
  BY <1>6 DEF Diffs
<1>8. DOMAIN q.n = 0 .. a - 1 /\ DOMAIN q.o = 0 .. b - 1
  BY <1>7 DEF DiffRows
<1>9. Aligned(q, a, b)
  BY <1>1, <1>5, MatchedAligned, Zenon DEF ws, us
<1>10. PICK FO, HO : Splits(C, b, Tokens(q.o, b, oSpace), FO, HO, old)
  <2>1. \A k \in 0 .. b - 1 : q.o[k].text = us[k + 1]
    BY <1>6, <1>8
  <2> QED BY <1>7, <2>1, TokensSplit, Zenon DEF us
<1>11. PICK FN, HN : Splits(C, a, Tokens(q.n, a, Count(new, SP)), FN, HN, new)
  <2>1. \A k \in 0 .. a - 1 : q.n[k].text = ws[k + 1]
    BY <1>6, <1>8
  <2> QED BY <1>7, <2>1, TokensSplit, Zenon DEF ws
<1>12. Splits(C, a, Tokens(q.n, a, a - 1), FN, HN, new)
  BY <1>3, <1>11
<1>13. Splitting(C, q, a, b, oSpace, old, FO, HO, new, FN, HN)
  BY <1>2, <1>4, <1>6, <1>9, <1>10, <1>12, Zenon DEF Splitting
<1> QED BY <1>3, <1>13, Zenon DEF ws, us

\* So the raw changeset makes the new text of the old one.
LEMMA RawReach ==
  ASSUME NEW C, SP \in C, NEW old \in Seq(C), NEW new \in Seq(C), new # <<>>,
         InOrder(Diff(Words(old), Words(new)).n)
  PROVE  Makes(C, RawChangeset(old, new).bank, RawChangeset(old, new).ops, old, new)
<1> DEFINE d == Diff(Words(old), Words(new))
           oSpace == Count(old, SP)
           nSpace == Count(new, SP)
           m == Cardinality(DOMAIN d.n)
           parts == [k \in 1 .. m |-> WordPart(d, k - 1, oSpace, nSpace)]
           leading == IF d.n[0].row # 0 THEN Deletions(d.o, 0, oSpace) ELSE <<>>
           written == {k \in DOMAIN parts : \E j \in k .. Len(parts) : ~ parts[j].held}
           w == Cardinality(written)
           ops == [k \in 1 .. w |-> parts[k].ops]
           banks == [k \in DOMAIN parts |-> parts[k].bank]
           a == Len(Words(new))
           b == Len(Words(old))
           raw == RawChangeset(old, new)
<1>1. raw = MakeChangeset(Len(old), Len(new), leading \o FlattenSeq(ops), FlattenSeq(banks))
  BY Zenon DEF RawChangeset
<1>2. PICK FO, HO, FN, HN : Splitting(C, d, a, b, oSpace, old, FO, HO, new, FN, HN)
  BY SplittingFound
<1>3. nSpace = a - 1
  BY SplittingFound
<1> HIDE DEF d, a, b, oSpace, nSpace
<1>4. Aligned(d, a, b) /\ d \in Diffs(C, a, b) /\ a \in Nat /\ b \in Nat /\ DOMAIN d.n = 0 .. a - 1
  BY <1>2, Zenon DEF Splitting, Aligned
<1>5. m = a
  <2>1. Cardinality(0 .. a - 1) = a
    BY <1>4, FS_Interval
  <2> QED BY <1>4, <2>1
<1> HIDE DEF m
<1>6. parts \in Seq(WordParts(C)) /\ Len(parts) = a /\ \A k \in 0 .. a - 1 : parts[k + 1] = WordPart(d, k, oSpace, a - 1)
  <2>1. ASSUME NEW k \in 1 .. m
        PROVE  WordPart(d, k - 1, oSpace, nSpace) \in WordParts(C)
    <3>1. k - 1 \in 0 .. a - 1
      BY <1>4, <1>5
    <3> QED BY <1>4, <3>1, WordPartType
  <2>2. parts \in Seq(WordParts(C)) /\ Len(parts) = a
    BY <1>4, <1>5, <2>1
  <2>3. ASSUME NEW k \in 0 .. a - 1
        PROVE  parts[k + 1] = WordPart(d, k, oSpace, a - 1)
    <3>1. k + 1 \in 1 .. m /\ (k + 1) - 1 = k
      BY <1>4, <1>5
    <3> QED BY <1>3, <3>1
  <2> QED BY <2>2, <2>3
<1> HIDE DEF parts
<1>7. PartsOf(parts, C, d, a, oSpace)
  BY <1>6 DEF PartsOf
<1>8. w \in 0 .. a /\ Holding(parts, w)
  BY <1>6, WrittenFirst
<1> HIDE DEF w
<1>9. leading \in Ops /\ LedTo(C, d, b, FO, HO, FN, 0, <<>>, leading)
  BY <1>2, LeadingReach, Zenon
<1> HIDE DEF leading
<1>10. Makes(C, BankOf(parts), leading \o OpsOf(parts, w), old, new)
  BY <1>2, <1>7, <1>8, <1>9, JoinedReach, Zenon
<1> DEFINE all == leading \o FlattenSeq(ops)
           bank == FlattenSeq(banks)
<1>11. raw.ops = all /\ raw.bank = bank
  <2> HIDE DEF all, bank
  <2> QED BY <1>1 DEF MakeChangeset, all, bank
<1> QED BY <1>10, <1>11, Zenon DEF BankOf, OpsOf

----------------------------------------------------------------------------
(* The raw changeset yields the new text, and counts its line breaks.     *)
\* What operations that make a text are to applyChangeset.
Leaves(bank, old, ops, new) == After(bank, old, ops).text = new

\* What makes the new text is what applyChangeset leaves.
LEMMA MakesText ==
  ASSUME NEW C, NEW bank, NEW ops, NEW old, NEW new, Makes(C, bank, ops, old, new)
  PROVE  Leaves(bank, old, ops, new)
<1>1. PICK done, used, left : Reach(C, bank, ops, done, used, left) /\ used \o left = old /\ done \o left = new
  BY Zenon DEF Makes
<1>2. used \in Seq(C) /\ left \in Seq(C) /\ Leads(C, bank, ops, used \o left, done, Len(used))
  BY <1>1, Zenon DEF Reach
<1>3. Mid(used \o left, Len(used)) = left
  BY <1>2, MidBehind, Zenon
<1>4. bank \in Seq(C) /\ <<>> \in Seq(C)
  BY <1>2, EmptySeq DEF Leads
<1>5. bank \o <<>> = bank
  BY <1>4, NothingBehind, Zenon
<1>6. After(bank \o <<>>, old, ops) = [text |-> done \o left, pos |-> Len(done), bankPos |-> Len(bank)]
  BY <1>1, <1>2, <1>3, <1>4, Zenon DEF Leads
<1>7. After(bank, old, ops) = [text |-> new, pos |-> Len(done), bankPos |-> Len(bank)]
  BY <1>1, <1>5, <1>6, Zenon
<1> QED BY <1>7 DEF Leaves

\* They write the line breaks they cover.
AllCounted(bank, old, ops) ==
  \A i \in 1 .. Len(ops) : Lines(ops[i]) = Count(Part(old, bank, ops, i), NL)

\* Every operation of what makes the new text counts the line breaks of its part.
LEMMA MakesCounted ==
  ASSUME NEW C, NEW bank, NEW ops, NEW old, NEW new, Makes(C, bank, ops, old, new)
  PROVE  AllCounted(bank, old, ops)
<1>1. PICK done, used, left : Reach(C, bank, ops, done, used, left) /\ used \o left = old /\ done \o left = new
  BY Zenon DEF Makes
<1>2. Leads(C, bank, ops, old, done, Len(used)) /\ Counted(C, old, bank, ops)
  BY <1>1, Zenon DEF Reach
<1>3. bank \in Seq(C) /\ <<>> \in Seq(C)
  BY <1>2, EmptySeq DEF Leads
<1>4. bank \o <<>> = bank
  BY <1>3, NothingBehind, Zenon
<1>5. \A i \in 1 .. Len(ops) : Lines(ops[i]) = Count(Part(old, bank \o <<>>, ops, i), NL)
  BY <1>2, <1>3, Zenon DEF Counted
<1> QED BY <1>4, <1>5, Zenon DEF AllCounted

\* The operations lead from the one length to the other inside the old text.
Fits(ops, oldLength, newLength) ==
  /\ Sum(ops, InsertChars) + oldLength = Sum(ops, SkipOverChars) + newLength
  /\ Sum(ops, KeepChars) + Sum(ops, SkipOverChars) <= oldLength

\* What makes the new text fits the lengths of both.
LEMMA MakesFits ==
  ASSUME NEW C, NEW bank, NEW ops, NEW old, NEW new, Makes(C, bank, ops, old, new)
  PROVE  Fits(ops, Len(old), Len(new))
<1>1. PICK done, used, left : Reach(C, bank, ops, done, used, left) /\ used \o left = old /\ done \o left = new
  BY Zenon DEF Makes
<1>2. /\ used \in Seq(C) /\ left \in Seq(C) /\ Leads(C, bank, ops, used \o left, done, Len(used))
      /\ Amounts(ops, Len(bank), Len(used), Len(done))
  BY <1>1, Zenon DEF Reach
<1>3. done \in Seq(C) /\ ops \in Ops
  BY <1>2, Zenon DEF Leads
<1>4. Len(old) = Len(used) + Len(left) /\ Len(new) = Len(done) + Len(left)
  BY <1>1, <1>2, <1>3, ConcatLength, Zenon
<1>5. Len(used) \in Nat /\ Len(left) \in Nat /\ Len(done) \in Nat
  BY <1>2, <1>3
<1>6. Sum(ops, InsertChars) \in Nat /\ Sum(ops, KeepChars) \in Nat /\ Sum(ops, SkipOverChars) \in Nat
  BY <1>3, SumType
<1>7. /\ Sum(ops, KeepChars) + Sum(ops, SkipOverChars) = Len(used)
      /\ Sum(ops, KeepChars) + Sum(ops, InsertChars) = Len(done)
  BY <1>2, Zenon DEF Amounts
<1> QED BY <1>4, <1>5, <1>6, <1>7 DEF Fits

\* The one '-' for a text that was emptied.
LEMMA EmptiedText ==
  ASSUME NEW C, SP \in C, NEW old \in Seq(C), NEW op, op = Op(SkipOverChars, Len(old), -1, -1)
  PROVE  After(<<>>, old, <<op>>).text = <<>> /\ Fits(<<op>>, Len(old), 0)
<1>1. Len(old) \in Nat
  OBVIOUS
<1>2. op \in OpSet /\ op.kind = SkipOverChars /\ op.opLength = Len(old)
  BY <1>1 DEF Op, OpSet
<1>3. Leads(C, <<>>, <<>>, old, <<>>, 0)
  BY LeadsNone
<1>4. Leads(C, <<>>, <<>> \o <<op>>, old, <<>>, 0 + op.opLength)
  <2>1. 0 \in Nat /\ 0 + op.opLength <= Len(old)
    BY <1>1, <1>2
  <2> QED BY <1>2, <1>3, <2>1, LeadsSkip, Zenon
<1>5. <<>> \o <<op>> = <<op>> /\ 0 + op.opLength = Len(old) /\ <<>> \in Seq(C) /\ <<>> \o <<>> = <<>>
  BY <1>1, <1>2
<1>6. Mid(old, Len(old)) = <<>>
  BY LeftAll, Zenon
<1>7. After(<<>> \o <<>>, old, <<>> \o <<op>>) =
        [text |-> <<>> \o Mid(old, 0 + op.opLength), pos |-> Len(<<>>), bankPos |-> Len(<<>>)]
  BY <1>4, <1>5, Zenon DEF Leads
<1>8. After(<<>>, old, <<op>>) = [text |-> <<>>, pos |-> Len(<<>>), bankPos |-> Len(<<>>)]
  BY <1>5, <1>6, <1>7, Zenon
<1>9. Sum(<<op>>, InsertChars) = 0 /\ Sum(<<op>>, KeepChars) = 0 /\ Sum(<<op>>, SkipOverChars) = Len(old)
  BY <1>2, SumOne DEF Amount, InsertChars, KeepChars, SkipOverChars
<1>10. Fits(<<op>>, Len(old), 0)
  BY <1>1, <1>9 DEF Fits
<1> QED BY <1>8, <1>10

\* The changeset made for the two texts.
CreatedAs(C, c, old, new) ==
  /\ After(c.bank, old, c.ops).text = new
  /\ c.oldLength = Len(old) /\ c.newLength = Len(new) /\ Fits(c.ops, Len(old), Len(new))
  /\ new # <<>> => Makes(C, c.bank, c.ops, old, new)

\* Whatever the two texts are, if no word moved.
LEMMA CreatedMakes ==
  ASSUME NEW C, SP \in C, NEW old \in Seq(C), NEW new \in Seq(C), InOrder(Diff(Words(old), Words(new)).n),
         NEW c, c = JSCreateChangeset(old, new)
  PROVE  CreatedAs(C, c, old, new)
<1>1. CASE new # <<>>
  <2>1. c = RawChangeset(old, new)
    BY <1>1 DEF JSCreateChangeset
  <2>2. Makes(C, c.bank, c.ops, old, new)
    BY <1>1, <2>1, RawReach
  <2>3. c.oldLength = Len(old) /\ c.newLength = Len(new)
    BY <2>1 DEF RawChangeset, MakeChangeset
  <2>4. After(c.bank, old, c.ops).text = new
    <3>1. Leaves(c.bank, old, c.ops, new)
      BY <2>2, MakesText, Zenon
    <3> QED BY <3>1, Zenon DEF Leaves
  <2>5. Fits(c.ops, Len(old), Len(new))
    BY <2>2, MakesFits, Zenon
  <2> QED BY <2>2, <2>3, <2>4, <2>5, Zenon DEF CreatedAs
<1>2. CASE new = <<>> /\ old = <<>>
  <2>1. c = MakeChangeset(0, 0, <<>>, <<>>)
    BY <1>2 DEF JSCreateChangeset
  <2>2. c.bank = <<>> /\ c.ops = <<>> /\ c.oldLength = 0 /\ c.newLength = 0
    BY <2>1 DEF MakeChangeset
  <2>3. After(<<>>, old, <<>>) = Begin(old)
    <3>1. <<>> \in Seq(C)
      BY EmptySeq
    <3> QED BY <3>1, AfterNone, Zenon
  <2>4. Fits(<<>>, 0, 0)
    BY SumNone DEF Fits
  <2>5. Len(old) = 0 /\ Len(new) = 0
    BY <1>2
  <2>6. After(c.bank, old, c.ops).text = new
    BY <1>2, <2>2, <2>3 DEF Begin
  <2> QED BY <1>2, <2>2, <2>4, <2>5, <2>6, Zenon DEF CreatedAs
<1>3. CASE new = <<>> /\ old # <<>>
  <2> DEFINE op == Op(SkipOverChars, Len(old), -1, -1)
             one == <<op>>
  <2>1. c = MakeChangeset(Len(old), 0, one, <<>>)
    BY <1>3 DEF JSCreateChangeset
  <2>2. After(<<>>, old, one).text = <<>> /\ Fits(one, Len(old), 0)
    BY EmptiedText
  <2> HIDE DEF one
  <2>3. c.bank = <<>> /\ c.ops = one /\ c.oldLength = Len(old) /\ c.newLength = 0
    BY <2>1 DEF MakeChangeset
  <2>4. Len(new) = 0
    BY <1>3
  <2> QED BY <1>3, <2>2, <2>3, <2>4, Zenon DEF CreatedAs
<1> QED BY <1>1, <1>2, <1>3

\* What Create leaves behind if no word moved.
LEMMA CreateMakes ==
  ASSUME Inv, Create, WordsInOrder
  PROVE  /\ Produced(cs') = newText
         /\ cs'.oldLength = Len(oldText) /\ cs'.newLength = Len(newText)
         /\ Fits(cs'.ops, Len(oldText), Len(newText))
         /\ newText # <<>> => Makes(Letters, cs'.bank, cs'.ops, oldText, newText)
<1>1. SP \in Letters /\ oldText \in Seq(Letters) /\ newText \in Seq(Letters)
  BY TextsAreLetters DEF Inv, Letters
<1>2. InOrder(Diff(Words(oldText), Words(newText)).n)
  BY Zenon DEF WordsInOrder, InOrder, Paired
<1>3. cs' = JSCreateChangeset(oldText, newText)
  BY DEF Create
<1>4. CreatedAs(Letters, cs', oldText, newText)
  BY <1>1, <1>2, <1>3, CreatedMakes, Zenon
<1>5. Produced(cs') = After(cs'.bank, oldText, cs'.ops).text
  BY ProducedIsAfter
<1> QED BY <1>4, <1>5, Zenon DEF CreatedAs

\* JS::createChangeset: applied to the old text the raw changeset yields the new
\* one, although every '=' held back at the end is dropped (243-339), for any
\* texts in which no word moved.
THEOREM RawCorrect == Spec => RawYieldsNewText
<1>1. Inv /\ [Next]_vars => [pc = "create" /\ WordsInOrder => Produced(cs') = newText]_vars
  <2> SUFFICES ASSUME Inv, Next, pc = "create", WordsInOrder
               PROVE  Produced(cs') = newText
    OBVIOUS
  <2>1. Create
    BY DEF Next, FirstCollapse, OptimizePass, SecondCollapse
  <2> QED BY <2>1, CreateMakes
<1> QED BY <1>1, Invariance, PTL DEF Spec, RawYieldsNewText

\* The operations of the raw changeset count the line breaks of the characters
\* they cover, whatever the texts are (243-339, 218).
THEOREM RawCounts == Spec => RawCountsNewlines
<1>1. Inv /\ [Next]_vars => [pc = "create" /\ WordsInOrder /\ newText # <<>> => BreaksWritten(cs')]_vars
  <2> SUFFICES ASSUME Inv, Next, pc = "create", WordsInOrder, newText # <<>>
               PROVE  BreaksWritten(cs')
    OBVIOUS
  <2>1. Create
    BY DEF Next, FirstCollapse, OptimizePass, SecondCollapse
  <2>2. Makes(Letters, cs'.bank, cs'.ops, oldText, newText)
    BY <2>1, CreateMakes
  <2>3. cs'.ops \in Ops
    <3>1. Inv'
      BY <2>1, CreateInv
    <3> QED BY <3>1, ChangesetFacts DEF Inv, Sound
  <2>4. DOMAIN cs'.ops = 1 .. Len(cs'.ops)
    BY <2>3 DEF Ops
  <2>5. AllCounted(cs'.bank, oldText, cs'.ops)
    BY <2>2, MakesCounted, Zenon
  <2>6. ASSUME NEW i \in 1 .. Len(cs'.ops)
        PROVE  (IF cs'.ops[i].newlines > 0 THEN cs'.ops[i].newlines ELSE 0) = Count(Covered(cs', i), NL)
    <3>1. Lines(cs'.ops[i]) = Count(Part(oldText, cs'.bank, cs'.ops, i), NL)
      BY <2>5, Zenon DEF AllCounted
    <3>2. Part(oldText, cs'.bank, cs'.ops, i) = Covered(cs', i)
      BY SMT DEF Part, Covered, Before, Sum
    <3> QED BY <3>1, <3>2 DEF Lines
  <2> QED BY <2>4, <2>6, Zenon DEF BreaksWritten
<1> QED BY <1>1, Invariance, PTL DEF Spec, RawCountsNewlines

----------------------------------------------------------------------------
(* Collapse and optimize keep the lengths in balance.                     *)
\* A changeset leads from its old length to its new one.
Balances(c) == Fits(c.ops, c.oldLength, c.newLength)

\* JS::collapse and JS::optimize do not change that.
LEMMA CollapseBalances ==
  ASSUME NEW C, NEW c \in ChangesetSet(C), Balanced(c), Balances(c)
  PROVE  Balances(Collapse(c))
<1> DEFINE d == Collapse(c)
<1>1. /\ d \in ChangesetSet(C) /\ Saves(c, d) /\ Sum(d.ops, InsertChars) = Sum(c.ops, InsertChars)
      /\ Sum(d.ops, KeepChars) <= Sum(c.ops, KeepChars)
      /\ d.oldLength = c.oldLength /\ d.newLength = c.newLength
  BY CollapseFacts
<1> HIDE DEF d
<1>2. c.ops \in Ops /\ d.ops \in Ops /\ c.oldLength \in Nat /\ c.newLength \in Nat
  BY <1>1, ChangesetFacts
<1>3. PICK p \in Nat, q \in Nat, r \in Nat, x \in Nat, y \in Nat, z \in Nat :
        /\ p = Sum(c.ops, InsertChars) /\ q = Sum(c.ops, SkipOverChars) /\ r = Sum(c.ops, KeepChars)
        /\ x = Sum(d.ops, InsertChars) /\ y = Sum(d.ops, SkipOverChars) /\ z = Sum(d.ops, KeepChars)
  BY <1>2, SumType
<1>4. p + y = q + x /\ x = p /\ z <= r
  BY <1>1, <1>3 DEF Saves
<1>5. p + c.oldLength = q + c.newLength /\ r + q <= c.oldLength
  BY <1>3 DEF Balances, Fits
<1>6. x + c.oldLength = y + c.newLength /\ z + y <= c.oldLength
  BY <1>2, <1>4, <1>5
<1>7. Balances(d)
  BY <1>1, <1>3, <1>6 DEF Balances, Fits
<1> QED BY <1>7 DEF d

\* JS::optimize keeps the two lengths in balance.
LEMMA OptimizeBalances ==
  ASSUME NEW C, NEW c \in ChangesetSet(C), Balanced(c), oldText \in Seq(C), Balances(c)
  PROVE  Balances(Optimize(c, oldText))
<1> DEFINE d == Optimize(c, oldText)
<1>1. /\ d \in ChangesetSet(C) /\ Saves(c, d)
      /\ Sum(d.ops, KeepChars) + Sum(d.ops, InsertChars) = Sum(c.ops, KeepChars) + Sum(c.ops, InsertChars)
      /\ d.oldLength = c.oldLength /\ d.newLength = c.newLength
  BY OptimizeFacts
<1> HIDE DEF d
<1>2. c.ops \in Ops /\ d.ops \in Ops /\ c.oldLength \in Nat /\ c.newLength \in Nat
  BY <1>1, ChangesetFacts
<1>3. PICK p \in Nat, q \in Nat, r \in Nat, x \in Nat, y \in Nat, z \in Nat :
        /\ p = Sum(c.ops, InsertChars) /\ q = Sum(c.ops, SkipOverChars) /\ r = Sum(c.ops, KeepChars)
        /\ x = Sum(d.ops, InsertChars) /\ y = Sum(d.ops, SkipOverChars) /\ z = Sum(d.ops, KeepChars)
  BY <1>2, SumType
<1>4. p + y = q + x /\ z + x = r + p
  BY <1>1, <1>3 DEF Saves
<1>5. p + c.oldLength = q + c.newLength /\ r + q <= c.oldLength
  BY <1>3 DEF Balances, Fits
<1>6. x + c.oldLength = y + c.newLength /\ z + y <= c.oldLength
  <2>1. PICK m \in Nat, n \in Nat : m = c.oldLength /\ n = c.newLength
    BY <1>2
  <2>2. p + m = q + n /\ r + q <= m
    BY <1>5, <2>1
  <2>3. z + y = r + q
    BY <1>4
  <2>4. x + m = y + n
    BY <1>4, <2>2
  <2> QED BY <2>1, <2>2, <2>3, <2>4
<1>7. Balances(d)
  BY <1>1, <1>3, <1>6 DEF Balances, Fits
<1> QED BY <1>7 DEF d

\* What is added to the invariant for texts in which no word moved.
BalanceInv == pc # "create" /\ WordsInOrder => Balances(cs)

\* No step of the creation takes the lengths out of balance.
LEMMA BalanceStep == Inv /\ BalanceInv /\ [Next]_vars => BalanceInv'
<1> SUFFICES ASSUME Inv, BalanceInv, [Next]_vars, pc' # "create", WordsInOrder'
             PROVE  Balances(cs)'
  BY DEF BalanceInv
<1>1. oldText' = oldText /\ newText' = newText
  BY DEF Next, Create, FirstCollapse, OptimizePass, SecondCollapse, vars
<1>2. WordsInOrder
  BY <1>1 DEF WordsInOrder
<1>3. cs \in ChangesetSet(Letters) /\ Balanced(cs) /\ oldText \in Seq(Letters)
  BY TextsAreLetters DEF Inv, Sound
<1>4. CASE Create
  BY <1>2, <1>4, CreateMakes DEF Balances
<1>5. CASE FirstCollapse \/ SecondCollapse
  <2>1. pc # "create" /\ cs' = Collapse(cs)
    BY <1>5 DEF FirstCollapse, SecondCollapse
  <2>2. Balances(cs)
    BY <1>2, <2>1 DEF BalanceInv
  <2> QED BY <1>3, <2>1, <2>2, CollapseBalances
<1>6. CASE OptimizePass
  <2>1. pc # "create" /\ cs' = Optimize(cs, oldText)
    BY <1>6 DEF OptimizePass
  <2>2. Balances(cs)
    BY <1>2, <2>1 DEF BalanceInv
  <2> QED BY <1>3, <2>1, <2>2, OptimizeBalances
<1>7. CASE UNCHANGED vars
  <2>1. pc # "create" /\ cs' = cs
    BY <1>7 DEF vars
  <2>2. Balances(cs)
    BY <1>2, <2>1 DEF BalanceInv
  <2> QED BY <2>1, <2>2
<1> QED BY <1>4, <1>5, <1>6, <1>7 DEF Next

\* If no word moved, the operations lead from oldLength to newLength and stay
\* inside the old text, from JS::createChangeset on and after every pass of
\* collapse and optimize, for any texts.
THEOREM LengthsCorrect == Spec => []LengthsBalance
<1>1. Init => BalanceInv
  BY DEF Init, BalanceInv
<1>2. Inv /\ BalanceInv => LengthsBalance
  <2> SUFFICES ASSUME Inv, Balances(cs)
               PROVE  /\ Total(cs, InsertChars) - Total(cs, SkipOverChars) = cs.newLength - cs.oldLength
                      /\ Total(cs, KeepChars) + Total(cs, SkipOverChars) <= cs.oldLength
    BY DEF BalanceInv, LengthsBalance
  <2>1. cs.ops \in Ops /\ cs.oldLength \in Nat /\ cs.newLength \in Nat
    BY ChangesetFacts DEF Inv, Sound
  <2>2. PICK p \in Nat, q \in Nat, r \in Nat :
          p = Sum(cs.ops, InsertChars) /\ q = Sum(cs.ops, SkipOverChars) /\ r = Sum(cs.ops, KeepChars)
    BY <2>1, SumType
  <2>3. p + cs.oldLength = q + cs.newLength /\ r + q <= cs.oldLength
    BY <2>2 DEF Balances, Fits
  <2>4. Total(cs, InsertChars) = p /\ Total(cs, SkipOverChars) = q /\ Total(cs, KeepChars) = r
    BY <2>2, TotalIsSum
  <2>5. p - q = cs.newLength - cs.oldLength
    BY <2>1, <2>3
  <2> QED BY <2>3, <2>4, <2>5
<1> QED BY <1>1, <1>2, BalanceStep, Invariance, PTL DEF Spec
=============================================================================
