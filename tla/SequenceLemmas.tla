--------------------------- MODULE SequenceLemmas ---------------------------
(***************************************************************************)
(* What the proofs of several modules need of numbers and sequences.       *)
(* Induction is stated over a set in place of a predicate, and a recursion *)
(* over a function in place of an operator.                                *)
(***************************************************************************)
EXTENDS Integers, Sequences, SequencesExt, TLAPS, SequenceTheorems, WellFoundedInduction

\* A set of natural numbers that is not empty has a least member.
LEMMA LeastMember ==
  ASSUME NEW T, T \subseteq Nat, T # {}
  PROVE  \E x \in T : \A y \in T : x <= y
<1> DEFINE R == {ss \in Nat \X Nat : ss[1] < ss[2]}
<1>1. IsWellFoundedOn(R, Nat)
  BY NatLessThanWellFounded DEF OpToRel
<1>2. PICK x \in T : \A y \in T : ~(<<y, x>> \in R)
  <2> HIDE DEF R
  <2> QED BY <1>1, WFMin, Zenon
<1>3. \A y \in T : ~(y < x)
  BY <1>2
<1> QED BY <1>3

\* Induction: the numbers up to n for which something holds are all of them.
LEMMA UpTo ==
  ASSUME NEW n \in Nat, NEW T,
         0 \in T, \A i \in 0 .. n - 1 : i \in T => i + 1 \in T
  PROVE  0 .. n \subseteq T
<1> DEFINE Missing == {i \in 0 .. n : i \notin T}
<1> SUFFICES ASSUME Missing # {} PROVE FALSE
  OBVIOUS
<1>1. PICK x \in Missing : \A y \in Missing : x <= y
  <2>1. Missing \subseteq Nat
    OBVIOUS
  <2> HIDE DEF Missing
  <2> QED BY <2>1, LeastMember
<1>2. x # 0 /\ x - 1 \in 0 .. n - 1
  BY <1>1
<1>3. x - 1 \notin Missing
  BY <1>1, <1>2
<1> QED
  BY <1>1, <1>2, <1>3

\* A recursion up to n: from start on, by the steps of h.
IsRecursion(D, start, n, h) == start \in D /\ n \in Nat /\ h \in [(1 .. n) \X D -> D]

\* F holds its values.
Follows(F, D, start, n, h) ==
  F \in [0 .. n -> D] /\ F[0] = start /\ \A i \in 1 .. n : F[i] = h[<<i, F[i - 1]>>]

\* A function defined by recursion over the numbers up to n exists.
LEMMA RecursionExists ==
  ASSUME NEW D, NEW start, NEW n, NEW h, IsRecursion(D, start, n, h)
  PROVE  \E F : Follows(F, D, start, n, h)
<1> USE DEF IsRecursion
<1> DEFINE Is(F, m) == F[0] = start /\ \A i \in 1 .. m : F[i] = h[<<i, F[i - 1]>>]
           T == {m \in 0 .. n : \E F \in [0 .. m -> D] : Is(F, m)}
<1>1. 0 \in T
  <2>1. Is([i \in 0 .. 0 |-> start], 0)
    OBVIOUS
  <2>2. [i \in 0 .. 0 |-> start] \in [0 .. 0 -> D]
    OBVIOUS
  <2> HIDE DEF Is
  <2> QED BY <2>1, <2>2
<1>2. ASSUME NEW m \in 0 .. n - 1, m \in T
      PROVE  m + 1 \in T
  <2>1. PICK F \in [0 .. m -> D] : Is(F, m)
    BY <1>2
  <2> DEFINE G == [i \in 0 .. m + 1 |-> IF i = m + 1 THEN h[<<m + 1, F[m]>>] ELSE F[i]]
  <2>2. h[<<m + 1, F[m]>>] \in D
    BY <1>2
  <2>3. G \in [0 .. m + 1 -> D]
    BY <2>2
  <2>4. \A i \in 0 .. m : G[i] = F[i]
    OBVIOUS
  <2>5. G[m + 1] = h[<<m + 1, G[m]>>]
    OBVIOUS
  <2> HIDE DEF G
  <2>6. G[0] = start
    BY <2>1, <2>4
  <2>7. \A i \in 1 .. m + 1 : G[i] = h[<<i, G[i - 1]>>]
    <3> SUFFICES ASSUME NEW i \in 1 .. m + 1 PROVE G[i] = h[<<i, G[i - 1]>>]
      OBVIOUS
    <3>1. CASE i = m + 1
      BY <2>5, <3>1
    <3>2. CASE i # m + 1
      <4>1. i \in 1 .. m /\ i \in 0 .. m /\ i - 1 \in 0 .. m
        BY <3>2
      <4>2. F[i] = h[<<i, F[i - 1]>>]
        BY <2>1, <4>1
      <4> QED BY <2>4, <4>1, <4>2
    <3> QED BY <3>1, <3>2
  <2>8. Is(G, m + 1)
    BY <2>6, <2>7
  <2> HIDE DEF Is
  <2> QED BY <2>3, <2>8
<1>3. n \in T
  <2> HIDE DEF T
  <2> QED BY <1>1, <1>2, UpTo
<1> QED
  BY <1>3 DEF Follows

----------------------------------------------------------------------------
(* FlattenSeq.                                                             *)

\* FlattenSeq joins one sequence after the other.
LEMMA Flattened ==
  ASSUME NEW S, NEW seqs \in Seq(Seq(S))
  PROVE  \E F \in [0 .. Len(seqs) -> Seq(S)] :
           /\ F[0] = <<>>
           /\ \A i \in 1 .. Len(seqs) : F[i] = F[i - 1] \o seqs[i]
           /\ FlattenSeq(seqs) = F[Len(seqs)]
<1> DEFINE n == Len(seqs)
           D == Seq(S)
           none == <<>>
           Join(d, e) == d \o e
           h == [p \in (1 .. n) \X D |-> Join(p[2], seqs[p[1]])]
<1>1. n \in Nat /\ \A i \in 1 .. n : seqs[i] \in D
  OBVIOUS
<1>2. none \in D /\ \A d \in D : Join(none, d) = d /\ \A e \in D : Join(d, e) \in D
  OBVIOUS
<1>3. FlattenSeq(seqs) =
        IF n = 0 THEN seqs
        ELSE LET flatten[i \in 1 .. n] == IF i = 1 THEN seqs[i] ELSE Join(flatten[i - 1], seqs[i])
             IN  flatten[n]
  BY DEF FlattenSeq
<1>4. n = 0 => seqs = none
  OBVIOUS
<1> HIDE DEF n, D, none, Join
<1>5. h \in [(1 .. n) \X D -> D] /\ \A i \in 1 .. n : \A d \in D : h[<<i, d>>] = Join(d, seqs[i])
  BY <1>1, <1>2
<1> HIDE DEF h
<1>6. PICK F \in [0 .. n -> D] : F[0] = none /\ \A i \in 1 .. n : F[i] = h[<<i, F[i - 1]>>]
  <2>1. IsRecursion(D, none, n, h)
    BY <1>1, <1>2, <1>5 DEF IsRecursion
  <2>2. \E F : Follows(F, D, none, n, h)
    BY <2>1, RecursionExists
  <2> QED BY <2>2 DEF Follows
<1>7. \A i \in 1 .. n : F[i] = Join(F[i - 1], seqs[i])
  <2> TAKE i \in 1 .. n
  <2>1. F[i - 1] \in D
    BY <1>1
  <2> QED BY <1>5, <1>6, <2>1
<1>8. FlattenSeq(seqs) = F[n]
  <2>1. CASE n = 0
    BY <1>3, <1>4, <1>6, <2>1
  <2>2. CASE n # 0
    <3> DEFINE Is(f) == f = [i \in 1 .. n |-> IF i = 1 THEN seqs[i] ELSE Join(f[i - 1], seqs[i])]
               flatten == CHOOSE f : Is(f)
               G == [i \in 1 .. n |-> F[i]]
    <3>1. F[1] = seqs[1]
      <4>1. 1 \in 1 .. n /\ 1 - 1 = 0
        BY <1>1, <2>2
      <4> QED BY <1>1, <1>2, <1>6, <1>7, <4>1
    <3>2. Is(G)
      <4>1. ASSUME NEW i \in 1 .. n
            PROVE  G[i] = IF i = 1 THEN seqs[i] ELSE Join(G[i - 1], seqs[i])
        <5>1. CASE i = 1
          BY <3>1, <5>1
        <5>2. CASE i # 1
          <6>1. i - 1 \in 1 .. n
            BY <1>1, <5>2
          <6> QED BY <1>7, <5>2, <6>1
        <5> QED BY <5>1, <5>2
      <4> QED BY <4>1
    <3>3. Is(flatten)
      <4> HIDE DEF Is, G
      <4> QED BY <3>2
    <3>4. FlattenSeq(seqs) = flatten[n]
      BY <1>3, <2>2
    <3> HIDE DEF flatten, G
    <3> DEFINE T == {i \in 0 .. n : i = 0 \/ flatten[i] = F[i]}
    <3>5. 0 \in T
      BY <1>1
    <3>6. ASSUME NEW i \in 0 .. n - 1, i \in T
          PROVE  i + 1 \in T
      <4> DEFINE j == i + 1
      <4>1. j \in 1 .. n /\ j - 1 = i /\ i \in 0 .. n
        BY <1>1
      <4> HIDE DEF j
      <4>2. flatten[j] = IF j = 1 THEN seqs[j] ELSE Join(flatten[j - 1], seqs[j])
        BY <3>3, <4>1
      <4>3. flatten[j] = F[j]
        BY <1>1, <1>7, <3>1, <3>6, <4>1, <4>2
      <4> QED BY <1>1, <4>1, <4>3 DEF j
    <3>7. 0 .. n \subseteq T
      <4> HIDE DEF T
      <4> QED BY <1>1, <3>5, <3>6, UpTo
    <3> QED BY <1>1, <2>2, <3>4, <3>7
  <2> QED BY <2>1, <2>2
<1> QED
  BY <1>6, <1>7, <1>8 DEF n, D, none, Join

LEMMA FlattenType ==
  ASSUME NEW S, NEW seqs \in Seq(Seq(S))
  PROVE  FlattenSeq(seqs) \in Seq(S)
<1>1. PICK F \in [0 .. Len(seqs) -> Seq(S)] : FlattenSeq(seqs) = F[Len(seqs)]
  BY Flattened
<1> QED
  BY <1>1

----------------------------------------------------------------------------
(* FoldLeft.                                                               *)

\* The numbers up to i have i as their greatest.
LEMMA GreatestUpTo == \A i \in Nat \ {0} : Max(1 .. i) = i
<1> TAKE i \in Nat \ {0}
<1>1. i \in 1 .. i /\ \A y \in 1 .. i : i >= y
  OBVIOUS
<1>2. \A x \in 1 .. i : (\A y \in 1 .. i : x >= y) => x = i
  OBVIOUS
<1> QED
  BY <1>1, <1>2 DEF Max

LEMMA GreatestMember ==
  ASSUME NEW n \in Nat, NEW s, s \subseteq 1 .. n, s # {}
  PROVE  Max(s) \in s
<1> DEFINE T == {k \in Nat : \E x \in s : k = n - x}
<1>1. T \subseteq Nat /\ T # {}
  <2>1. PICK x \in s : TRUE
    OBVIOUS
  <2>2. n - x \in T
    OBVIOUS
  <2> QED BY <2>2
<1>2. PICK k \in T : \A y \in T : k <= y
  <2> HIDE DEF T
  <2> QED BY <1>1, LeastMember
<1>3. PICK x \in s : k = n - x
  BY <1>2
<1>4. \A y \in s : x >= y
  <2> TAKE y \in s
  <2>1. n - y \in T
    OBVIOUS
  <2> QED BY <1>2, <1>3, <2>1
<1> QED
  BY <1>3, <1>4 DEF Max

\* A fold over seq from start on, by the steps of h.
IsFold(D, E, start, seq, h) == start \in D /\ seq \in Seq(E) /\ h \in [D \X E -> D]

\* it holds its values for the elements at any set of places.
Folds(it, D, start, seq, h) ==
  /\ it \in [SUBSET (1 .. Len(seq)) -> D]
  /\ \A s \in SUBSET (1 .. Len(seq)) :
       it[s] = IF s = {} THEN start ELSE h[<<it[s \ {Max(s)}], seq[Max(s)]>>]

\* The function FoldLeft is defined by exists.
LEMMA FoldExists ==
  ASSUME NEW D, NEW E, NEW start, NEW seq, NEW h, IsFold(D, E, start, seq, h)
  PROVE  \E it : Folds(it, D, start, seq, h)
<1> DEFINE n == Len(seq)
           Is(it, m) == \A s \in SUBSET (1 .. m) :
                          it[s] = IF s = {} THEN start ELSE h[<<it[s \ {Max(s)}], seq[Max(s)]>>]
           T == {m \in 0 .. n : \E it \in [SUBSET (1 .. m) -> D] : Is(it, m)}
<1>1. n \in Nat /\ start \in D /\ h \in [D \X E -> D] /\ \A i \in 1 .. n : seq[i] \in E
  BY DEF IsFold
<1> HIDE DEF n
<1>2. 0 \in T
  <2> DEFINE it == [s \in SUBSET (1 .. 0) |-> start]
  <2>1. \A s \in SUBSET (1 .. 0) : s = {}
    OBVIOUS
  <2>2. Is(it, 0) /\ it \in [SUBSET (1 .. 0) -> D] /\ 0 \in 0 .. n
    BY <1>1, <2>1
  <2> HIDE DEF Is, it
  <2> QED BY <2>2
<1>3. ASSUME NEW m \in 0 .. n - 1, m \in T
      PROVE  m + 1 \in T
  <2>1. PICK it \in [SUBSET (1 .. m) -> D] : Is(it, m)
    BY <1>3
  <2> DEFINE k == m + 1
             new == [s \in SUBSET (1 .. k) |->
                       IF k \in s THEN h[<<it[s \ {k}], seq[k]>>] ELSE it[s]]
  <2>2. k \in 1 .. n /\ k - 1 = m /\ k \in Nat
    BY <1>1
  <2>3. \A s \in SUBSET (1 .. k) : s \ {k} \in SUBSET (1 .. m)
    BY <2>2
  <2>4. \A s \in SUBSET (1 .. k) : k \notin s => s \in SUBSET (1 .. m)
    BY <2>2
  <2>5. \A s \in SUBSET (1 .. m) : s \in SUBSET (1 .. k) /\ k \notin s
    BY <2>2
  <2> HIDE DEF k
  <2>6. \A s \in SUBSET (1 .. k) : new[s] \in D
    <3> TAKE s \in SUBSET (1 .. k)
    <3>1. CASE k \in s
      <4>1. it[s \ {k}] \in D /\ seq[k] \in E
        BY <1>1, <2>2, <2>3
      <4> QED BY <1>1, <3>1, <4>1
    <3>2. CASE k \notin s
      BY <2>4, <3>2
    <3> QED BY <3>1, <3>2
  <2>7. new \in [SUBSET (1 .. k) -> D]
    BY <2>6
  <2>8. \A s \in SUBSET (1 .. m) : new[s] = it[s]
    BY <2>5
  <2>9. Is(new, k)
    <3> SUFFICES ASSUME NEW s \in SUBSET (1 .. k)
                 PROVE  new[s] = IF s = {} THEN start
                                 ELSE h[<<new[s \ {Max(s)}], seq[Max(s)]>>]
      OBVIOUS
    <3>1. CASE k \in s
      <4>1. \A y \in s : k >= y
        BY <2>2
      <4>2. Max(s) = k
        <5>1. \A x \in s : (\A y \in s : x >= y) => x = k
          BY <2>2, <3>1, <4>1
        <5> QED BY <3>1, <4>1, <5>1 DEF Max
      <4>3. new[s \ {k}] = it[s \ {k}]
        BY <2>3, <2>8
      <4>4. new[s] = h[<<it[s \ {k}], seq[k]>>]
        BY <3>1
      <4> HIDE DEF new
      <4> QED BY <3>1, <4>2, <4>3, <4>4
    <3>2. CASE k \notin s
      <4>1. s \in SUBSET (1 .. m) /\ new[s] = it[s]
        BY <2>4, <3>2
      <4>2. s \ {Max(s)} \in SUBSET (1 .. m)
        BY <4>1
      <4>3. new[s \ {Max(s)}] = it[s \ {Max(s)}]
        BY <2>8, <4>2
      <4> HIDE DEF new
      <4> QED BY <2>1, <4>1, <4>3
    <3> QED BY <3>1, <3>2
  <2> HIDE DEF Is, new
  <2>10. k \in T
    BY <1>1, <2>2, <2>7, <2>9
  <2> QED BY <2>10 DEF k
<1>4. n \in T
  <2> HIDE DEF T
  <2>1. 0 .. n \subseteq T
    BY <1>1, <1>2, <1>3, UpTo
  <2> QED BY <1>1, <2>1
<1> QED
  BY <1>4 DEF Folds, n

\* What a fold's function does, as long as its values are in D.
Loops(it, D, start, seq, h) ==
  /\ it[{}] = start
  /\ \A s \in SUBSET (1 .. Len(seq)) :
       s # {} /\ it[s \ {Max(s)}] \in D => it[s] = h[<<it[s \ {Max(s)}], seq[Max(s)]>>]

\* F holds the values of the fold for the first 0, 1, ... elements.
Runs(F, D, start, seq, h) ==
  /\ F \in [0 .. Len(seq) -> D] /\ F[0] = start
  /\ \A i \in 1 .. Len(seq) : F[i] = h[<<F[i - 1], seq[i]>>]

\* A fold goes through the elements in their order.
LEMMA FoldRuns ==
  ASSUME NEW D, NEW E, NEW start, NEW seq, NEW h, IsFold(D, E, start, seq, h),
         NEW it, Loops(it, D, start, seq, h)
  PROVE  \E F : Runs(F, D, start, seq, h) /\ F[Len(seq)] = it[1 .. Len(seq)]
<1> DEFINE n == Len(seq)
           F == [i \in 0 .. n |-> it[1 .. i]]
<1>1. n \in Nat /\ start \in D /\ h \in [D \X E -> D] /\ \A i \in 1 .. n : seq[i] \in E
  BY DEF IsFold
<1>2. /\ it[{}] = start
      /\ \A s \in SUBSET (1 .. n) :
           s # {} /\ it[s \ {Max(s)}] \in D => it[s] = h[<<it[s \ {Max(s)}], seq[Max(s)]>>]
  BY DEF Loops
<1> HIDE DEF n
<1>3. F[0] = start
  <2>1. 1 .. 0 = {} /\ 0 \in 0 .. n
    BY <1>1
  <2> QED BY <1>2, <2>1
<1>4. ASSUME NEW i \in 1 .. n, F[i - 1] \in D
      PROVE  F[i] = h[<<F[i - 1], seq[i]>>]
  <2>1. i \in 0 .. n /\ i - 1 \in 0 .. n /\ i \in Nat \ {0}
    BY <1>1
  <2>2. 1 .. i \in SUBSET (1 .. n) /\ i \in 1 .. i
    BY <1>1
  <2>3. (1 .. i) \ {i} = 1 .. i - 1
    BY <2>1
  <2>4. Max(1 .. i) = i
    BY <2>1, GreatestUpTo
  <2>5. F[i] = it[1 .. i] /\ F[i - 1] = it[1 .. i - 1]
    BY <2>1
  <2> HIDE DEF F
  <2> QED BY <1>2, <1>4, <2>2, <2>3, <2>4, <2>5
<1>5. F = [i \in 0 .. n |-> F[i]] /\ F[n] = it[1 .. n]
  BY <1>1
<1> DEFINE T == {i \in 0 .. n : F[i] \in D}
<1> HIDE DEF F
<1>6. 0 \in T
  BY <1>1, <1>3
<1>7. ASSUME NEW i \in 0 .. n - 1, i \in T
      PROVE  i + 1 \in T
  <2> DEFINE j == i + 1
  <2>1. j \in 1 .. n /\ j - 1 = i /\ j \in 0 .. n
    BY <1>1
  <2> HIDE DEF j
  <2>2. F[j] = h[<<F[i], seq[j]>>]
    BY <1>4, <1>7, <2>1
  <2>3. j \in T
    BY <1>1, <1>7, <2>1, <2>2
  <2> QED BY <2>3 DEF j
<1>8. 0 .. n \subseteq T
  <2> HIDE DEF T
  <2> QED BY <1>1, <1>6, <1>7, UpTo
<1>9. F \in [0 .. n -> D]
  BY <1>5, <1>8
<1>10. \A i \in 1 .. n : F[i] = h[<<F[i - 1], seq[i]>>]
  <2> TAKE i \in 1 .. n
  <2>1. i - 1 \in 0 .. n
    BY <1>1
  <2> QED BY <1>4, <1>9, <2>1
<1> QED
  BY <1>3, <1>5, <1>9, <1>10 DEF Runs, n

\* FlattenSeq, from the back: what is behind the first i sequences.
LEMMA FlattenedBack ==
  ASSUME NEW S, NEW seqs \in Seq(Seq(S))
  PROVE  \E H \in [0 .. Len(seqs) -> Seq(S)] :
           /\ H[Len(seqs)] = <<>>
           /\ \A i \in 1 .. Len(seqs) : H[i - 1] = seqs[i] \o H[i]
           /\ FlattenSeq(seqs) = H[0]
<1> DEFINE n == Len(seqs)
           D == Seq(S)
           none == <<>>
           Join(d, e) == d \o e
           h == [p \in (1 .. n) \X D |-> Join(seqs[n + 1 - p[1]], p[2])]
<1>1. n \in Nat /\ \A i \in 1 .. n : seqs[i] \in D
  OBVIOUS
<1>2. PICK F \in [0 .. n -> D] :
        /\ F[0] = none /\ \A i \in 1 .. n : F[i] = Join(F[i - 1], seqs[i])
        /\ FlattenSeq(seqs) = F[n]
  BY Flattened
<1>3. none \in D /\ (\A d \in D : Join(none, d) = d /\ Join(d, none) = d)
      /\ \A d, e \in D : Join(d, e) \in D
  OBVIOUS
<1>0. \A d, e, f \in D : Join(d, Join(e, f)) = Join(Join(d, e), f)
  OBVIOUS
<1> HIDE DEF n, D, none, Join
<1>4. h \in [(1 .. n) \X D -> D] /\ \A k \in 1 .. n : \A d \in D : h[<<k, d>>] = Join(seqs[n + 1 - k], d)
  <2>1. ASSUME NEW p \in (1 .. n) \X D
        PROVE  Join(seqs[n + 1 - p[1]], p[2]) \in D
    <3>1. n + 1 - p[1] \in 1 .. n
      BY <1>1
    <3> QED BY <1>1, <1>3, <3>1
  <2> QED BY <2>1
<1> HIDE DEF h
<1>5. PICK G \in [0 .. n -> D] : G[0] = none /\ \A k \in 1 .. n : G[k] = h[<<k, G[k - 1]>>]
  <2>1. IsRecursion(D, none, n, h)
    BY <1>1, <1>3, <1>4 DEF IsRecursion
  <2>2. \E G : Follows(G, D, none, n, h)
    BY <2>1, RecursionExists
  <2> QED BY <2>2 DEF Follows
<1>6. \A k \in 1 .. n : G[k] = Join(seqs[n + 1 - k], G[k - 1])
  <2> TAKE k \in 1 .. n
  <2>1. G[k - 1] \in D
    BY <1>1
  <2> QED BY <1>4, <1>5, <2>1
<1> DEFINE T == {k \in 0 .. n : Join(F[n - k], G[k]) = F[n]}
<1>7. 0 \in T
  <2>1. n - 0 = n /\ n \in 0 .. n /\ 0 \in 0 .. n
    BY <1>1
  <2>2. Join(F[n - 0], G[0]) = F[n]
    BY <1>3, <1>5, <2>1
  <2> QED BY <2>1, <2>2
<1>8. ASSUME NEW k \in 0 .. n - 1, k \in T
      PROVE  k + 1 \in T
  <2> DEFINE j == k + 1
             i == n - k
  <2>1. j \in 1 .. n /\ j - 1 = k /\ k \in 0 .. n /\ i \in 1 .. n /\ n + 1 - j = i
        /\ i - 1 \in 0 .. n /\ n - j = i - 1
    BY <1>1
  <2>2. Join(F[i], G[k]) = F[n]
    BY <1>8
  <2> HIDE DEF i, j
  <2>3. F[i] = Join(F[i - 1], seqs[i]) /\ G[j] = Join(seqs[i], G[k])
    <3>1. G[j] = Join(seqs[n + 1 - j], G[j - 1])
      BY <1>6, <2>1
    <3> QED BY <1>2, <2>1, <3>1
  <2>4. F[i - 1] \in D /\ seqs[i] \in D /\ G[k] \in D
    BY <1>1, <2>1
  <2>5. Join(F[n - j], G[j]) = F[n]
    <3>1. Join(F[i - 1], Join(seqs[i], G[k])) = Join(Join(F[i - 1], seqs[i]), G[k])
      BY <1>0, <2>4
    <3> QED BY <2>1, <2>2, <2>3, <3>1
  <2>6. j \in T
    BY <2>1, <2>5
  <2> QED BY <2>6 DEF j
<1>9. n \in T
  <2> HIDE DEF T
  <2>1. 0 .. n \subseteq T
    BY <1>1, <1>7, <1>8, UpTo
  <2> QED BY <1>1, <2>1
<1>10. FlattenSeq(seqs) = G[n]
  <2>1. n - n = 0 /\ n \in 0 .. n
    BY <1>1
  <2> QED BY <1>2, <1>3, <1>9, <2>1
<1> DEFINE H == [i \in 0 .. n |-> G[n - i]]
<1>11. \A i \in 0 .. n : n - i \in 0 .. n
  BY <1>1
<1>12. H \in [0 .. n -> D] /\ \A i \in 0 .. n : H[i] = G[n - i]
  BY <1>11
<1> HIDE DEF H
<1>13. H[n] = none /\ H[0] = G[n]
  <2>1. n - n = 0 /\ n \in 0 .. n /\ 0 \in 0 .. n /\ n - 0 = n
    BY <1>1
  <2> QED BY <1>5, <1>12, <2>1
<1>14. \A i \in 1 .. n : H[i - 1] = Join(seqs[i], H[i])
  <2> TAKE i \in 1 .. n
  <2> DEFINE k == n + 1 - i
  <2>1. k \in 1 .. n /\ n + 1 - k = i /\ i - 1 \in 0 .. n /\ i \in 0 .. n
        /\ n - (i - 1) = k /\ k - 1 = n - i
    BY <1>1
  <2> HIDE DEF k
  <2>2. H[i - 1] = G[k] /\ H[i] = G[k - 1]
    BY <1>12, <2>1
  <2>3. G[k] = Join(seqs[n + 1 - k], G[k - 1])
    BY <1>6, <2>1
  <2> QED BY <2>1, <2>2, <2>3
<1> QED
  BY <1>10, <1>12, <1>13, <1>14 DEF n, D, none, Join

\* One element more is one step more of a fold.
LEMMA FoldAppend ==
  ASSUME NEW D, NEW E, NEW start, NEW seq, NEW h, IsFold(D, E, start, seq, h), NEW e \in E,
         NEW F, Runs(F, D, start, seq, h), NEW G, Runs(G, D, start, Append(seq, e), h)
  PROVE  F[Len(seq)] \in D /\ G[Len(seq) + 1] = h[<<F[Len(seq)], e>>]
<1> DEFINE n == Len(seq)
           all == Append(seq, e)
<1>1. /\ n \in Nat /\ Len(all) = n + 1 /\ all[n + 1] = e /\ \A i \in 1 .. n : all[i] = seq[i]
  BY DEF IsFold
<1>2. F \in [0 .. n -> D] /\ F[0] = start /\ \A i \in 1 .. n : F[i] = h[<<F[i - 1], seq[i]>>]
  BY DEF Runs
<1>3. G[0] = start /\ \A i \in 1 .. n + 1 : G[i] = h[<<G[i - 1], all[i]>>]
  BY <1>1 DEF Runs
<1> HIDE DEF n, all
<1> DEFINE T == {i \in 0 .. n : G[i] = F[i]}
<1>4. 0 \in T
  BY <1>1, <1>2, <1>3
<1>5. ASSUME NEW i \in 0 .. n - 1, i \in T
      PROVE  i + 1 \in T
  <2> DEFINE j == i + 1
  <2>1. j \in 1 .. n /\ j - 1 = i /\ j \in 0 .. n /\ j \in 1 .. n + 1
    BY <1>1
  <2> HIDE DEF j
  <2>2. G[j] = h[<<G[i], all[j]>>] /\ F[j] = h[<<F[i], seq[j]>>]
    BY <1>2, <1>3, <2>1
  <2>3. j \in T
    BY <1>1, <1>5, <2>1, <2>2
  <2> QED BY <2>3 DEF j
<1>6. n \in T
  <2> HIDE DEF T
  <2>1. 0 .. n \subseteq T
    BY <1>1, <1>4, <1>5, UpTo
  <2> QED BY <1>1, <2>1
<1>7. n + 1 \in 1 .. n + 1 /\ (n + 1) - 1 = n /\ n \in 0 .. n
  BY <1>1
<1>8. G[n + 1] = h[<<G[n], e>>]
  BY <1>1, <1>3, <1>7
<1> QED
  BY <1>2, <1>6, <1>7, <1>8 DEF n

\* What is not more than a quotient is not more than the number, multiplied.
LEMMA DivBound ==
  ASSUME NEW m \in Nat \ {0}, NEW x \in Nat, NEW q \in Nat, q <= x \div m
  PROVE  q * m <= x
<1>1. x \div m \in Nat /\ (x \div m) * m <= x
  OBVIOUS
<1>2. q * m <= (x \div m) * m
  OBVIOUS
<1> QED BY <1>1, <1>2

\* The least of some numbers.
LEMMA LeastOf ==
  ASSUME NEW T, T \subseteq Nat, T # {}
  PROVE  Min(T) \in T /\ \A y \in T : Min(T) <= y
<1>1. \E x \in T : \A y \in T : x <= y
  BY LeastMember
<1> QED
  BY <1>1 DEF Min

\* What is even does not change the lowest bit of a sum.
LEMMA LowestBit ==
  \A x, y \in {0, 1}, p, q \in Nat : ((x + 2 * p) + (y + 2 * q)) % 2 = (x + y) % 2
OBVIOUS

\* Two cuts of one sequence, of which the second is not behind the first.
TwoWays(S, b, a, x, y) ==
  /\ b \in Seq(S) /\ a \in Seq(S) /\ x \in Seq(S) /\ y \in Seq(S)
  /\ b \o a = x \o y /\ Len(x) <= Len(b)

\* The shorter first part begins the longer one, and what is left of that is in
\* front of the longer one's second part.
LEMMA TwoCuts ==
  ASSUME NEW S, NEW b, NEW a, NEW x, NEW y, TwoWays(S, b, a, x, y)
  PROVE  /\ SubSeq(b, 1, Len(x)) = x /\ \A i \in 1 .. Len(x) : b[i] = x[i]
         /\ SubSeq(b, Len(x) + 1, Len(b)) \o a = y
<1> SUFFICES ASSUME b \in Seq(S), a \in Seq(S), x \in Seq(S), y \in Seq(S),
                    b \o a = x \o y, Len(x) <= Len(b)
             PROVE  /\ SubSeq(b, 1, Len(x)) = x /\ \A i \in 1 .. Len(x) : b[i] = x[i]
                    /\ SubSeq(b, Len(x) + 1, Len(b)) \o a = y
  BY DEF TwoWays
<1> DEFINE n == Len(x)
           m == Len(b)
           k == Len(a)
           l == Len(y)
           both == b \o a
<1>1. n \in Nat /\ m \in Nat /\ k \in Nat /\ l \in Nat /\ n <= m
  OBVIOUS
<1>2. Len(both) = m + k /\ (\A i \in 1 .. m : both[i] = b[i]) /\ \A i \in 1 .. k : both[m + i] = a[i]
  <2>1. Len(both) = m + k /\ \A i \in 1 .. m + k : both[i] = IF i <= m THEN b[i] ELSE a[i - m]
    BY ConcatProperties
  <2> HIDE DEF m, k, both
  <2>2. ASSUME NEW i \in 1 .. k
        PROVE  both[m + i] = a[i]
    <3> DEFINE at == m + i
    <3>1. at \in 1 .. m + k /\ ~(at <= m) /\ at - m = i
      BY <1>1
    <3> HIDE DEF at
    <3>2. both[at] = a[at - m]
      BY <2>1, <3>1
    <3> QED BY <3>1, <3>2 DEF at
  <2>3. \A i \in 1 .. m : both[i] = b[i]
    BY <1>1, <2>1
  <2> QED BY <2>1, <2>2, <2>3
<1>3. Len(both) = n + l /\ (\A i \in 1 .. n : both[i] = x[i]) /\ \A i \in 1 .. l : both[n + i] = y[i]
  <2>1. both = x \o y
    OBVIOUS
  <2> QED BY <2>1
<1> HIDE DEF both
<1>4. \A i \in 1 .. n : b[i] = x[i]
  BY <1>1, <1>2, <1>3
<1>5. SubSeq(b, 1, n) = x
  <2> DEFINE c == SubSeq(b, 1, n)
  <2>1. c \in Seq(S) /\ Len(c) = n /\ \A i \in 1 .. n : c[i] = b[i]
    BY <1>1
  <2>2. x \in Seq(S)
    OBVIOUS
  <2> HIDE DEF c
  <2>3. c = x
    BY <1>4, <2>1, <2>2, SeqEqual
  <2> QED BY <2>3 DEF c
<1>6. SubSeq(b, n + 1, m) \o a = y
  <2> DEFINE c == SubSeq(b, n + 1, m)
             d == c \o a
  <2>1. c \in Seq(S) /\ Len(c) = m - n /\ \A i \in 1 .. m - n : c[i] = b[n + i]
    BY <1>1
  <2>2. a \in Seq(S) /\ y \in Seq(S)
    OBVIOUS
  <2> HIDE DEF c
  <2>3. d \in Seq(S) /\ Len(d) = (m - n) + k
        /\ (\A i \in 1 .. m - n : d[i] = c[i]) /\ \A i \in 1 .. k : d[(m - n) + i] = a[i]
    <3> DEFINE v == m - n
    <3>1. v \in Nat /\ Len(c) = v /\ Len(a) = k /\ k \in Nat
      BY <1>1, <2>1
    <3> HIDE DEF v, k
    <3>2. d \in Seq(S) /\ Len(d) = v + k
      <4>1. c \in Seq(S) /\ a \in Seq(S)
        BY <2>1, <2>2
      <4>2. d \in Seq(S) /\ Len(d) = Len(c) + Len(a)
        BY <4>1, ConcatProperties
      <4> QED BY <3>1, <4>2
    <3>3. \A i \in 1 .. v : d[i] = c[i]
      BY <2>1, <2>2, <3>1
    <3>4. \A i \in 1 .. k : d[v + i] = a[i]
      <4> TAKE i \in 1 .. k
      <4>1. c \in Seq(S) /\ a \in Seq(S)
        BY <2>1, <2>2
      <4> DEFINE j == v + i
      <4>2. j \in v + 1 .. v + k /\ j - v = i
        BY <3>1
      <4> HIDE DEF j
      <4>3. d[j] = a[j - v]
        BY <3>1, <4>1, <4>2
      <4> QED BY <4>2, <4>3 DEF j
    <3> QED BY <3>2, <3>3, <3>4 DEF v
  <2> HIDE DEF d, m, n, k, l
  <2>4. Len(d) = l
    BY <1>1, <1>2, <1>3, <2>3
  <2>5. ASSUME NEW i \in 1 .. l
        PROVE  d[i] = y[i]
    <3>1. both[n + i] = y[i]
      BY <1>3
    <3>2. CASE i <= m - n
      <4>1. i \in 1 .. m - n /\ n + i \in 1 .. m
        BY <1>1, <3>2
      <4> QED BY <1>2, <2>1, <2>3, <3>1, <4>1
    <3>3. CASE i > m - n
      <4> DEFINE j == i - (m - n)
      <4>1. j \in 1 .. k /\ i = (m - n) + j /\ n + i = m + j
        BY <1>1, <2>3, <2>4, <3>3
      <4> HIDE DEF j
      <4> QED BY <1>2, <2>3, <3>1, <4>1
    <3> QED BY <1>1, <3>2, <3>3
  <2>6. d = y
    BY <2>2, <2>3, <2>4, <2>5, SeqEqual DEF l
  <2> QED BY <2>6 DEF d, c
<1> QED
  BY <1>4, <1>5, <1>6

----------------------------------------------------------------------------
(* Sequences in a row: what the first k of them make, and the others.      *)

Gone(parts, k) == FlattenSeq([i \in 1 .. k |-> parts[i]])

ToCome(parts, k) == FlattenSeq([i \in 1 .. Len(parts) - k |-> parts[k + i]])

\* No sequences make none.
LEMMA FlattenNone == FlattenSeq(<<>>) = <<>>
<1> DEFINE none == <<>>
<1>1. none \in Seq(Seq({})) /\ Len(none) = 0
  OBVIOUS
<1> HIDE DEF none
<1>2. PICK F \in [0 .. Len(none) -> Seq({})] : F[0] = <<>> /\ FlattenSeq(none) = F[Len(none)]
  BY <1>1, Flattened
<1> QED BY <1>1, <1>2 DEF none

\* One sequence more, at the end.
LEMMA FlattenLast ==
  ASSUME NEW S, NEW seqs \in Seq(Seq(S)), NEW all \in Seq(Seq(S)),
         Len(all) = Len(seqs) + 1, \A i \in 1 .. Len(seqs) : all[i] = seqs[i]
  PROVE  FlattenSeq(all) = FlattenSeq(seqs) \o all[Len(all)]
<1> DEFINE n == Len(seqs)
<1>1. n \in Nat /\ Len(all) = n + 1
  OBVIOUS
<1>2. PICK F \in [0 .. n -> Seq(S)] :
        /\ F[0] = <<>> /\ \A i \in 1 .. n : F[i] = F[i - 1] \o seqs[i]
        /\ FlattenSeq(seqs) = F[n]
  BY Flattened
<1> HIDE DEF n
<1> DEFINE l == Len(all)
<1>8. PICK G \in [0 .. l -> Seq(S)] :
        /\ G[0] = <<>> /\ \A i \in 1 .. l : G[i] = G[i - 1] \o all[i]
        /\ FlattenSeq(all) = G[l]
  BY Flattened
<1>9. l = n + 1
  BY <1>1
<1> HIDE DEF l
<1>3. /\ G \in [0 .. n + 1 -> Seq(S)]
      /\ G[0] = <<>> /\ \A i \in 1 .. n + 1 : G[i] = G[i - 1] \o all[i]
      /\ FlattenSeq(all) = G[n + 1]
  BY <1>8, <1>9
<1> DEFINE T == {i \in 0 .. n : G[i] = F[i]}
<1>4. 0 .. n \subseteq T
  <2>1. 0 \in T
    BY <1>1, <1>2, <1>3
  <2>2. ASSUME NEW i \in 0 .. n - 1, i \in T
        PROVE  i + 1 \in T
    <3> DEFINE j == i + 1
    <3>1. j \in 1 .. n /\ j \in 1 .. n + 1 /\ j - 1 = i /\ j \in 0 .. n
      BY <1>1
    <3> HIDE DEF j
    <3>2. F[j] = F[j - 1] \o seqs[j] /\ G[j] = G[j - 1] \o all[j] /\ all[j] = seqs[j]
      BY <1>2, <1>3, <3>1 DEF n
    <3>3. G[j] = F[j]
      BY <2>2, <3>1, <3>2
    <3> QED BY <3>1, <3>3 DEF j
  <2> HIDE DEF T
  <2> QED BY <1>1, <2>1, <2>2, UpTo
<1>5. G[n] = F[n]
  BY <1>1, <1>4
<1>6. n + 1 \in 1 .. n + 1 /\ (n + 1) - 1 = n
  BY <1>1
<1>7. G[n + 1] = G[n] \o all[n + 1]
  <2> DEFINE m == n + 1
  <2>1. m \in 1 .. m /\ m - 1 = n
    BY <1>6
  <2>2. \A i \in 1 .. m : G[i] = G[i - 1] \o all[i]
    BY <1>3
  <2> HIDE DEF m
  <2>3. G[m] = G[n] \o all[m]
    BY <2>1, <2>2
  <2> QED BY <2>3 DEF m
<1> QED BY <1>1, <1>2, <1>3, <1>5, <1>7

\* One sequence more, at the beginning.
LEMMA FlattenFirst ==
  ASSUME NEW S, NEW seqs \in Seq(Seq(S)), NEW all \in Seq(Seq(S)),
         Len(all) = Len(seqs) + 1, \A i \in 1 .. Len(seqs) : all[i + 1] = seqs[i]
  PROVE  FlattenSeq(all) = all[1] \o FlattenSeq(seqs)
<1> DEFINE n == Len(seqs)
<1>1. n \in Nat /\ Len(all) = n + 1
  OBVIOUS
<1>2. PICK F \in [0 .. n -> Seq(S)] :
        /\ F[n] = <<>> /\ \A i \in 1 .. n : F[i - 1] = seqs[i] \o F[i]
        /\ FlattenSeq(seqs) = F[0]
  BY FlattenedBack
<1> HIDE DEF n
<1> DEFINE l == Len(all)
<1>7. PICK G \in [0 .. l -> Seq(S)] :
        /\ G[l] = <<>> /\ \A i \in 1 .. l : G[i - 1] = all[i] \o G[i]
        /\ FlattenSeq(all) = G[0]
  BY FlattenedBack
<1>3. /\ G \in [0 .. n + 1 -> Seq(S)]
      /\ G[n + 1] = <<>> /\ \A i \in 1 .. n + 1 : G[i - 1] = all[i] \o G[i]
      /\ FlattenSeq(all) = G[0]
  BY <1>1, <1>7
<1> DEFINE T == {i \in 0 .. n : G[n - i + 1] = F[n - i]}
<1>4. 0 .. n \subseteq T
  <2>1. 0 \in T
    BY <1>1, <1>2, <1>3
  <2>2. ASSUME NEW i \in 0 .. n - 1, i \in T
        PROVE  i + 1 \in T
    <3> DEFINE j == n - i
    <3>1. j \in 1 .. n /\ j + 1 \in 1 .. n + 1 /\ (j + 1) - 1 = j /\ n - (i + 1) = j - 1
          /\ n - (i + 1) + 1 = j /\ i + 1 \in 0 .. n
      BY <1>1
    <3>2. G[j + 1] = F[j]
      BY <2>2
    <3> HIDE DEF j
    <3>3. F[j - 1] = seqs[j] \o F[j] /\ all[j + 1] = seqs[j]
      BY <1>2, <3>1 DEF n
    <3> DEFINE m == j + 1
    <3>4. m \in 1 .. n + 1 /\ m - 1 = j
      BY <3>1
    <3> HIDE DEF m
    <3>5. G[j] = all[m] \o G[m]
      BY <1>3, <3>4
    <3>6. G[j] = F[j - 1]
      BY <3>2, <3>3, <3>5 DEF m
    <3> QED BY <3>1, <3>6
  <2> HIDE DEF T
  <2> QED BY <1>1, <2>1, <2>2, UpTo
<1>5. G[1] = F[0]
  <2>1. n \in 0 .. n /\ n - n + 1 = 1 /\ n - n = 0
    BY <1>1
  <2>2. n \in T
    BY <1>4, <2>1
  <2> QED BY <2>1, <2>2
<1>6. G[0] = all[1] \o G[1]
  <2>1. 1 \in 1 .. n + 1 /\ 1 - 1 = 0
    BY <1>1
  <2>2. G[1 - 1] = all[1] \o G[1]
    BY <1>3, <2>1
  <2> QED BY <2>1, <2>2
<1> QED BY <1>2, <1>3, <1>5, <1>6

\* The first k, and one more.
LEMMA GoneOn ==
  ASSUME NEW S, NEW parts \in Seq(Seq(S))
  PROVE  /\ Gone(parts, 0) = <<>>
         /\ \A k \in 0 .. Len(parts) : Gone(parts, k) \in Seq(S)
         /\ \A k \in 0 .. Len(parts) - 1 : Gone(parts, k + 1) = Gone(parts, k) \o parts[k + 1]
<1> DEFINE First(k) == [i \in 1 .. k |-> parts[i]]
<1>1. ASSUME NEW k \in 0 .. Len(parts)
      PROVE  First(k) \in Seq(Seq(S)) /\ Len(First(k)) = k /\ \A i \in 1 .. k : First(k)[i] = parts[i]
  <2>1. \A i \in 1 .. k : parts[i] \in Seq(S)
    OBVIOUS
  <2>2. k \in Nat
    OBVIOUS
  <2>3. First(k) \in [1 .. k -> Seq(S)]
    BY <2>1
  <2> QED BY <2>2, <2>3, IsASeq
<1>2. ASSUME NEW k \in 0 .. Len(parts)
      PROVE  Gone(parts, k) \in Seq(S)
  <2> DEFINE s == First(k)
  <2>1. s \in Seq(Seq(S))
    BY <1>1
  <2>2. Gone(parts, k) = FlattenSeq(s)
    BY DEF Gone
  <2> HIDE DEF s
  <2> QED BY <2>1, <2>2, FlattenType
<1>3. Gone(parts, 0) = <<>>
  <2>1. First(0) = <<>>
    OBVIOUS
  <2>2. Gone(parts, 0) = FlattenSeq(First(0))
    BY DEF Gone
  <2> QED BY <2>1, <2>2, FlattenNone
<1>4. ASSUME NEW k \in 0 .. Len(parts) - 1
      PROVE  Gone(parts, k + 1) = Gone(parts, k) \o parts[k + 1]
  <2> DEFINE s == First(k)
             a == First(k + 1)
             l == k + 1
  <2>1. k \in 0 .. Len(parts) /\ l \in 0 .. Len(parts) /\ k \in Nat /\ l \in 1 .. l
    OBVIOUS
  <2>2. s \in Seq(Seq(S)) /\ Len(s) = k /\ \A i \in 1 .. k : s[i] = parts[i]
    BY <1>1, <2>1
  <2>3. a \in Seq(Seq(S)) /\ Len(a) = l /\ \A i \in 1 .. l : a[i] = parts[i]
    BY <1>1, <2>1
  <2>4. Gone(parts, k) = FlattenSeq(s) /\ Gone(parts, k + 1) = FlattenSeq(a)
    BY DEF Gone
  <2> HIDE DEF s, a
  <2>5. Len(a) = Len(s) + 1 /\ \A i \in 1 .. Len(s) : a[i] = s[i]
    <3>1. \A i \in 1 .. k : i \in 1 .. l
      BY <2>1
    <3> QED BY <2>1, <2>2, <2>3, <3>1
  <2>6. FlattenSeq(a) = FlattenSeq(s) \o a[Len(a)]
    BY <2>2, <2>3, <2>5, FlattenLast
  <2> QED BY <2>1, <2>3, <2>4, <2>6
<1> QED BY <1>2, <1>3, <1>4

\* The others, and one less.
LEMMA AheadOn ==
  ASSUME NEW S, NEW parts \in Seq(Seq(S))
  PROVE  /\ ToCome(parts, Len(parts)) = <<>>
         /\ \A k \in 0 .. Len(parts) : ToCome(parts, k) \in Seq(S)
         /\ \A k \in 0 .. Len(parts) - 1 : ToCome(parts, k) = parts[k + 1] \o ToCome(parts, k + 1)
<1> DEFINE n == Len(parts)
           Rest(k) == [i \in 1 .. n - k |-> parts[k + i]]
<1>0. n \in Nat
  OBVIOUS
<1>1. ASSUME NEW k \in 0 .. n
      PROVE  /\ Rest(k) \in Seq(Seq(S)) /\ Len(Rest(k)) = n - k
             /\ \A i \in 1 .. n - k : Rest(k)[i] = parts[k + i]
  <2>1. \A i \in 1 .. n - k : k + i \in 1 .. n
    OBVIOUS
  <2>2. \A i \in 1 .. n : parts[i] \in Seq(S)
    OBVIOUS
  <2>3. n - k \in Nat
    OBVIOUS
  <2>4. Rest(k) \in [1 .. n - k -> Seq(S)]
    BY <2>1, <2>2
  <2> HIDE DEF n
  <2>5. Rest(k) \in Seq(Seq(S)) /\ Len(Rest(k)) = n - k
    <3> DEFINE m == n - k
               r == Rest(k)
    <3>1. m \in Nat /\ r \in [1 .. m -> Seq(S)]
      BY <2>3, <2>4
    <3> HIDE DEF m, r
    <3>2. r \in Seq(Seq(S)) /\ Len(r) = m
      BY <3>1, IsASeq, LenProperties
    <3> QED BY <3>2 DEF m, r
  <2> QED BY <2>5
<1>2. ASSUME NEW k \in 0 .. n
      PROVE  ToCome(parts, k) \in Seq(S)
  <2> DEFINE s == Rest(k)
  <2>1. s \in Seq(Seq(S))
    BY <1>1
  <2>2. ToCome(parts, k) = FlattenSeq(s)
    BY DEF ToCome
  <2> HIDE DEF s
  <2> QED BY <2>1, <2>2, FlattenType
<1>3. ToCome(parts, n) = <<>>
  <2>1. Rest(n) = <<>>
    <3>1. 1 .. n - n = {}
      BY <1>0
    <3> QED BY <3>1
  <2>2. ToCome(parts, n) = FlattenSeq(Rest(n))
    BY DEF ToCome
  <2> HIDE DEF n
  <2> QED BY <2>1, <2>2, FlattenNone
<1>4. ASSUME NEW k \in 0 .. n - 1
      PROVE  ToCome(parts, k) = parts[k + 1] \o ToCome(parts, k + 1)
  <2> DEFINE l == k + 1
             a == Rest(k)
             s == Rest(l)
             m == n - k
  <2>1. k \in 0 .. n /\ l \in 0 .. n /\ m \in Nat /\ m >= 1 /\ n - l = m - 1 /\ k \in Nat /\ l \in Nat
    BY <1>0
  <2>2. a \in Seq(Seq(S)) /\ Len(a) = m /\ \A i \in 1 .. m : a[i] = parts[k + i]
    BY <1>1, <2>1
  <2>3. s \in Seq(Seq(S)) /\ Len(s) = n - l /\ \A i \in 1 .. n - l : s[i] = parts[l + i]
    BY <1>1, <2>1
  <2>4. ToCome(parts, k) = FlattenSeq(a) /\ ToCome(parts, k + 1) = FlattenSeq(s)
    BY DEF ToCome
  <2> HIDE DEF s, a, m, n
  <2>5. Len(a) = Len(s) + 1 /\ \A i \in 1 .. Len(s) : a[i + 1] = s[i]
    <3>1. \A i \in 1 .. n - l : i + 1 \in 1 .. m /\ k + (i + 1) = l + i
      BY <1>0, <2>1
    <3>2. ASSUME NEW i \in 1 .. n - l
          PROVE  a[i + 1] = s[i]
      <4>1. a[i + 1] = parts[k + (i + 1)]
        BY <2>2, <3>1
      <4> QED BY <2>3, <3>1, <4>1
    <3> QED BY <2>1, <2>2, <2>3, <3>2
  <2>6. FlattenSeq(a) = a[1] \o FlattenSeq(s)
    BY <2>2, <2>3, <2>5, FlattenFirst
  <2>7. a[1] = parts[k + 1]
    BY <2>1, <2>2
  <2> QED BY <2>4, <2>6, <2>7
<1> QED BY <1>2, <1>3, <1>4

\* With one more at the end.
LEMMA RowGrows ==
  ASSUME NEW S, NEW parts \in Seq(Seq(S)), NEW x \in Seq(S)
  PROVE  LET all == Append(parts, x)
         IN  /\ \A k \in 0 .. Len(parts) : Gone(all, k) = Gone(parts, k)
             /\ \A k \in 0 .. Len(parts) : ToCome(all, k) = ToCome(parts, k) \o x
<1> DEFINE n == Len(parts)
           all == Append(parts, x)
<1>1. n \in Nat /\ all \in Seq(Seq(S)) /\ Len(all) = n + 1 /\ all[n + 1] = x
      /\ \A i \in 1 .. n : all[i] = parts[i]
  OBVIOUS
<1>6. /\ \A a \in Seq(S) : a \o <<>> = a /\ <<>> \o a = a
      /\ \A a, b, c \in Seq(S) : a \o (b \o c) = (a \o b) \o c
  OBVIOUS
<1> HIDE DEF n, all
<1>2. ASSUME NEW k \in 0 .. n
      PROVE  Gone(all, k) = Gone(parts, k)
  <2>1. \A i \in 1 .. k : all[i] = parts[i]
    BY <1>1
  <2>2. [i \in 1 .. k |-> all[i]] = [i \in 1 .. k |-> parts[i]]
    BY <2>1
  <2> QED BY <2>2 DEF Gone
<1>3. /\ ToCome(parts, n) = <<>> /\ ToCome(all, n + 1) = <<>>
      /\ \A k \in 0 .. n : ToCome(parts, k) \in Seq(S) /\ ToCome(all, k) \in Seq(S)
      /\ \A k \in 0 .. n - 1 : ToCome(parts, k) = parts[k + 1] \o ToCome(parts, k + 1)
      /\ \A k \in 0 .. n : ToCome(all, k) = all[k + 1] \o ToCome(all, k + 1)
  <2>1. /\ ToCome(parts, Len(parts)) = <<>>
        /\ \A k \in 0 .. Len(parts) : ToCome(parts, k) \in Seq(S)
        /\ \A k \in 0 .. Len(parts) - 1 : ToCome(parts, k) = parts[k + 1] \o ToCome(parts, k + 1)
    BY AheadOn
  <2>2. /\ ToCome(all, Len(all)) = <<>>
        /\ \A k \in 0 .. Len(all) : ToCome(all, k) \in Seq(S)
        /\ \A k \in 0 .. Len(all) - 1 : ToCome(all, k) = all[k + 1] \o ToCome(all, k + 1)
    BY <1>1, AheadOn
  <2>3. \A k \in 0 .. n : k \in 0 .. n + 1 /\ k \in 0 .. (n + 1) - 1
    BY <1>1
  <2> QED BY <1>1, <2>1, <2>2, <2>3 DEF n
<1> DEFINE T == {i \in 0 .. n : ToCome(all, n - i) = ToCome(parts, n - i) \o x}
<1>4. 0 .. n \subseteq T
  <2>1. 0 \in T
    <3>4. n \in 0 .. n
      BY <1>1
    <3>1. ToCome(all, n) = x \o <<>>
      BY <1>1, <1>3, <3>4, Zenon
    <3>2. x \o <<>> = x /\ <<>> \o x = x
      BY <1>6
    <3>3. n - 0 = n /\ 0 \in 0 .. n
      BY <1>1
    <3> QED BY <1>3, <3>1, <3>2, <3>3
  <2>2. ASSUME NEW i \in 0 .. n - 1, i \in T
        PROVE  i + 1 \in T
    <3> DEFINE k == n - (i + 1)
               a == ToCome(parts, k + 1)
               b == ToCome(all, k + 1)
    <3>1. k \in 0 .. n - 1 /\ k \in 0 .. n /\ k + 1 = n - i /\ k + 1 \in 1 .. n /\ i + 1 \in 0 .. n
          /\ k + 1 \in 0 .. n
      BY <1>1
    <3>2. b = a \o x
      BY <2>2, <3>1
    <3> HIDE DEF k
    <3>3. ToCome(parts, k) = parts[k + 1] \o a /\ ToCome(all, k) = all[k + 1] \o b
      BY <1>3, <3>1
    <3>4. all[k + 1] = parts[k + 1] /\ parts[k + 1] \in Seq(S) /\ a \in Seq(S)
      BY <1>1, <1>3, <3>1 DEF n
    <3> DEFINE p == parts[k + 1]
    <3> HIDE DEF a, b, p
    <3>5. p \o (a \o x) = (p \o a) \o x
      BY <1>6, <3>4, Zenon DEF p
    <3>6. ToCome(all, k) = ToCome(parts, k) \o x
      BY <3>2, <3>3, <3>4, <3>5 DEF p
    <3> QED BY <3>1, <3>6 DEF k
  <2> HIDE DEF T
  <2> QED BY <1>1, <2>1, <2>2, UpTo
<1>5. ASSUME NEW k \in 0 .. n
      PROVE  ToCome(all, k) = ToCome(parts, k) \o x
  <2>1. n - k \in 0 .. n /\ n - (n - k) = k
    BY <1>1
  <2>2. n - k \in T
    BY <1>4, <2>1
  <2> QED BY <2>1, <2>2
<1> QED BY <1>2, <1>5 DEF n, all

\* Both together are as long as all.
LEMMA RowCounts ==
  ASSUME NEW S, NEW parts \in Seq(Seq(S))
  PROVE  \A k \in 0 .. Len(parts) :
           Len(Gone(parts, k)) + Len(ToCome(parts, k)) = Len(Gone(parts, Len(parts)))
<1> DEFINE n == Len(parts)
           all == Len(ToCome(parts, 0))
           T == {k \in 0 .. n : Len(Gone(parts, k)) + Len(ToCome(parts, k)) = all}
<1>1. n \in Nat
  OBVIOUS
<1>2. /\ \A k \in 0 .. n : ToCome(parts, k) \in Seq(S)
      /\ \A k \in 0 .. n - 1 : ToCome(parts, k) = parts[k + 1] \o ToCome(parts, k + 1)
      /\ ToCome(parts, n) = <<>>
  BY AheadOn
<1>3. /\ Gone(parts, 0) = <<>>
      /\ \A k \in 0 .. n : Gone(parts, k) \in Seq(S)
      /\ \A k \in 0 .. n - 1 : Gone(parts, k + 1) = Gone(parts, k) \o parts[k + 1]
  BY GoneOn
<1>4. \A k \in 1 .. n : parts[k] \in Seq(S)
  OBVIOUS
<1> HIDE DEF n
<1>5. 0 .. n \subseteq T
  <2>1. 0 \in T
    <3>1. 0 \in 0 .. n
      BY <1>1
    <3>2. ToCome(parts, 0) \in Seq(S)
      BY <1>2, <3>1
    <3>3. Len(Gone(parts, 0)) + Len(ToCome(parts, 0)) = all
      <4> HIDE DEF Gone, ToCome
      <4> QED BY <1>3, <3>2
    <3> QED BY <3>1, <3>3
  <2>2. ASSUME NEW k \in 0 .. n - 1, k \in T
        PROVE  k + 1 \in T
    <3> DEFINE l == k + 1
               a == ToCome(parts, k)
               b == ToCome(parts, l)
               g == Gone(parts, k)
               h == Gone(parts, l)
               p == parts[l]
    <3>1. l \in 0 .. n /\ k \in 0 .. n /\ l \in 1 .. n
      BY <1>1
    <3>2. a \in Seq(S) /\ b \in Seq(S) /\ g \in Seq(S) /\ h \in Seq(S) /\ p \in Seq(S)
      BY <1>2, <1>3, <1>4, <3>1
    <3>3. a = p \o b /\ h = g \o p /\ Len(g) + Len(a) = all
      BY <1>2, <1>3, <2>2
    <3> HIDE DEF a, b, g, h, p, all
    <3>4. Len(a) = Len(p) + Len(b) /\ Len(h) = Len(g) + Len(p)
      BY <3>2, <3>3
    <3>5. Len(p) \in Nat /\ Len(b) \in Nat /\ Len(g) \in Nat
      BY <3>2
    <3>6. Len(h) + Len(b) = all
      BY <3>3, <3>4, <3>5
    <3> QED BY <3>1, <3>6 DEF h, b, l
  <2> HIDE DEF T
  <2> QED BY <1>1, <2>1, <2>2, UpTo
<1>6. Len(Gone(parts, n)) = all
  <2>1. n \in T
    BY <1>1, <1>5
  <2>2. Len(ToCome(parts, n)) = 0 /\ Gone(parts, n) \in Seq(S)
    BY <1>1, <1>2, <1>3
  <2>3. Len(Gone(parts, n)) \in Nat
    BY <2>2
  <2> QED BY <2>1, <2>2, <2>3
<1> QED BY <1>5, <1>6 DEF n

\* Rows whose parts are of the same lengths are as long as each other.
LEMMA GoneAlike ==
  ASSUME NEW S, NEW R, NEW parts \in Seq(Seq(S)), NEW others \in Seq(Seq(R)),
         Len(others) = Len(parts), \A i \in 1 .. Len(parts) : Len(others[i]) = Len(parts[i]),
         NEW k \in 0 .. Len(parts)
  PROVE  Len(Gone(others, k)) = Len(Gone(parts, k))
<1> DEFINE n == Len(parts)
           T == {j \in 0 .. n : Len(Gone(others, j)) = Len(Gone(parts, j))}
<1>1. n \in Nat /\ \A j \in 1 .. n : parts[j] \in Seq(S) /\ others[j] \in Seq(R)
  OBVIOUS
<1>2. /\ Gone(parts, 0) = <<>>
      /\ \A j \in 0 .. n : Gone(parts, j) \in Seq(S)
      /\ \A j \in 0 .. n - 1 : Gone(parts, j + 1) = Gone(parts, j) \o parts[j + 1]
  BY GoneOn
<1>3. /\ Gone(others, 0) = <<>>
      /\ \A j \in 0 .. Len(others) : Gone(others, j) \in Seq(R)
      /\ \A j \in 0 .. Len(others) - 1 : Gone(others, j + 1) = Gone(others, j) \o others[j + 1]
  BY GoneOn
<1>4. 0 .. n \subseteq T
  <2>1. 0 \in T
    <3>1. 0 \in 0 .. n
      BY <1>1
    <3>2. Gone(parts, 0) = Gone(others, 0)
      BY <1>2, <1>3, Zenon
    <3> QED BY <3>1, <3>2
  <2>2. ASSUME NEW j \in 0 .. n - 1, j \in T
        PROVE  j + 1 \in T
    <3> DEFINE l == j + 1
               g == Gone(parts, j)
               h == Gone(others, j)
               p == parts[l]
               o == others[l]
    <3>1. l \in 1 .. n /\ l \in 0 .. n /\ j \in 0 .. n
      BY <1>1
    <3>2. Gone(parts, l) = g \o p /\ Gone(others, l) = h \o o
      BY <1>2, <1>3
    <3>3. g \in Seq(S) /\ p \in Seq(S) /\ h \in Seq(R) /\ o \in Seq(R)
      BY <1>1, <1>2, <1>3, <3>1
    <3>4. Len(g) = Len(h) /\ Len(p) = Len(o)
      BY <2>2, <3>1
    <3> HIDE DEF g, h, p, o, l
    <3>5. Len(g \o p) = Len(g) + Len(p)
      BY <3>3
    <3>6. Len(h \o o) = Len(h) + Len(o)
      BY <3>3
    <3>7. Len(Gone(others, l)) = Len(Gone(parts, l))
      BY <3>2, <3>4, <3>5, <3>6, Zenon
    <3> QED BY <3>1, <3>7 DEF l
  <2> HIDE DEF T
  <2> QED BY <1>1, <2>1, <2>2, UpTo
<1> QED BY <1>4
=============================================================================
