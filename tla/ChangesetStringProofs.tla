------------------------ MODULE ChangesetStringProofs ------------------------
(***************************************************************************)
(* The types of fromString, and that its loop ends, for every string: each *)
(* iteration finds its operation at or behind the position, an operation   *)
(* has two characters or more, none reaches beyond the string, and what is *)
(* behind its operator is read as a number of 64 bits, of which 32 are kept.*)
(***************************************************************************)
EXTENDS ChangesetString, SequenceLemmas

----------------------------------------------------------------------------
(* Numbers.                                                                *)

\* The characters strtoul reads as digits; Z is one of them.
Digits == WordChar \ {"_"}

\* The alphabet of base36 has 36 places.
LEMMA DigitType ==
  ASSUME NEW c \in Digits
  PROVE  DigitValue(c) \in Nat
<1>1. Len(Base36) = 36 /\ DOMAIN Base36 = 1 .. 36
  BY DEF Base36
<1>2. CASE c = "Z"
  BY <1>2 DEF DigitValue
<1>3. CASE c # "Z"
  <2>1. c \in ToSet(Base36)
    BY <1>3 DEF Digits, WordChar
  <2>2. PICK place \in 1 .. 36 : Base36[place] = c
    <3> HIDE DEF Base36
    <3> QED BY <1>1, <2>1 DEF ToSet
  <2> DEFINE e == CHOOSE d \in 1 .. 36 : Base36[d] = c
  <2>3. e \in 1 .. 36
    BY <2>2
  <2> HIDE DEF e
  <2>4. e - 1 \in Nat
    BY <2>3
  <2> QED BY <1>3, <2>4 DEF DigitValue, e
<1> QED BY <1>2, <1>3

\* What the number of a word's values is good for.
LEMMA RadixFacts ==
  /\ Radix \in Nat /\ Radix > 0 /\ MaxInt \in Nat /\ 2 * MaxInt = Radix * Radix - 2
  /\ \A s \in Nat : s \div Radix \in Nat /\ s % Radix \in Nat /\ s % Radix <= Radix - 1
BY SMT DEF Radix, MaxInt

\* A digit more is a number of 64 bits again.
LEMMA AddDigitType ==
  ASSUME NEW v \in Quint64, NEW d \in Nat
  PROVE  AddDigit(v, d) \in Quint64
<1> DEFINE s1 == 36 * v[1] + d
           s2 == 36 * v[2] + s1 \div Radix
           s3 == 36 * v[3] + s2 \div Radix
           s4 == 36 * v[4] + s3 \div Radix
<1>1. v[1] \in Nat /\ v[2] \in Nat /\ v[3] \in Nat /\ v[4] \in Nat
  BY RadixFacts, SMT DEF Quint64, Word
<1>2. \A s \in Nat : s \div Radix \in Nat /\ s % Radix \in Word
  BY RadixFacts, SMT DEF Word
<1>3. \A k \in Nat, s \in Nat : 36 * k + s \in Nat
  BY SMT
<1>4. s1 \in Nat
  BY <1>1, <1>3, SMT
<1> HIDE DEF s1
<1>5. s2 \in Nat
  BY <1>1, <1>2, <1>3, <1>4, SMT
<1> HIDE DEF s2
<1>6. s3 \in Nat
  BY <1>1, <1>2, <1>3, <1>5, SMT
<1> HIDE DEF s3
<1>7. s4 \in Nat
  BY <1>1, <1>2, <1>3, <1>6, SMT
<1> HIDE DEF s4
<1>8. s1 % Radix \in Word /\ s2 % Radix \in Word /\ s3 % Radix \in Word
  BY <1>2, <1>4, <1>5, <1>6, SMT
<1>9. AddDigit(v, d) = IF s4 >= Radix THEN ULongMax
                       ELSE <<s1 % Radix, s2 % Radix, s3 % Radix, s4>>
  BY SMT DEF AddDigit, s1, s2, s3, s4
<1>10. ULongMax \in Quint64
  BY RadixFacts, SMT DEF ULongMax, Quint64, Word
<1>11. s4 >= Radix \/ s4 \in Word
  BY <1>7, RadixFacts, SMT DEF Word
<1>12. \A x1, x2, x3, x4 \in Word : <<x1, x2, x3, x4>> \in Quint64
  BY SMT DEF Quint64
<1>13. CASE s4 >= Radix
  BY <1>9, <1>10, <1>13, SMT
<1>14. CASE ~(s4 >= Radix)
  BY <1>8, <1>9, <1>11, <1>12, <1>14, SMT
<1> QED BY <1>13, <1>14, SMT

\* Digits are read as a number of 64 bits.
LEMMA DigitsAdd ==
  ASSUME NEW digits \in Seq(Digits)
  PROVE  FoldLeft(LAMBDA value, c : AddDigit(value, DigitValue(c)), Zero, digits) \in Quint64
<1> DEFINE n == Len(digits)
           Is(it) == it = [s \in SUBSET (DOMAIN digits) |->
                             IF s = {} THEN Zero
                             ELSE LET x == Max(s)
                                  IN  AddDigit(it[s \ {x}], DigitValue(digits[x]))]
           it == CHOOSE f : Is(f)
           Step(k, c) == AddDigit(k, DigitValue(c))
           h == [p \in Quint64 \X Digits |-> Step(p[1], p[2])]
<1>1. n \in Nat /\ DOMAIN digits = 1 .. n /\ \A i \in 1 .. n : digits[i] \in Digits
  OBVIOUS
<1>2. FoldLeft(LAMBDA value, c : AddDigit(value, DigitValue(c)), Zero, digits) = it[DOMAIN digits]
  BY Zenon DEF FoldLeft, MapThenFoldSet
<1>3. h \in [Quint64 \X Digits -> Quint64] /\ \A k \in Quint64, c \in Digits : h[<<k, c>>] = AddDigit(k, DigitValue(c))
  <2>1. \A k \in Quint64, c \in Digits : Step(k, c) \in Quint64
    BY DigitType, AddDigitType
  <2> HIDE DEF Step
  <2>2. h \in [Quint64 \X Digits -> Quint64] /\ \A k \in Quint64, c \in Digits : h[<<k, c>>] = Step(k, c)
    BY <2>1
  <2> QED BY <2>2 DEF Step
<1> HIDE DEF h
<1>4. IsFold(Quint64, Digits, Zero, digits, h)
  <2>1. Zero \in Quint64
    BY RadixFacts, SMT DEF Zero, Quint64, Word
  <2> QED BY <1>3, <2>1 DEF IsFold
<1>5. PICK f : Folds(f, Quint64, Zero, digits, h)
  BY <1>4, FoldExists
<1>6. Is(f)
  <2>1. f \in [SUBSET (1 .. n) -> Quint64] /\ \A s \in SUBSET (1 .. n) : s = {} => f[s] = Zero
    BY <1>5 DEF Folds
  <2>2. ASSUME NEW s \in SUBSET (1 .. n), s # {}
        PROVE  f[s] = AddDigit(f[s \ {Max(s)}], DigitValue(digits[Max(s)]))
    <3>1. Max(s) \in 1 .. n
      BY <1>1, <2>2, GreatestMember
    <3>2. f[s \ {Max(s)}] \in Quint64 /\ digits[Max(s)] \in Digits
      BY <1>1, <2>1, <3>1
    <3>3. f[s] = h[<<f[s \ {Max(s)}], digits[Max(s)]>>]
      BY <1>5, <2>2 DEF Folds
    <3> QED BY <1>3, <3>2, <3>3
  <2> QED BY <1>1, <2>1, <2>2, Zenon
<1>7. Is(it)
  <2> HIDE DEF Is
  <2> QED BY <1>6
<1> HIDE DEF it
<1>8. Loops(it, Quint64, Zero, digits, h)
  <2>1. it[{}] = Zero
    BY <1>7
  <2>2. ASSUME NEW s \in SUBSET (1 .. n), s # {}, it[s \ {Max(s)}] \in Quint64
        PROVE  it[s] = h[<<it[s \ {Max(s)}], digits[Max(s)]>>]
    <3>1. it[s] = AddDigit(it[s \ {Max(s)}], DigitValue(digits[Max(s)]))
      BY <1>1, <1>7, <2>2, Zenon
    <3>2. digits[Max(s)] \in Digits
      BY <1>1, <2>2, GreatestMember
    <3> QED BY <1>3, <2>2, <3>1, <3>2
  <2> QED BY <2>1, <2>2 DEF Loops
<1>9. PICK F : Runs(F, Quint64, Zero, digits, h) /\ F[n] = it[1 .. n]
  BY <1>4, <1>8, FoldRuns
<1>10. F[n] \in Quint64
  BY <1>1, <1>9 DEF Runs
<1> QED BY <1>1, <1>2, <1>9, <1>10

\* So is a string of \w characters.

LEMMA NumberType ==
  ASSUME NEW text \in Seq(WordChar)
  PROVE  Base36Dec(text) \in Quint64
<1> DEFINE n == Len(text)
           Digit(k) == text[k] # "_"
           digits == {m \in 0 .. n : \A k \in 1 .. m : Digit(k)}
           Most(m) == \A l \in digits : l <= m
           last == CHOOSE m \in digits : Most(m)
           Ends == {k \in Nat : k <= n /\ (k = n \/ ~Digit(k + 1))}
<1>1. n \in Nat
  OBVIOUS
<1>2. Base36Dec(text) = FoldLeft(LAMBDA value, c : AddDigit(value, DigitValue(c)), Zero, Left(text, last))
  BY DEF Base36Dec
<1> HIDE DEF n, Digit
<1>3. PICK e \in Nat : /\ e <= n /\ (e = n \/ ~Digit(e + 1))
                       /\ \A y \in Nat : y <= n /\ (y = n \/ ~Digit(y + 1)) => e <= y
  <2>1. n \in Ends /\ Ends \subseteq Nat
    BY <1>1
  <2>2. PICK e \in Ends : \A y \in Ends : e <= y
    <3> HIDE DEF Ends
    <3> QED BY <2>1, LeastMember
  <2> QED BY <2>2
<1>4. ASSUME NEW k \in 1 .. e
      PROVE  Digit(k)
  <2> DEFINE j == k - 1
  <2>1. j \in Nat /\ j <= n /\ ~(e <= j) /\ j + 1 = k
    BY <1>1, <1>3
  <2> HIDE DEF j
  <2> QED BY <1>3, <2>1
<1>5. e \in digits
  BY <1>1, <1>3, <1>4
<1>6. ASSUME NEW l \in digits
      PROVE  l <= e
  <2>1. l \in 0 .. n /\ \A k \in 1 .. l : Digit(k)
    OBVIOUS
  <2>2. ~(l <= e) => e + 1 \in 1 .. l /\ e # n
    BY <1>1, <1>3, <2>1
  <2> QED BY <1>3, <2>1, <2>2
<1>7. last \in digits
  <2>1. Most(e)
    BY <1>6
  <2> HIDE DEF digits, Most
  <2> QED BY <1>5, <2>1
<1> HIDE DEF last
<1>8. last \in Nat /\ last <= n /\ \A k \in 1 .. last : Digit(k)
  BY <1>1, <1>7
<1>9. Left(text, last) = SubSeq(text, 1, last)
  <2>1. (IF last < Len(text) THEN last ELSE Len(text)) = last
    BY <1>1, <1>8 DEF n
  <2> QED BY <2>1 DEF Left
<1>10. \A i \in 1 .. last : text[i] \in Digits
  <2> TAKE i \in 1 .. last
  <2>1. i \in 1 .. Len(text)
    BY <1>1, <1>8 DEF n
  <2>2. text[i] \in WordChar
    BY <2>1
  <2> QED BY <1>8, <2>2 DEF Digit, Digits
<1>11. SubSeq(text, 1, last) \in Seq(Digits)
  BY <1>1, <1>8, <1>10 DEF n
<1> QED BY <1>2, <1>9, <1>11, DigitsAdd

\* What is kept of it is an int,
LEMMA ToIntType ==
  ASSUME NEW v \in Quint64
  PROVE  ToInt(v) \in Int32
<1> DEFINE high == IF 2 * v[2] < Radix THEN v[2] ELSE v[2] - Radix
<1>1. /\ v[1] \in Int /\ 0 <= v[1] /\ v[1] <= Radix - 1
      /\ v[2] \in Int /\ 0 <= v[2] /\ v[2] <= Radix - 1
  BY RadixFacts, SMT DEF Quint64, Word
<1>2. Radix = 2 * 32768
  BY SMT DEF Radix
<1>3. high \in Int /\ -Radix <= 2 * high /\ 2 * high <= Radix - 2
  BY <1>1, <1>2, SMT
<1>4. ToInt(v) = Radix * high + v[1]
  BY DEF ToInt
<1> HIDE DEF high
<1> DEFINE n == Radix * high + v[1]
<1>5. n \in Int /\ -MaxInt - 1 <= n /\ n <= MaxInt
  BY <1>1, <1>3, SMT DEF Radix, MaxInt
<1> HIDE DEF n
<1>6. n \in Int32
  BY <1>5, RadixFacts, SMT DEF Int32, MinInt
<1> QED BY <1>4, <1>6 DEF n

LEMMA SmallNumbers == 0 \in Int32 /\ -1 \in Int32
BY RadixFacts DEF Int32, MinInt

\* and so is a sum or a difference, wrapped.
LEMMA SumType ==
  ASSUME NEW a \in Int32, NEW b \in Int32
  PROVE  Plus(a, b) \in Int32 /\ Minus(a, b) \in Int32
<1>1. /\ MaxInt \in Nat /\ MinInt = -MaxInt - 1
      /\ a \in Int /\ MinInt <= a /\ a <= MaxInt
      /\ b \in Int /\ MinInt <= b /\ b <= MaxInt
  BY RadixFacts DEF Int32, MinInt
<1>2. Plus(a, b) \in Int32
  BY <1>1 DEF Plus, Int32
<1>3. Minus(a, b) \in Int32
  BY <1>1 DEF Minus, Int32
<1> QED BY <1>2, <1>3

----------------------------------------------------------------------------
(* The search.                                                             *)

\* \w+ ends somewhere: at the end of the string, or before the first character
\* that is no letter.
LEMMA WordEndFound ==
  ASSUME NEW s \in Text, NEW i \in Nat \ {0}, i <= Len(s) + 1
  PROVE  /\ WordEnd(s, i) \in i - 1 .. Len(s)
         /\ \A k \in i .. WordEnd(s, i) : s[k] \in WordChar
         /\ i <= Len(s) /\ s[i] \in WordChar => i <= WordEnd(s, i)
<1> DEFINE Ends  == {e \in Nat : i - 1 <= e /\ e <= Len(s) /\ (e = Len(s) \/ s[e + 1] \notin WordChar)}
           Is(e) == /\ \A k \in i .. e : s[k] \in WordChar
                    /\ e = Len(s) \/ s[e + 1] \notin WordChar
<1>1. Len(s) \in Nat
  BY DEF Text
<1>2. Len(s) \in Ends
  BY <1>1
<1>3. PICK e \in Ends : \A y \in Ends : e <= y
  BY <1>2, LeastMember
<1>4. ASSUME NEW k \in i .. e
      PROVE  s[k] \in WordChar
  <2>1. e \in Nat /\ e <= Len(s)
    BY <1>3
  <2>2. k - 1 \in Nat /\ i - 1 <= k - 1 /\ k - 1 <= Len(s) /\ ~(e <= k - 1)
    BY <1>1, <1>4, <2>1
  <2>3. k - 1 \notin Ends
    <3> HIDE DEF Ends
    <3> QED
      BY <1>3, <2>2
  <2> QED
    BY <1>1, <1>4, <2>1, <2>2, <2>3
<1>5. e \in i - 1 .. Len(s) /\ Is(e)
  BY <1>1, <1>3, <1>4
<1>6. WordEnd(s, i) = CHOOSE x \in i - 1 .. Len(s) : Is(x)
  BY DEF WordEnd
<1> HIDE DEF Ends
<1>7. WordEnd(s, i) \in i - 1 .. Len(s) /\ Is(WordEnd(s, i))
  <2> HIDE DEF Is
  <2> QED
    BY <1>5, <1>6
<1> QED
  BY <1>1, <1>7

\* What the search finds begins at or behind the position, and is an operator
\* and a character of a number at least.
LEMMA FirstOpFound ==
  ASSUME NEW s \in Text, NEW p \in Nat, OpStarts(s, p) # {}
  PROVE  Len(FirstOp(s, p)) \in Nat /\ Len(FirstOp(s, p)) >= 2 /\ p + Len(FirstOp(s, p)) <= Len(s)
<1> DEFINE first == CHOOSE k \in OpStarts(s, p) : \A j \in OpStarts(s, p) : k <= j
<1>1. Len(s) \in Nat /\ OpStarts(s, p) \subseteq Nat
  BY DEF OpStarts, Text
<1>2. first \in OpStarts(s, p)
  BY <1>1, LeastMember
<1>3. FirstOp(s, p) = SubSeq(s, first, WordEnd(s, first + 1))
  BY DEF FirstOp
<1> HIDE DEF first
<1>4. first \in Nat /\ p + 1 <= first /\ first <= Len(s) - 1 /\ s[first + 1] \in WordChar
  BY <1>1, <1>2 DEF OpStarts
<1>5. WordEnd(s, first + 1) \in first + 1 .. Len(s)
  BY <1>1, <1>4, WordEndFound
<1>6. Len(FirstOp(s, p)) = WordEnd(s, first + 1) - first + 1
  BY <1>1, <1>3, <1>4, <1>5 DEF Text
<1> QED
  BY <1>1, <1>4, <1>5, <1>6

\* What is behind the operator consists of letters.
LEMMA NumberFound ==
  ASSUME NEW s \in Text, NEW p \in Nat, OpStarts(s, p) # {}
  PROVE  Tail(FirstOp(s, p)) \in Seq(WordChar)
<1> DEFINE first == CHOOSE k \in OpStarts(s, p) : \A j \in OpStarts(s, p) : k <= j
<1>1. Len(s) \in Nat /\ OpStarts(s, p) \subseteq Nat
  BY DEF OpStarts, Text
<1>2. first \in OpStarts(s, p)
  BY <1>1, LeastMember
<1>3. FirstOp(s, p) = SubSeq(s, first, WordEnd(s, first + 1))
  BY DEF FirstOp
<1> HIDE DEF first
<1>4. first \in Nat /\ 1 <= first /\ first <= Len(s) - 1
  BY <1>1, <1>2 DEF OpStarts
<1> DEFINE end == WordEnd(s, first + 1)
           number == Tail(SubSeq(s, first, end))
<1>5. end \in first .. Len(s) /\ \A k \in first + 1 .. end : s[k] \in WordChar
  BY <1>1, <1>4, WordEndFound
<1>6. number = [i \in 1 .. end - first |-> s[first + i]]
  <2> HIDE DEF end
  <2> QED BY <1>4, <1>5 DEF Text
<1>7. \A i \in 1 .. end - first : s[first + i] \in WordChar
  <2> HIDE DEF end
  <2> TAKE i \in 1 .. end - first
  <2>1. first + i \in first + 1 .. end
    BY <1>4, <1>5
  <2> QED BY <1>5, <2>1
<1> QED
  <2>1. end - first \in Nat
    BY <1>4, <1>5
  <2> HIDE DEF end, number
  <2>2. number \in Seq(WordChar)
    BY <1>6, <1>7, <2>1
  <2> QED BY <1>3, <2>2 DEF number, end

\* A part of a string that has letters only.
LEMMA LettersOnly ==
  ASSUME NEW s \in Text, NEW i \in Nat \ {0}, NEW e \in i - 1 .. Len(s),
         \A k \in i .. e : s[k] \in WordChar
  PROVE  SubSeq(s, i, e) \in Seq(WordChar)
<1>1. Len(s) \in Nat /\ e \in Int
  BY DEF Text
<1>2. SubSeq(s, i, e) = [k \in 1 .. e - i + 1 |-> s[i + k - 1]]
  BY <1>1 DEF Text
<1>3. e - i + 1 \in Nat /\ \A k \in 1 .. e - i + 1 : i + k - 1 \in i .. e
  BY <1>1
<1>4. \A k \in 1 .. e - i + 1 : s[i + k - 1] \in WordChar
  BY <1>3
<1> QED BY <1>2, <1>3, <1>4

\* The two numbers in front.
LEMMA SizesFound ==
  ASSUME NEW s \in Text, SizesMatch(s)
  PROVE  LET sign == WordEnd(s, 3) + 1
             end  == WordEnd(s, sign + 1)
         IN  /\ SubSeq(s, 3, sign - 1) \in Seq(WordChar)
             /\ SubSeq(s, sign + 1, end) \in Seq(WordChar)
             /\ end \in 0 .. Len(s)
<1> DEFINE w == WordEnd(s, 3)
           sign == w + 1
           next == w + 2
           end == WordEnd(s, next)
<1>1. Len(s) \in Nat
  BY DEF Text
<1>2. Len(s) >= 2
  <2>1. Left(s, 2) = <<"Z", ":">>
    BY DEF SizesMatch
  <2> QED
    BY <1>1, <2>1 DEF Left, Text
<1>3. w \in 2 .. Len(s) /\ \A k \in 3 .. w : s[k] \in WordChar
  <2>1. 3 \in Nat \ {0} /\ 3 <= Len(s) + 1 /\ 3 - 1 = 2
    BY <1>1, <1>2
  <2> QED BY <2>1, WordEndFound
<1>4. sign < Len(s)
  BY DEF SizesMatch
<1> HIDE DEF w
<1>5. next \in Nat \ {0} /\ next <= Len(s) + 1 /\ next = sign + 1 /\ sign - 1 = w
  BY <1>1, <1>3, <1>4
<1> HIDE DEF next
<1>6. end \in next - 1 .. Len(s) /\ \A k \in next .. end : s[k] \in WordChar
  BY <1>5, WordEndFound
<1>7. SubSeq(s, 3, w) \in Seq(WordChar)
  <2>1. 3 \in Nat \ {0} /\ w \in 3 - 1 .. Len(s)
    BY <1>3
  <2> QED BY <1>3, <2>1, LettersOnly
<1> HIDE DEF end
<1>8. SubSeq(s, next, end) \in Seq(WordChar)
  BY <1>5, <1>6, LettersOnly
<1>9. end \in 0 .. Len(s)
  BY <1>1, <1>5, <1>6
<1>10. end = WordEnd(s, sign + 1)
  BY <1>5 DEF end
<1> QED BY <1>5, <1>7, <1>8, <1>9, <1>10 DEF w

----------------------------------------------------------------------------
(* The loop.                                                               *)

ReadOps == [kind : {KeepChars, InsertChars, SkipOverChars}, opLength : Int32,
            newlines : Int32, attrib : Int32]

ReadChangesets == [oldLength : Int32, newLength : Int32, ops : Seq(ReadOps), bank : Text]

\* The inductive invariant: the string is one, the position is in it, and what
\* has been read and what is pending has its type.
Reading ==
  /\ str \in Text /\ pos \in 0 .. Len(str)
  /\ newLines \in Int32 /\ attrib \in Int32
  /\ changeset \in ReadChangesets
  /\ pc \in {"sizes", "ops", "done"}

LEMMA InitReading == Init => Reading
<1> SUFFICES ASSUME Init PROVE Reading
  OBVIOUS
<1>1. str \in Text
  BY StringsAreTexts DEF Init
<1>2. Len(str) \in Nat
  BY <1>1 DEF Text
<1>3. <<>> \in Seq(ReadOps) /\ <<>> \in Text
  BY DEF Text
<1>4. NoChangeset \in ReadChangesets
  BY <1>3, SmallNumbers DEF NoChangeset, MakeChangeset, ReadChangesets
<1> QED BY <1>1, <1>2, <1>4, SmallNumbers DEF Init, Reading

\* Reading an operation or what waits for one.
LEMMA ReadOpReading == Reading /\ ReadOp => Reading'
<1> SUFFICES ASSUME Reading, ReadOp PROVE Reading'
  OBVIOUS
<1> DEFINE op == FirstOp(str, pos)
           value == ToInt(Base36Dec(Tail(op)))
<1>1. str \in Text /\ Len(str) \in Nat /\ pos \in Nat /\ OpStarts(str, pos) # {}
  BY DEF Reading, ReadOp, Text
<1>2. value \in Int32
  BY <1>1, NumberFound, NumberType, ToIntType
<1>3. Len(op) \in Nat /\ Len(op) >= 2 /\ pos + Len(op) <= Len(str)
  BY <1>1, FirstOpFound
<1>4. TakeOp(op[1], value) /\ pos' = pos + Len(op) /\ str' = str /\ pc' = pc
  BY DEF ReadOp, Passed
<1> HIDE DEF op, value
<1>5. pos' \in 0 .. Len(str')
  BY <1>1, <1>3, <1>4
<1>6. /\ newLines' \in Int32 /\ attrib' \in Int32
      /\ changeset' \in ReadChangesets
  <2> DEFINE c == op[1]
  <2>1. CASE newLines' = Plus(IF newLines = -1 THEN 0 ELSE newLines, value) /\ UNCHANGED <<attrib, changeset>>
    <3> DEFINE before == IF newLines = -1 THEN 0 ELSE newLines
    <3>1. before \in Int32
      BY SmallNumbers DEF Reading
    <3> HIDE DEF before
    <3>2. Plus(before, value) \in Int32
      BY <1>2, <3>1, SumType
    <3>3. newLines' \in Int32
      BY <2>1, <3>2 DEF before
    <3> QED BY <2>1, <3>3 DEF Reading
  <2>2. CASE attrib' = value /\ UNCHANGED <<newLines, changeset>>
    BY <1>2, <2>2 DEF Reading
  <2>3. CASE /\ c \in {KeepChars, InsertChars, SkipOverChars}
             /\ changeset' = [changeset EXCEPT !.ops = Append(@, Op(c, value, newLines, attrib))]
             /\ newLines' = -1 /\ attrib' = -1
    <3> DEFINE o == Op(c, value, newLines, attrib)
               all == Append(changeset.ops, o)
    <3>1. o \in ReadOps
      BY <1>2, <2>3 DEF Op, ReadOps, Reading
    <3> HIDE DEF o
    <3>2. all \in Seq(ReadOps)
      BY <3>1 DEF Reading, ReadChangesets
    <3>3. changeset' = [changeset EXCEPT !.ops = all]
      BY <2>3 DEF o
    <3> HIDE DEF all
    <3>4. changeset' \in ReadChangesets
      BY <3>2, <3>3 DEF Reading, ReadChangesets
    <3> QED BY <2>3, <3>4, SmallNumbers
  <2> QED BY <1>4, <2>1, <2>2, <2>3 DEF TakeOp
<1> QED BY <1>1, <1>4, <1>5, <1>6 DEF Reading

LEMMA ReadSizesReading == Reading /\ ReadSizes => Reading'
<1> SUFFICES ASSUME Reading, ReadSizes PROVE Reading'
  OBVIOUS
<1> DEFINE sign == WordEnd(str, 3) + 1
           end  == WordEnd(str, sign + 1)
           old  == ToInt(Base36Dec(SubSeq(str, 3, sign - 1)))
           diff == ToInt(Base36Dec(SubSeq(str, sign + 1, end)))
           new  == IF str[sign] = ">" THEN Plus(old, diff) ELSE Minus(old, diff)
<1>1. str \in Text /\ SizesMatch(str)
  BY DEF Reading, ReadSizes
<1>2. /\ SubSeq(str, 3, sign - 1) \in Seq(WordChar)
      /\ SubSeq(str, sign + 1, end) \in Seq(WordChar)
      /\ end \in 0 .. Len(str)
  BY <1>1, SizesFound
<1>3. /\ changeset' = MakeChangeset(old, new, <<>>, <<>>)
      /\ pos' = end /\ pc' = "ops" /\ str' = str /\ newLines' = newLines /\ attrib' = attrib
  BY DEF ReadSizes
<1>4. old \in Int32 /\ diff \in Int32
  <2> HIDE DEF sign, end
  <2> QED BY <1>2, NumberType, ToIntType
<1> HIDE DEF old, diff, sign, end
<1>5. new \in Int32
  BY <1>4, SumType
<1> HIDE DEF new
<1>6. <<>> \in Seq(ReadOps) /\ <<>> \in Text
  BY DEF Text
<1>7. changeset' \in ReadChangesets
  BY <1>3, <1>4, <1>5, <1>6 DEF MakeChangeset, ReadChangesets
<1> QED BY <1>1, <1>2, <1>3, <1>7 DEF Reading

LEMMA ReadBankReading == Reading /\ ReadBank => Reading'
<1> SUFFICES ASSUME Reading, ReadBank PROVE Reading'
  OBVIOUS
<1>1. Mid(str, pos + 1) \in Text
  BY DEF Reading, Mid, Text
<1>2. changeset' = [changeset EXCEPT !.bank = Mid(str, pos + 1)]
  BY DEF ReadBank
<1>3. changeset' \in ReadChangesets
  BY <1>1, <1>2 DEF Reading, ReadChangesets
<1> QED BY <1>3 DEF ReadBank, Reading

LEMMA ReadingInvariant == Spec => []Reading
<1>1. Reading /\ [Next]_vars => Reading'
  <2>1. Reading /\ (Refuse \/ UNCHANGED vars) => Reading'
    BY DEF Reading, Refuse, vars
  <2> QED BY <2>1, ReadOpReading, ReadSizesReading, ReadBankReading DEF Next
<1> QED
  BY <1>1, InitReading, PTL DEF Spec

\* Of any string each number that fromString reads is stored as an int, however
\* many digits it has and whatever overflows on the way, and the position never
\* leaves the string (77-125).  That a length is not negative does not follow:
\* six digits are enough.
THEOREM TypeCorrect == Spec => []TypeOK
<1>1. Reading => TypeOK
  <2> SUFFICES ASSUME Reading PROVE TypeOK
    OBVIOUS
  <2>1. /\ changeset.oldLength \in Int32 /\ changeset.newLength \in Int32
        /\ changeset.ops \in Seq(ReadOps)
    BY DEF Reading, ReadChangesets
  <2>2. \A i \in DOMAIN changeset.ops : changeset.ops[i] \in ReadOps
    BY <2>1
  <2>3. \A op \in ReadOps : {op.opLength, op.newlines, op.attrib} \subseteq Int32
    BY DEF ReadOps
  <2> QED BY <2>1, <2>2, <2>3 DEF Reading, TypeOK
<1> QED
  BY <1>1, ReadingInvariant, PTL

\* The loop of fromString ends on any string: each iteration moves the position
\* on, and none beyond the string (101-121).
THEOREM ReadingEnds == Spec => ReadingAdvances
<1>1. Reading /\ [Next]_vars =>
        [pc = "ops" /\ pc' = "ops" => pos < pos' /\ pos' <= Len(str)]_vars
  <2> SUFFICES ASSUME Reading, Next, pc = "ops", pc' = "ops"
               PROVE  pos < pos' /\ pos' <= Len(str)
    OBVIOUS
  <2>1. ReadOp
    BY DEF Next, Refuse, ReadSizes, ReadBank
  <2>2. OpStarts(str, pos) # {} /\ pos' = pos + Len(FirstOp(str, pos))
    BY <2>1 DEF ReadOp, Passed
  <2>3. str \in Text /\ pos \in Nat
    BY DEF Reading
  <2> QED
    BY <2>2, <2>3, FirstOpFound
<1> QED
  BY ReadingInvariant, <1>1, PTL DEF Spec, ReadingAdvances
=============================================================================
