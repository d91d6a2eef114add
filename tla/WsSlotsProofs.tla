---------------------------- MODULE WsSlotsProofs ----------------------------
(***************************************************************************)
(* Proofs about WsSlots: the socket is in order whenever an event has been *)
(* handled, however deep the slots of its signals called back into it.     *)
(*                                                                         *)
(* The stack has no bound but that on calls, so the invariant does not     *)
(* list the stacks there are.  It says what may be on top of what          *)
(* (Ordered), and of the socket only what follows from the steps that are  *)
(* on the stack at all and from the one on top (Agrees).  A step is proved *)
(* from the step taken off and those put on; the rest of the stack is a    *)
(* set to it.                                                              *)
(***************************************************************************)
EXTENDS WsSlots, SequenceLemmas

\* The states of either socket, the calls that are noted, and the socket's type.
States == {"Unconnected", "Connecting", "Connected", "Closing"}

NotedCalls ==
  {"disconnectFromHost", "connectToHost"} \X {"closeEnds", "goesUnconnected", "clearFlags"}

SockType ==
  [ws : States, tcp : States, sent : BOOLEAN, received : BOOLEAN, unsent : BOOLEAN,
   greeted : BOOLEAN, open : BOOLEAN, closeFrames : 0 .. 2, disconnects : 0 .. 2,
   before : SUBSET NotedCalls]

\* What is taken at once when it is put on the stack: no slot runs before.
AtOnce == {"close", "tcpIsConnecting", "tcpIsConnected", "tcpIsClosing", "tcpIsUnconnected"}

\* What is done last in an event.
AtEnd == {"tcpReports", "tcpEnds", "tcpIsGone", "tcpAborts"}

\* What close() does behind disconnected().
Hangs == {"tcpDisconnects", "tcpWritesOut"}

\* All stacks.
Stacks == Seq(Step \cup Signal)

\* The step on top of a stack, and the steps under it.
Top(st) == IF st = <<>> THEN "none" ELSE Head(st)

Under(st) == IF st = <<>> THEN {} ELSE Range(Tail(st))

\* Which step may be put on which stack.
Fits(x, st) ==
  /\ Range(st) \cap AtOnce = {}
  /\ x \in AtEnd => st = <<>>
  /\ x = "goesUnconnected" => Top(st) = "clearFlags"
  /\ x = "disconnected" => Top(st) \in {"clearFlags", "tcpDisconnects"}
  /\ x = "clearFlags" => "clearFlags" \notin Range(st)
  /\ x \in Hangs \cup {"closeEnds"} => Range(st) \cap Hangs = {}

\* What is to be done behind step i of a stack.
Behind(st, i) == SubSeq(st, i + 1, Len(st))

Ordered(st) == st \in Stacks /\ \A i \in DOMAIN st : Fits(st[i], Behind(st, i))

\* Two calls of close() have still to come to their end.
Twice(st) == \E i, j \in DOMAIN st : i < j /\ st[i] = "closeEnds" /\ st[j] = "closeEnds"

\* The states of the socket where a step is still to be done.
Control(v, top, S) ==
  /\ "clearFlags" \in S => v.tcp \in {"Unconnected", "Connecting"} /\ top # "tcpIsUnconnected"
  /\ "goesUnconnected" \in S => v.ws # "Unconnected"
  /\ S \cap {"error", "tcpEnds", "tcpIsGone", "tcpReports", "connected",
             "goesUnconnected", "goesClosing"} # {} => ~v.received
  /\ "goesClosing" \in S => v.tcp = "Closing" /\ v.ws \in {"Connected", "Closing"}
  /\ S \cap Hangs # {} => v.sent /\ v.received /\ v.ws = "Unconnected" /\ v.tcp \in {"Connected", "Closing"}
  /\ "tcpWritesOut" \in S => v.tcp = "Closing"
  /\ "tcpEnds" \in S => v.tcp = "Connected"
  /\ "tcpIsGone" \in S => v.tcp = "Closing"
  /\ "tcpReports" \in S => /\ v.tcp \in {"Unconnected", "Connecting"}
                           /\ "clearFlags" \notin S /\ top # "tcpIsUnconnected"
  /\ top = "tcpIsConnecting" => v.tcp = "Connecting"
  /\ top = "tcpIsClosing" => v.tcp = "Closing" /\ ("tcpIsGone" \in S \/ "tcpWritesOut" \in S)
  /\ top = "tcpIsUnconnected" => v.tcp = "Unconnected"

\* What is out of order in the socket is put right by a step to be done.
Remains(v, top, S) ==
  /\ v.tcp = "Unconnected" /\ v.ws # "Unconnected" =>
       "goesUnconnected" \in S \/ "tcpReports" \in S \/ top = "tcpIsUnconnected"
  /\ v.tcp = "Unconnected" /\ (v.sent \/ v.received) =>
       "clearFlags" \in S \/ "tcpReports" \in S \/ top = "tcpIsUnconnected"
  /\ v.ws = "Unconnected" /\ v.tcp \in {"Connecting", "Connected"} =>
       \/ <<"connectToHost", "goesUnconnected">> \in v.before
       \/ "tcpDisconnects" \in S \/ top = "tcpIsConnecting"
  /\ "goesUnconnected" \in S /\ v.tcp = "Connecting" =>
       <<"connectToHost", "goesUnconnected">> \in v.before

\* Behind the Close frame of the server: close() is on its way to its end.
Heard(v, top, S, U) ==
  /\ v.received =>
       /\ v.tcp \in {"Connected", "Closing"}
          \/ (v.tcp = "Unconnected" /\ v.ws = "Unconnected" /\ top \in {"tcpIsUnconnected", "clearFlags"})
       /\ \/ v.ws = "Unconnected"
          \/ top = "close" /\ "closeEnds" \notin U
          \/ v.ws = "Closing" /\ "closeEnds" \in S
       /\ v.ws = "Unconnected" /\ v.tcp = "Connected" => "tcpDisconnects" \in S
       /\ "closeEnds" \in S => v.sent
       /\ "closeEnds" \in S /\ v.ws = "Unconnected" =>
            v.disconnects = 1 /\ <<"disconnectFromHost", "closeEnds">> \in v.before
       /\ "closeEnds" \in U /\ top \in {"close", "closeEnds"} =>
            <<"disconnectFromHost", "closeEnds">> \in v.before
  /\ v.open => v.tcp # "Connecting"
  /\ v.open /\ v.tcp = "Connected" /\ ~v.received => v.ws \in {"Connected", "Closing"}

\* Behind that frame a second close() comes to its end in a slot of the first,
\* never a third.
Nested(v, st) ==
  v.received => (Twice(st) => v.ws # "Unconnected") /\ (st # <<>> => ~Twice(Tail(st)))

\* A connection was begun and given up in slots before the flags were cleared.
Cleared(v) ==
  {<<"connectToHost", "clearFlags">>, <<"disconnectFromHost", "clearFlags">>} \subseteq v.before

\* Close frames and disconnected() of the connection, and the calls that
\* explain a second one.
Counts(v, top, S) ==
  /\ v.ws # "Unconnected" => v.disconnects = 0
  /\ v.disconnects <= 1 \/ <<"disconnectFromHost", "closeEnds">> \in v.before
  /\ top = "tcpIsConnecting" => v.disconnects = 0
  /\ top = "tcpIsConnecting" => v.closeFrames = 0 \/ (v.closeFrames = 1 /\ v.sent)
  /\ "tcpReports" \in S /\ v.tcp = "Connecting" =>
       v.disconnects = 0 /\ (v.closeFrames = 0 \/ (v.closeFrames = 1 /\ v.sent))
  /\ v.closeFrames = 1 /\ ~v.sent => v.ws = "Unconnected" \/ v.tcp = "Unconnected" \/ Cleared(v)
  /\ v.closeFrames = 2 => Cleared(v) /\ (v.sent \/ v.ws = "Unconnected" \/ v.tcp = "Unconnected")
  /\ "clearFlags" \in S /\ v.tcp = "Connecting" =>
       /\ <<"connectToHost", "clearFlags">> \in v.before
       /\ \/ v.closeFrames = 0
          \/ v.closeFrames = 1 /\ v.sent /\ <<"disconnectFromHost", "clearFlags">> \in v.before
  /\ top = "close" /\ "clearFlags" \in S => <<"disconnectFromHost", "clearFlags">> \in v.before

\* What the invariant says of the socket, given the step on top, the steps on
\* the stack and those under the top.
Agrees(v, top, S, U) ==
  /\ v \in SockType
  /\ Control(v, top, S)
  /\ Remains(v, top, S)
  /\ Heard(v, top, S, U)
  /\ Counts(v, top, S)

\* The inductive invariant.
Inv ==
  /\ calls \in 0 .. MaxNested
  /\ Ordered(stack)
  /\ Nested(sock, stack)
  /\ Agrees(sock, Top(stack), Range(stack), Under(stack))

----------------------------------------------------------------------------
\* A step put on a stack.
Put(x, st) == <<x>> \o st

\* What a step put on a stack makes of it: its elements,
LEMMA PutFacts ==
  ASSUME NEW st \in Stacks, NEW x \in Step \cup Signal
  PROVE  /\ Put(x, st) \in Stacks
         /\ Put(x, st) # <<>>
         /\ Head(Put(x, st)) = x
         /\ Tail(Put(x, st)) = st
         /\ Len(Put(x, st)) = Len(st) + 1
         /\ \A i \in 1 .. Len(st) : Put(x, st)[i + 1] = st[i]
         /\ Put(x, st)[1] = x
BY DEF Put, Stacks

\* the steps on it,
LEMMA PutRange ==
  ASSUME NEW st \in Stacks, NEW x \in Step \cup Signal
  PROVE  /\ Top(Put(x, st)) = x
         /\ Range(Put(x, st)) = {x} \cup Range(st)
         /\ Under(Put(x, st)) = Range(st)
<1> DEFINE s == Put(x, st)
<1>1. /\ s \in Stacks /\ s # <<>> /\ Head(s) = x /\ Tail(s) = st /\ Len(s) = Len(st) + 1
      /\ s[1] = x /\ \A i \in 1 .. Len(st) : s[i + 1] = st[i]
  BY PutFacts
<1> HIDE DEF s
<1>2. DOMAIN s = 1 .. Len(s) /\ DOMAIN st = 1 .. Len(st) /\ Len(st) \in Nat
  BY <1>1 DEF Stacks
<1>3. ASSUME NEW y \in Range(s) PROVE y \in {x} \cup Range(st)
  <2>1. PICK i \in 1 .. Len(s) : s[i] = y
    BY <1>2 DEF Range
  <2>2. CASE i = 1
    BY <2>1, <2>2, <1>1
  <2>3. CASE i # 1
    <3>1. i - 1 \in 1 .. Len(st) /\ s[(i - 1) + 1] = st[i - 1]
      BY <1>1, <1>2, <2>3
    <3> QED BY <3>1, <2>1, <1>2 DEF Range
  <2> QED BY <2>2, <2>3
<1>4. ASSUME NEW y \in {x} \cup Range(st) PROVE y \in Range(s)
  <2>1. CASE y = x
    BY <2>1, <1>1, <1>2 DEF Range
  <2>2. CASE y \in Range(st)
    <3>1. PICK i \in 1 .. Len(st) : st[i] = y
      BY <2>2, <1>2 DEF Range
    <3>2. i + 1 \in 1 .. Len(s) /\ s[i + 1] = y
      BY <3>1, <1>1, <1>2
    <3> QED BY <3>2, <1>2 DEF Range
  <2> QED BY <2>1, <2>2
<1> QED BY <1>1, <1>3, <1>4 DEF Top, Under, s

\* whether close() is to end twice,
LEMMA PutTwice ==
  ASSUME NEW st \in Stacks, NEW x \in Step \cup Signal
  PROVE  Twice(Put(x, st)) <=> Twice(st) \/ (x = "closeEnds" /\ "closeEnds" \in Range(st))
<1> DEFINE s == Put(x, st)
<1>1. /\ s \in Stacks /\ Len(s) = Len(st) + 1
      /\ s[1] = x /\ \A i \in 1 .. Len(st) : s[i + 1] = st[i]
  BY PutFacts
<1> HIDE DEF s
<1>2. DOMAIN s = 1 .. Len(s) /\ DOMAIN st = 1 .. Len(st) /\ Len(st) \in Nat
  BY <1>1 DEF Stacks
<1>3. ASSUME Twice(s) PROVE Twice(st) \/ (x = "closeEnds" /\ "closeEnds" \in Range(st))
  <2>1. PICK i \in 1 .. Len(s), j \in 1 .. Len(s) :
               i < j /\ s[i] = "closeEnds" /\ s[j] = "closeEnds"
    BY <1>2, <1>3 DEF Twice
  <2>2. j - 1 \in 1 .. Len(st) /\ st[j - 1] = "closeEnds"
    <3>1. j - 1 \in 1 .. Len(st)
      BY <2>1, <1>1, <1>2
    <3>2. s[(j - 1) + 1] = st[j - 1]
      BY <3>1, <1>1
    <3> QED BY <3>1, <3>2, <2>1
  <2>3. CASE i = 1
    BY <2>1, <2>2, <2>3, <1>1, <1>2 DEF Range
  <2>4. CASE i # 1
    <3>1. i - 1 \in 1 .. Len(st)
      BY <2>1, <2>4, <1>1, <1>2
    <3>2. s[(i - 1) + 1] = st[i - 1]
      BY <3>1, <1>1
    <3>3. i - 1 < j - 1 /\ st[i - 1] = "closeEnds"
      BY <3>2, <2>1
    <3> QED BY <3>1, <3>3, <2>2, <1>2 DEF Twice
  <2> QED BY <2>3, <2>4
<1>4. ASSUME Twice(st) PROVE Twice(s)
  <2>1. PICK i \in 1 .. Len(st), j \in 1 .. Len(st) :
               i < j /\ st[i] = "closeEnds" /\ st[j] = "closeEnds"
    BY <1>2, <1>4 DEF Twice
  <2>2. i + 1 \in 1 .. Len(s) /\ j + 1 \in 1 .. Len(s) /\ i + 1 < j + 1
    BY <2>1, <1>1, <1>2
  <2>3. s[i + 1] = "closeEnds" /\ s[j + 1] = "closeEnds"
    BY <2>1, <1>1
  <2> QED BY <2>2, <2>3, <1>2 DEF Twice
<1>5. ASSUME x = "closeEnds", "closeEnds" \in Range(st) PROVE Twice(s)
  <2>1. PICK i \in 1 .. Len(st) : st[i] = "closeEnds"
    BY <1>2, <1>5 DEF Range
  <2>2. 1 \in 1 .. Len(s) /\ i + 1 \in 1 .. Len(s) /\ 1 < i + 1
    BY <2>1, <1>1, <1>2
  <2>3. s[i + 1] = "closeEnds" /\ s[1] = "closeEnds"
    BY <2>1, <1>1, <1>5
  <2> QED BY <2>2, <2>3, <1>2 DEF Twice
<1> QED BY <1>3, <1>4, <1>5 DEF s

\* and whether everything is on top of what it belongs on.
LEMMA PutOrdered ==
  ASSUME NEW st \in Stacks, NEW x \in Step \cup Signal
  PROVE  Ordered(Put(x, st)) <=> Ordered(st) /\ Fits(x, st)
<1> DEFINE s == Put(x, st)
<1>1. /\ s \in Stacks /\ Len(s) = Len(st) + 1
      /\ s[1] = x /\ \A i \in 1 .. Len(st) : s[i + 1] = st[i]
  BY PutFacts
<1> HIDE DEF s
<1>2. DOMAIN s = 1 .. Len(s) /\ DOMAIN st = 1 .. Len(st) /\ Len(st) \in Nat
  BY <1>1 DEF Stacks
<1>3. ASSUME NEW i \in 1 .. Len(st) PROVE Behind(s, i + 1) = Behind(st, i)
  <2>1. /\ Behind(s, i + 1) \in Stacks /\ Behind(st, i) \in Stacks
        /\ Len(Behind(s, i + 1)) = Len(st) - i /\ Len(Behind(st, i)) = Len(st) - i
    BY <1>1, <1>2 DEF Behind, Stacks
  <2>2. ASSUME NEW k \in 1 .. Len(st) - i PROVE Behind(s, i + 1)[k] = Behind(st, i)[k]
    <3>1. Behind(s, i + 1)[k] = s[(i + 1) + k] /\ Behind(st, i)[k] = st[i + k]
      BY <1>1, <1>2 DEF Behind, Stacks
    <3>2. i + k \in 1 .. Len(st) /\ (i + 1) + k = (i + k) + 1
      BY <1>2
    <3>3. s[(i + k) + 1] = st[i + k]
      BY <3>2, <1>1
    <3> QED BY <3>1, <3>2, <3>3
  <2> QED BY <2>1, <2>2, SeqEqual DEF Stacks
<1>4. Behind(s, 1) = st
  <2>1. Behind(s, 1) \in Stacks /\ Len(Behind(s, 1)) = Len(st)
    BY <1>1, <1>2 DEF Behind, Stacks
  <2>2. ASSUME NEW k \in 1 .. Len(st) PROVE Behind(s, 1)[k] = st[k]
    <3>1. Behind(s, 1)[k] = s[1 + k]
      BY <1>1, <1>2 DEF Behind, Stacks
    <3>2. s[k + 1] = st[k] /\ 1 + k = k + 1
      BY <1>1, <1>2
    <3> QED BY <3>1, <3>2
  <2> QED BY <2>1, <2>2, SeqEqual DEF Stacks
<1>5. ASSUME Ordered(s) PROVE Ordered(st) /\ Fits(x, st)
  <2>1. Fits(x, st)
    <3>1. 1 \in DOMAIN s
      BY <1>1, <1>2
    <3>2. Fits(s[1], Behind(s, 1))
      BY <3>1, <1>5 DEF Ordered
    <3> QED BY <3>2, <1>1, <1>4
  <2>2. ASSUME NEW i \in DOMAIN st PROVE Fits(st[i], Behind(st, i))
    <3>1. i \in 1 .. Len(st) /\ i + 1 \in DOMAIN s
      BY <1>1, <1>2
    <3>2. Fits(s[i + 1], Behind(s, i + 1))
      BY <3>1, <1>5 DEF Ordered
    <3> QED BY <3>1, <3>2, <1>1, <1>3
  <2> QED BY <2>1, <2>2 DEF Ordered
<1>6. ASSUME Ordered(st), Fits(x, st) PROVE Ordered(s)
  <2>1. ASSUME NEW i \in DOMAIN s PROVE Fits(s[i], Behind(s, i))
    <3>1. CASE i = 1
      BY <3>1, <1>1, <1>4, <1>6
    <3>2. CASE i # 1
      <4>1. i - 1 \in 1 .. Len(st) /\ (i - 1) + 1 = i
        BY <3>2, <1>1, <1>2
      <4>2. Fits(st[i - 1], Behind(st, i - 1))
        BY <4>1, <1>2, <1>6 DEF Ordered
      <4>3. s[(i - 1) + 1] = st[i - 1] /\ Behind(s, (i - 1) + 1) = Behind(st, i - 1)
        BY <4>1, <1>1, <1>3
      <4> QED BY <4>1, <4>2, <4>3
    <3> QED BY <3>1, <3>2
  <2> QED BY <2>1, <1>1 DEF Ordered
<1> QED BY <1>5, <1>6 DEF s

\* Any stack that is not empty is its top put on the rest of it.
LEMMA PutBack ==
  ASSUME NEW st \in Stacks, st # <<>>
  PROVE  Head(st) \in Step \cup Signal /\ Tail(st) \in Stacks /\ st = Put(Head(st), Tail(st))
<1>1. /\ Head(st) \in Step \cup Signal /\ Tail(st) \in Stacks
      /\ Len(st) \in Nat \ {0} /\ Len(Tail(st)) = Len(st) - 1 /\ Head(st) = st[1]
  BY DEF Stacks
<1>2. \A i \in 1 .. Len(Tail(st)) : Tail(st)[i] = st[i + 1]
  BY DEF Stacks
<1> DEFINE x == Head(st)
           t == Tail(st)
<1>3. x \in Step \cup Signal /\ t \in Stacks /\ Len(t) = Len(st) - 1
  BY <1>1
<1>4. x = st[1] /\ \A i \in 1 .. Len(t) : t[i] = st[i + 1]
  BY <1>1, <1>2
<1> HIDE DEF x, t
<1>5. /\ Put(x, t) \in Stacks /\ Len(Put(x, t)) = Len(t) + 1 /\ Put(x, t)[1] = x
      /\ \A i \in 1 .. Len(t) : Put(x, t)[i + 1] = t[i]
  BY <1>3, PutFacts
<1>6. Len(Put(x, t)) = Len(st)
  BY <1>1, <1>3, <1>5
<1>7. ASSUME NEW i \in 1 .. Len(st) PROVE Put(x, t)[i] = st[i]
  <2>1. CASE i = 1
    BY <2>1, <1>4, <1>5
  <2>2. CASE i # 1
    <3>1. i - 1 \in 1 .. Len(t) /\ (i - 1) + 1 = i
      BY <2>2, <1>1, <1>3
    <3>2. Put(x, t)[(i - 1) + 1] = t[i - 1] /\ t[i - 1] = st[(i - 1) + 1]
      BY <3>1, <1>4, <1>5
    <3> QED BY <3>1, <3>2
  <2> QED BY <2>1, <2>2
<1>8. Put(x, t) = st
  BY <1>5, <1>6, <1>7, SeqEqual DEF Stacks
<1> QED BY <1>1, <1>8 DEF x, t

\* What a list of steps puts on a stack.
LEMMA PutSteps ==
  ASSUME NEW st \in Stacks, NEW a \in Step \cup Signal, NEW b \in Step \cup Signal
  PROVE  /\ <<>> \o st = st
         /\ <<a>> \o st = Put(a, st)
         /\ <<a, b>> \o st = Put(a, Put(b, st))
<1> DEFINE E == Step \cup Signal
<1>1. st \in Seq(E) /\ <<a>> \in Seq(E) /\ <<b>> \in Seq(E) /\ <<a, b>> \in Seq(E)
  BY DEF Stacks
<1> HIDE DEF E
<1>2. <<a>> \o <<b>> \in Seq(E) /\ Len(<<a>> \o <<b>>) = 2
  BY <1>1, ConcatProperties
<1>3. Len(<<a, b>>) = 2 /\ \A i \in 1 .. 2 : <<a, b>>[i] = (<<a>> \o <<b>>)[i]
  <2>1. (<<a>> \o <<b>>)[1] = a /\ (<<a>> \o <<b>>)[2] = b
    OBVIOUS
  <2>2. Len(<<a, b>>) = 2 /\ <<a, b>>[1] = a /\ <<a, b>>[2] = b
    OBVIOUS
  <2> QED BY <2>1, <2>2
<1>4. <<a, b>> = <<a>> \o <<b>>
  BY <1>1, <1>2, <1>3, SeqEqual
<1>5. (<<a>> \o <<b>>) \o st = <<a>> \o (<<b>> \o st)
  BY <1>1, ConcatAssociative
<1>6. <<>> \o st = st
  BY <1>1, ConcatEmptySeq
<1> QED BY <1>4, <1>5, <1>6 DEF Put

\* And a list of three.
LEMMA PutThree ==
  ASSUME NEW st \in Stacks, NEW a \in Step \cup Signal, NEW b \in Step \cup Signal,
         NEW c \in Step \cup Signal
  PROVE  <<a, b, c>> \o st = Put(a, Put(b, Put(c, st)))
<1> DEFINE E == Step \cup Signal
<1>1. /\ st \in Seq(E) /\ <<a>> \in Seq(E) /\ <<b, c>> \in Seq(E) /\ <<a, b, c>> \in Seq(E)
      /\ Len(<<a>>) = 1 /\ Len(<<b, c>>) = 2 /\ Len(<<a, b, c>>) = 3
  BY DEF Stacks
<1> HIDE DEF E
<1>2. <<a>> \o <<b, c>> \in Seq(E) /\ Len(<<a>> \o <<b, c>>) = 3
  BY <1>1, ConcatProperties
<1>3. \A i \in 1 .. 3 : <<a, b, c>>[i] = (<<a>> \o <<b, c>>)[i]
  <2>1. (<<a>> \o <<b, c>>)[1] = a /\ (<<a>> \o <<b, c>>)[2] = b /\ (<<a>> \o <<b, c>>)[3] = c
    OBVIOUS
  <2>2. <<a, b, c>>[1] = a /\ <<a, b, c>>[2] = b /\ <<a, b, c>>[3] = c
    OBVIOUS
  <2> QED BY <2>1, <2>2
<1>4. <<a, b, c>> = <<a>> \o <<b, c>>
  BY <1>1, <1>2, <1>3, SeqEqual
<1>5. (<<a>> \o <<b, c>>) \o st = <<a>> \o (<<b, c>> \o st)
  BY <1>1, ConcatAssociative
<1>6. <<b, c>> \o st = Put(b, Put(c, st))
  BY PutSteps
<1> QED BY <1>4, <1>5, <1>6 DEF Put

\* Where goesUnconnected is to be done, clearFlags is to be done behind it.
LEMMA ClearedAfter ==
  ASSUME NEW st, Ordered(st), "goesUnconnected" \in Range(st)
  PROVE  "clearFlags" \in Range(st)
<1>1. DOMAIN st = 1 .. Len(st) /\ Len(st) \in Nat /\ st \in Stacks
  BY DEF Ordered, Stacks
<1>2. PICK i \in 1 .. Len(st) : st[i] = "goesUnconnected"
  BY <1>1 DEF Range
<1>3. Top(Behind(st, i)) = "clearFlags"
  BY <1>1, <1>2 DEF Ordered, Fits
<1>4. Behind(st, i) # <<>> /\ Head(Behind(st, i)) = "clearFlags"
  BY <1>3 DEF Top
<1>5. i + 1 \in 1 .. Len(st) /\ st[i + 1] = "clearFlags"
  BY <1>1, <1>4 DEF Behind, Stacks
<1> QED BY <1>1, <1>5 DEF Range

\* The stack of a socket between two events.
LEMMA Empty ==
  /\ <<>> \in Stacks /\ Ordered(<<>>)
  /\ Top(<<>>) = "none" /\ Range(<<>>) = {} /\ Under(<<>>) = {} /\ ~Twice(<<>>)
BY DEF Stacks, Ordered, Top, Range, Under, Twice

\* What is known of a stack with a step on top, and of the stack under it.
LEMMA Taken ==
  ASSUME NEW st, Ordered(st), st # <<>>
  PROVE  /\ st \in Stacks /\ Tail(st) \in Stacks /\ Ordered(Tail(st)) /\ Fits(Head(st), Tail(st))
         /\ Head(st) \in Step \cup Signal
         /\ Top(st) = Head(st)
         /\ Range(st) = {Head(st)} \cup Range(Tail(st))
         /\ Under(st) = Range(Tail(st))
         /\ Twice(st) <=> \/ Twice(Tail(st))
                          \/ Head(st) = "closeEnds" /\ "closeEnds" \in Range(Tail(st))
<1>1. st \in Stacks
  BY DEF Ordered
<1>2. Head(st) \in Step \cup Signal /\ Tail(st) \in Stacks /\ st = Put(Head(st), Tail(st))
  BY <1>1, PutBack
<1> DEFINE x == Head(st)
           t == Tail(st)
<1>3. x \in Step \cup Signal /\ t \in Stacks /\ st = Put(x, t)
  BY <1>2
<1> HIDE DEF x, t
<1>4. /\ Ordered(t) /\ Fits(x, t) /\ Top(st) = x
      /\ Range(st) = {x} \cup Range(t) /\ Under(st) = Range(t)
      /\ Twice(st) <=> Twice(t) \/ (x = "closeEnds" /\ "closeEnds" \in Range(t))
  BY <1>3, PutRange, PutOrdered, PutTwice
<1> QED BY <1>1, <1>2, <1>4 DEF x, t

\* What one step makes of a stack.
LEMMA OnePut ==
  ASSUME NEW st \in Stacks, Ordered(st), NEW a \in Step \cup Signal, Fits(a, st)
  PROVE  /\ Put(a, st) \in Stacks /\ Ordered(Put(a, st)) /\ Put(a, st) # <<>> /\ Top(Put(a, st)) = a
         /\ Range(Put(a, st)) = {a} \cup Range(st) /\ Under(Put(a, st)) = Range(st)
         /\ Tail(Put(a, st)) = st
         /\ Twice(Put(a, st)) <=> Twice(st) \/ (a = "closeEnds" /\ "closeEnds" \in Range(st))
BY PutFacts, PutRange, PutOrdered, PutTwice

\* Two steps, the second under the first.
LEMMA TwoPut ==
  ASSUME NEW st \in Stacks, Ordered(st), NEW a \in Step \cup Signal, NEW b \in Step \cup Signal,
         Fits(b, st), Fits(a, Put(b, st)),
         NEW s, s = Put(a, Put(b, st))
  PROVE  /\ s \in Stacks /\ Ordered(s) /\ s # <<>> /\ Top(s) = a
         /\ Range(s) = {a, b} \cup Range(st) /\ Under(s) = {b} \cup Range(st)
         /\ Twice(s) <=> \/ Twice(st)
                         \/ b = "closeEnds" /\ "closeEnds" \in Range(st)
                         \/ a = "closeEnds" /\ "closeEnds" \in {b} \cup Range(st)
         /\ Twice(Tail(s)) <=> Twice(st) \/ (b = "closeEnds" /\ "closeEnds" \in Range(st))
<1> DEFINE r == Put(b, st)
<1>1. /\ r \in Stacks /\ Ordered(r) /\ Range(r) = {b} \cup Range(st)
      /\ Twice(r) <=> Twice(st) \/ (b = "closeEnds" /\ "closeEnds" \in Range(st))
  BY OnePut
<1>2. Fits(a, r) /\ s = Put(a, r)
  OBVIOUS
<1> HIDE DEF r
<1>3. /\ s \in Stacks /\ Ordered(s) /\ s # <<>> /\ Top(s) = a /\ Range(s) = {a} \cup Range(r)
      /\ Under(s) = Range(r) /\ Tail(s) = r
      /\ Twice(s) <=> Twice(r) \/ (a = "closeEnds" /\ "closeEnds" \in Range(r))
  BY <1>1, <1>2, OnePut
<1> QED BY <1>1, <1>3

\* Three steps.
LEMMA ThreePut ==
  ASSUME NEW st \in Stacks, Ordered(st), NEW a \in Step \cup Signal, NEW b \in Step \cup Signal,
         NEW c \in Step \cup Signal, Fits(c, st), Fits(b, Put(c, st)), Fits(a, Put(b, Put(c, st))),
         NEW s, s = Put(a, Put(b, Put(c, st)))
  PROVE  /\ s \in Stacks /\ Ordered(s) /\ s # <<>> /\ Top(s) = a
         /\ Range(s) = {a, b, c} \cup Range(st) /\ Under(s) = {b, c} \cup Range(st)
         /\ a # "closeEnds" /\ b # "closeEnds" =>
              /\ Twice(s) <=> Twice(st) \/ (c = "closeEnds" /\ "closeEnds" \in Range(st))
              /\ Twice(Tail(s)) <=> Twice(st) \/ (c = "closeEnds" /\ "closeEnds" \in Range(st))
<1> DEFINE r == Put(b, Put(c, st))
<1>1. /\ r \in Stacks /\ Ordered(r) /\ Range(r) = {b, c} \cup Range(st)
      /\ Twice(r) <=> \/ Twice(st)
                      \/ c = "closeEnds" /\ "closeEnds" \in Range(st)
                      \/ b = "closeEnds" /\ "closeEnds" \in {c} \cup Range(st)
  BY TwoPut
<1>2. Fits(a, r) /\ s = Put(a, r)
  OBVIOUS
<1> HIDE DEF r
<1>3. /\ s \in Stacks /\ Ordered(s) /\ s # <<>> /\ Top(s) = a /\ Range(s) = {a} \cup Range(r)
      /\ Under(s) = Range(r) /\ Tail(s) = r
      /\ Twice(s) <=> Twice(r) \/ (a = "closeEnds" /\ "closeEnds" \in Range(r))
  BY <1>1, <1>2, OnePut
<1> QED BY <1>1, <1>3

----------------------------------------------------------------------------
\* The step on top, and the stack under it.
LEMMA StepOnTop ==
  ASSUME Inv, NEW step, At(step)
  PROVE  /\ calls \in 0 .. MaxNested
         /\ stack # <<>> /\ Tail(stack) \in Stacks /\ Ordered(Tail(stack)) /\ Fits(step, Tail(stack))
         /\ step \in Step \cup Signal
         /\ "goesUnconnected" \in {step} \cup Range(Tail(stack)) =>
              "clearFlags" \in Range(Tail(stack))
         /\ Agrees(sock, step, {step} \cup Range(Tail(stack)), Range(Tail(stack)))
         /\ sock.received => ~Twice(Tail(stack))
         /\ sock.received /\ sock.ws = "Unconnected" /\ step = "closeEnds" =>
              "closeEnds" \notin Range(Tail(stack))
BY Taken, ClearedAfter DEF Inv, At, Nested

\* The stack that is left when the step on top pushes nothing.
LEMMA StackLeft ==
  ASSUME Inv, NEW step, At(step), Continue(<<>>)
  PROVE  /\ calls' = calls /\ Ordered(stack')
         /\ Range(stack') = Range(Tail(stack)) /\ Under(stack') \subseteq Range(stack')
         /\ Top(stack') \notin AtOnce
         /\ Top(stack') = "closeEnds" /\ "closeEnds" \in Under(stack') => Twice(Tail(stack))
         /\ Twice(stack') => Twice(Tail(stack))
         /\ stack' # <<>> /\ Twice(Tail(stack')) => Twice(Tail(stack))
<1>1. Tail(stack) \in Stacks /\ Ordered(Tail(stack)) /\ Range(Tail(stack)) \cap AtOnce = {}
  BY StepOnTop DEF Fits
<1>2. stack' = Tail(stack) /\ calls' = calls
  BY <1>1, PutSteps DEF Continue
<1>3. Ordered(stack')
  BY <1>1, <1>2
<1>4. CASE stack' = <<>>
  BY <1>2, <1>3, <1>4, Empty DEF AtOnce
<1>5. CASE stack' # <<>>
  <2>1. /\ Top(stack') = Head(stack')
        /\ Range(stack') = {Head(stack')} \cup Range(Tail(stack'))
        /\ Under(stack') = Range(Tail(stack'))
        /\ Twice(stack') <=> \/ Twice(Tail(stack'))
                             \/ Head(stack') = "closeEnds" /\ "closeEnds" \in Range(Tail(stack'))
    BY <1>3, <1>5, Taken
  <2>2. Range(stack') = Range(Tail(stack)) /\ Twice(stack') = Twice(Tail(stack))
    BY <1>2
  <2> QED BY <1>1, <1>2, <1>3, <2>1, <2>2
<1> QED BY <1>4, <1>5

\* The stack with one step in the place of the step on top.
LEMMA OnePushed ==
  ASSUME Inv, NEW step, At(step), NEW a \in Step \cup Signal, Continue(<<a>>), Fits(a, Tail(stack))
  PROVE  LET R == Range(Tail(stack))
         IN  /\ calls' = calls /\ Ordered(stack') /\ stack' # <<>>
             /\ Top(stack') = a /\ Range(stack') = {a} \cup R /\ Under(stack') = R
             /\ Twice(Tail(stack')) <=> Twice(Tail(stack))
             /\ Twice(stack') <=> Twice(Tail(stack)) \/ (a = "closeEnds" /\ "closeEnds" \in R)
<1>1. Tail(stack) \in Stacks /\ Ordered(Tail(stack))
  BY StepOnTop
<1>2. stack' = Put(a, Tail(stack)) /\ calls' = calls
  BY <1>1, PutSteps DEF Continue
<1> QED BY <1>1, <1>2, OnePut

\* The pairs of steps that are put on together.
Pairs ==
  {<<"stateChanged", "aboutToClose">>, <<"stateChanged", "disconnected">>,
   <<"close", "goesClosing">>, <<"tcpIsClosing", "tcpWritesOut">>, <<"tcpIsClosing", "tcpIsGone">>}

\* Two steps in the place of the step on top.
LEMMA TwoPushed ==
  ASSUME Inv, NEW step, At(step), NEW a, NEW b, <<a, b>> \in Pairs,
         Continue(<<a, b>>), Fits(b, Tail(stack))
  PROVE  LET R == Range(Tail(stack))
         IN  /\ calls' = calls /\ Ordered(stack') /\ stack' # <<>>
             /\ Top(stack') = a /\ Range(stack') = {a, b} \cup R /\ Under(stack') = {b} \cup R
             /\ Twice(Tail(stack')) <=> Twice(Tail(stack)) \/ (b = "closeEnds" /\ "closeEnds" \in R)
             /\ Twice(stack') <=> Twice(Tail(stack)) \/ (b = "closeEnds" /\ "closeEnds" \in R)
<1> /\ a \in Step \cup Signal /\ b \in Step \cup Signal
    /\ a \notin AtEnd \cup Hangs \cup {"closeEnds", "clearFlags", "goesUnconnected", "disconnected"}
    /\ b \notin AtOnce
  BY DEF Pairs, Step, Signal, AtEnd, Hangs, AtOnce
<1>1. Tail(stack) \in Stacks /\ Ordered(Tail(stack))
  BY StepOnTop
<1>2. <<a, b>> \o Tail(stack) = Put(a, Put(b, Tail(stack)))
  BY <1>1, PutSteps, Zenon
<1>3. Fits(a, Put(b, Tail(stack)))
  <2>1. Range(Put(b, Tail(stack))) = {b} \cup Range(Tail(stack)) /\ Top(Put(b, Tail(stack))) = b
    BY <1>1, OnePut
  <2> QED BY <2>1 DEF Fits
<1>4. stack' = Put(a, Put(b, Tail(stack))) /\ calls' = calls
  BY <1>2 DEF Continue
<1> QED BY <1>1, <1>3, <1>4, TwoPut

\* The triples of steps that are put on together.
Triples ==
  {<<"stateChanged", "aboutToClose", "closeEnds">>,
   <<"stateChanged", "disconnected", "tcpDisconnects">>,
   <<"error", "goesUnconnected", "clearFlags">>}

\* Three steps in the place of the step on top.
LEMMA ThreePushed ==
  ASSUME Inv, NEW step, At(step), NEW a, NEW b, NEW c, <<a, b, c>> \in Triples,
         Continue(<<a, b, c>>), Fits(c, Tail(stack))
  PROVE  LET R == Range(Tail(stack))
         IN  /\ calls' = calls /\ Ordered(stack') /\ stack' # <<>>
             /\ Top(stack') = a /\ Range(stack') = {a, b, c} \cup R
             /\ Under(stack') = {b, c} \cup R
             /\ Twice(Tail(stack')) <=> Twice(Tail(stack)) \/ (c = "closeEnds" /\ "closeEnds" \in R)
             /\ Twice(stack') <=> Twice(Tail(stack)) \/ (c = "closeEnds" /\ "closeEnds" \in R)
<1> /\ a \in Step \cup Signal /\ b \in Step \cup Signal /\ c \in Step \cup Signal
    /\ a \notin AtEnd \cup Hangs \cup {"closeEnds", "clearFlags", "goesUnconnected", "disconnected"}
    /\ b \notin AtOnce \cup AtEnd \cup Hangs \cup {"closeEnds", "clearFlags"} /\ c \notin AtOnce
    /\ b = "goesUnconnected" => c = "clearFlags"
    /\ b = "disconnected" => c \in {"clearFlags", "tcpDisconnects"}
  BY DEF Triples, Step, Signal, AtEnd, Hangs, AtOnce
<1>1. Tail(stack) \in Stacks /\ Ordered(Tail(stack))
  BY StepOnTop
<1>2. <<a, b, c>> \o Tail(stack) = Put(a, Put(b, Put(c, Tail(stack))))
  <2> DEFINE t == Tail(stack)
  <2>1. t \in Stacks
    BY <1>1
  <2> HIDE DEF t
  <2>2. <<a, b, c>> \o t = Put(a, Put(b, Put(c, t)))
    BY <2>1, PutThree
  <2> QED BY <2>2 DEF t
<1>3. Fits(b, Put(c, Tail(stack)))
  <2>1. Range(Put(c, Tail(stack))) = {c} \cup Range(Tail(stack)) /\ Top(Put(c, Tail(stack))) = c
    BY <1>1, OnePut
  <2> QED BY <2>1 DEF Fits
<1>4. Fits(a, Put(b, Put(c, Tail(stack))))
  <2>1. Range(Put(b, Put(c, Tail(stack)))) = {b, c} \cup Range(Tail(stack))
    BY <1>1, <1>3, TwoPut
  <2> QED BY <2>1 DEF Fits
<1>5. stack' = Put(a, Put(b, Put(c, Tail(stack)))) /\ calls' = calls
  BY <1>2 DEF Continue
<1> QED BY <1>1, <1>3, <1>4, <1>5, ThreePut

\* A step that leaves the socket as it is, and on which nothing else relies.
LEMMA StepTaken ==
  ASSUME Inv, NEW step, At(step), Continue(<<>>), UNCHANGED sock,
         \/ step \in Signal \cup {"tcpIsClosing", "tcpWritesOut", "tcpAborts"}
         \/ step = "close" /\ sock.ws = "Unconnected"
         \/ step = "closeEnds" /\ ~sock.received
  PROVE  Inv'
<1>1. /\ calls \in 0 .. MaxNested
      /\ Fits(step, Tail(stack))
      /\ Agrees(sock, step, {step} \cup Range(Tail(stack)), Range(Tail(stack)))
      /\ sock.received => ~Twice(Tail(stack))
  BY StepOnTop
<1>2. /\ calls' = calls /\ Ordered(stack')
      /\ Range(stack') = Range(Tail(stack)) /\ Under(stack') \subseteq Range(stack')
      /\ Top(stack') \notin AtOnce
      /\ Top(stack') = "closeEnds" /\ "closeEnds" \in Under(stack') => Twice(Tail(stack))
      /\ Twice(stack') => Twice(Tail(stack))
      /\ stack' # <<>> /\ Twice(Tail(stack')) => Twice(Tail(stack))
  BY StackLeft
<1>3. Agrees(sock, Top(stack'), Range(stack'), Under(stack'))
  BY <1>1, <1>2 DEF Signal, Agrees, Control, Remains, Heard, Counts, Cleared, AtOnce, AtEnd, Hangs
<1> QED BY <1>1, <1>2, <1>3 DEF Inv, Nested

\* The steps of close() and of processTcpStateChanged().
LEMMA CloseKeeps ==
  ASSUME Inv, Close
  PROVE  Inv'
<1> DEFINE R == Range(Tail(stack))
<1>1. /\ calls \in 0 .. MaxNested
      /\ Fits("close", Tail(stack))
      /\ Agrees(sock, "close", {"close"} \cup R, R)
      /\ sock.received => ~Twice(Tail(stack))
      /\ "goesUnconnected" \in {"close"} \cup R => "clearFlags" \in R
  BY StepOnTop DEF Close
<1>2. ASSUME sock.ws = "Unconnected", Continue(<<>>), UNCHANGED sock
      PROVE  Inv'
  BY <1>2, StepTaken DEF Close
<1>3. ASSUME sock.ws # "Unconnected",
             sock' = [sock EXCEPT !.ws = "Closing", !.sent = TRUE,
                                  !.unsent = @ \/ (~sock.sent /\ sock.tcp # "Unconnected"),
                                  !.closeFrames = IF ~sock.sent /\ sock.tcp # "Unconnected" THEN OneMore(@) ELSE @]
      PROVE  /\ Agrees(sock', "closeEnds", {"closeEnds"} \cup R, R)
             /\ Agrees(sock', "stateChanged", {"stateChanged", "aboutToClose", "closeEnds"} \cup R,
                       {"aboutToClose", "closeEnds"} \cup R)
  <2>0. sock.closeFrames # 2 \/ sock.sent \/ sock.tcp = "Unconnected"
    BY <1>1, <1>3 DEF Agrees, Counts
  <2> DEFINE written == ~sock.sent /\ sock.tcp # "Unconnected"
             n == IF written THEN OneMore(sock.closeFrames) ELSE sock.closeFrames
             u == sock.unsent \/ written
  <2>1. sock \in SockType /\ sock.closeFrames \in 0 .. 2
    BY <1>1 DEF Agrees, SockType
  <2>2. /\ n \in 0 .. 2 /\ u \in BOOLEAN
        /\ \/ n = sock.closeFrames /\ (sock.sent \/ sock.tcp = "Unconnected")
           \/ n = sock.closeFrames + 1 /\ ~sock.sent /\ sock.tcp # "Unconnected"
    <3>1. CASE written
      BY <3>1, <2>0, <2>1 DEF OneMore
    <3>2. CASE ~written
      BY <3>2, <2>0, <2>1
    <3> QED BY <3>1, <3>2
  <2>3. sock' = [sock EXCEPT !.ws = "Closing", !.sent = TRUE, !.unsent = u, !.closeFrames = n]
    BY <1>3
  <2> HIDE DEF written, n, u
  <2>4. /\ sock' \in SockType
        /\ sock'.ws = "Closing" /\ sock'.sent = TRUE /\ sock'.tcp = sock.tcp
        /\ sock'.received = sock.received /\ sock'.open = sock.open
        /\ sock'.disconnects = sock.disconnects /\ sock'.before = sock.before
        /\ sock'.closeFrames = n
    BY <2>1, <2>2, <2>3 DEF SockType, States
  <2>5. Control(sock', "closeEnds", {"closeEnds"} \cup R)
    BY <1>1, <1>3, <2>4 DEF Agrees, Control, Fits, AtOnce, Hangs
  <2>6. Remains(sock', "closeEnds", {"closeEnds"} \cup R)
    BY <1>1, <1>3, <2>4 DEF Agrees, Remains
  <2>7. Heard(sock', "closeEnds", {"closeEnds"} \cup R, R)
    BY <1>1, <1>3, <2>4 DEF Agrees, Heard
  <2>8. Counts(sock', "closeEnds", {"closeEnds"} \cup R)
    BY <1>1, <1>3, <2>1, <2>2, <2>4 DEF Agrees, Counts, Cleared
  <2>9. Control(sock', "stateChanged", {"stateChanged", "aboutToClose", "closeEnds"} \cup R)
    BY <1>1, <1>3, <2>4 DEF Agrees, Control, Fits, AtOnce, Hangs
  <2>10. Remains(sock', "stateChanged", {"stateChanged", "aboutToClose", "closeEnds"} \cup R)
    BY <1>1, <1>3, <2>4 DEF Agrees, Remains
  <2>11. Heard(sock', "stateChanged", {"stateChanged", "aboutToClose", "closeEnds"} \cup R,
                  {"aboutToClose", "closeEnds"} \cup R)
    BY <1>1, <1>3, <2>4 DEF Agrees, Heard
  <2>12. Counts(sock', "stateChanged", {"stateChanged", "aboutToClose", "closeEnds"} \cup R)
    BY <1>1, <1>3, <2>1, <2>2, <2>4 DEF Agrees, Counts, Cleared
  <2> QED BY <2>4, <2>5, <2>6, <2>7, <2>8, <2>9, <2>10, <2>11, <2>12 DEF Agrees
<1>4. ASSUME sock.ws # "Unconnected",
             sock'.ws = "Closing", sock'.received = sock.received,
             Continue(IF sock.ws = "Closing" THEN <<"closeEnds">>
                      ELSE <<"stateChanged", "aboutToClose", "closeEnds">>),
             Agrees(sock', "closeEnds", {"closeEnds"} \cup R, R),
             Agrees(sock', "stateChanged", {"stateChanged", "aboutToClose", "closeEnds"} \cup R,
                           {"aboutToClose", "closeEnds"} \cup R)
      PROVE  Inv'
  <2>0. At("close") /\ Fits("closeEnds", Tail(stack))
    BY <1>1, <1>4 DEF Close, Fits, Hangs, AtEnd, Agrees, Control
  <2>1. CASE sock.ws = "Closing"
    <3>1. Continue(<<"closeEnds">>)
      BY <2>1, <1>4
    <3>2. /\ calls' = calls /\ Ordered(stack') /\ stack' # <<>>
          /\ Top(stack') = "closeEnds" /\ Range(stack') = {"closeEnds"} \cup R /\ Under(stack') = R
          /\ Twice(Tail(stack')) <=> Twice(Tail(stack))
      BY <2>0, <3>1, OnePushed DEF Step
    <3> QED BY <3>2, <1>1, <1>4 DEF Inv, Nested
  <2>2. CASE sock.ws # "Closing"
    <3>1. Continue(<<"stateChanged", "aboutToClose", "closeEnds">>)
      BY <2>2, <1>4
    <3>2. /\ calls' = calls /\ Ordered(stack') /\ stack' # <<>>
          /\ Top(stack') = "stateChanged"
          /\ Range(stack') = {"stateChanged", "aboutToClose", "closeEnds"} \cup R
          /\ Under(stack') = {"aboutToClose", "closeEnds"} \cup R
          /\ Twice(Tail(stack')) <=> Twice(Tail(stack)) \/ "closeEnds" \in R
      BY <2>0, <3>1, ThreePushed DEF Triples
    <3>3. sock.received => "closeEnds" \notin R
      BY <1>1, <2>2, <1>4 DEF Agrees, Heard
    <3> QED BY <3>2, <3>3, <1>1, <1>4 DEF Inv, Nested
  <2> QED BY <2>1, <2>2
<1> QED
  <2>1. CASE sock.ws = "Unconnected"
    BY <2>1, <1>2 DEF Close
  <2>2. CASE sock.ws # "Unconnected"
    <3>1. /\ sock' = [sock EXCEPT !.ws = "Closing", !.sent = TRUE,
                        !.unsent = @ \/ (~sock.sent /\ sock.tcp # "Unconnected"),
                        !.closeFrames = IF ~sock.sent /\ sock.tcp # "Unconnected" THEN OneMore(@) ELSE @]
          /\ Continue(IF sock.ws = "Closing" THEN <<"closeEnds">>
                      ELSE <<"stateChanged", "aboutToClose", "closeEnds">>)
      BY <2>2 DEF Close
    <3>2. sock'.ws = "Closing" /\ sock'.received = sock.received
      BY <3>1, <1>1 DEF Agrees, SockType
    <3> QED BY <3>1, <3>2, <2>2, <1>3, <1>4
  <2> QED BY <2>1, <2>2

LEMMA CloseEndsKeeps ==
  ASSUME Inv, CloseEnds
  PROVE  Inv'
<1> DEFINE R == Range(Tail(stack))
<1>1. /\ At("closeEnds") /\ calls \in 0 .. MaxNested
      /\ Fits("closeEnds", Tail(stack))
      /\ Agrees(sock, "closeEnds", {"closeEnds"} \cup R, R)
      /\ sock.received => ~Twice(Tail(stack))
      /\ sock.received /\ sock.ws = "Unconnected" => "closeEnds" \notin R
      /\ "goesUnconnected" \in {"closeEnds"} \cup R => "clearFlags" \in R
  BY StepOnTop DEF CloseEnds
<1>2. sock \in SockType
  BY <1>1 DEF Agrees
<1>3. CASE ~(sock.sent /\ sock.received)
  <2>1. ~sock.received
    BY <1>1, <1>3 DEF Agrees, Heard
  <2>2. Continue(<<>>) /\ UNCHANGED sock
    BY <1>3 DEF CloseEnds
  <2> QED BY <2>1, <2>2, <1>1, StepTaken
<1>4. CASE sock.sent /\ sock.received
  <2>1. /\ sock' = [sock EXCEPT !.ws = "Unconnected", !.disconnects = OneMore(@)]
        /\ Continue(<<"stateChanged", "disconnected", "tcpDisconnects">>)
    BY <1>4 DEF CloseEnds
  <2>2. sock.disconnects \in 0 .. 1
    BY <1>1, <1>2, <1>4 DEF Agrees, Heard, Counts, SockType
  <2>3. /\ sock' \in SockType
        /\ sock'.ws = "Unconnected" /\ sock'.disconnects = sock.disconnects + 1
        /\ sock'.tcp = sock.tcp /\ sock'.sent = sock.sent /\ sock'.received = sock.received
        /\ sock'.open = sock.open /\ sock'.before = sock.before
        /\ sock'.closeFrames = sock.closeFrames
    <3>1. OneMore(sock.disconnects) = sock.disconnects + 1 /\ sock.disconnects + 1 \in 0 .. 2
      BY <2>2 DEF OneMore
    <3> QED BY <1>2, <2>1, <3>1 DEF SockType, States
  <2>4. Fits("tcpDisconnects", Tail(stack))
    BY <1>1 DEF Fits, Hangs, AtEnd
  <2>5. /\ calls' = calls /\ Ordered(stack')
        /\ Top(stack') = "stateChanged"
        /\ Range(stack') = {"stateChanged", "disconnected", "tcpDisconnects"} \cup R
        /\ Under(stack') = {"disconnected", "tcpDisconnects"} \cup R
        /\ Twice(Tail(stack')) <=> Twice(Tail(stack))
        /\ Twice(stack') <=> Twice(Tail(stack))
    BY <1>1, <2>1, <2>4, ThreePushed DEF Triples
  <2>6. Control(sock', Top(stack'), Range(stack'))
    BY <1>1, <1>4, <2>3, <2>5 DEF Agrees, Control, Heard, Fits, AtOnce, Hangs
  <2>7. Remains(sock', Top(stack'), Range(stack'))
    BY <1>1, <1>4, <2>3, <2>5 DEF Agrees, Remains, Heard
  <2>8. Heard(sock', Top(stack'), Range(stack'), Under(stack'))
    BY <1>1, <1>2, <1>4, <2>2, <2>3, <2>5 DEF Agrees, Heard, Counts, SockType
  <2>9. Counts(sock', Top(stack'), Range(stack'))
    BY <1>1, <1>2, <1>4, <2>2, <2>3, <2>5 DEF Agrees, Counts, Control, Heard, Cleared, SockType
  <2>10. Nested(sock', stack')
    BY <1>1, <1>4, <2>3, <2>5 DEF Nested
  <2> QED BY <1>1, <2>3, <2>5, <2>6, <2>7, <2>8, <2>9, <2>10 DEF Inv, Agrees
<1> QED BY <1>3, <1>4

LEMMA TcpIsConnectingKeeps ==
  ASSUME Inv, TcpIsConnecting
  PROVE  Inv'
<1> DEFINE R == Range(Tail(stack))
<1>1. /\ At("tcpIsConnecting") /\ calls \in 0 .. MaxNested
      /\ Fits("tcpIsConnecting", Tail(stack))
      /\ Agrees(sock, "tcpIsConnecting", {"tcpIsConnecting"} \cup R, R)
  BY StepOnTop DEF TcpIsConnecting
<1>2. /\ sock' \in SockType /\ sock'.ws = "Connecting" /\ sock'.disconnects = sock.disconnects
      /\ sock'.tcp = sock.tcp /\ sock'.sent = sock.sent /\ sock'.received = sock.received
      /\ sock'.open = sock.open /\ sock'.before = sock.before
      /\ sock'.closeFrames = sock.closeFrames
  BY <1>1 DEF TcpIsConnecting, Agrees, SockType, States
<1>3. Fits("stateChanged", Tail(stack))
  BY <1>1 DEF Fits, Hangs, AtEnd
<1>4. /\ calls' = calls /\ Ordered(stack')
      /\ Top(stack') = "stateChanged" /\ Range(stack') = {"stateChanged"} \cup R /\ Under(stack') = R
  BY <1>1, <1>3, OnePushed DEF TcpIsConnecting, Signal
<1>5. Agrees(sock', Top(stack'), Range(stack'), Under(stack')) /\ ~sock'.received
  BY <1>1, <1>2, <1>4 DEF Agrees, Control, Remains, Heard, Counts, Cleared, Hangs
<1> QED BY <1>1, <1>4, <1>5 DEF Inv, Nested

LEMMA TcpIsConnectedKeeps ==
  ASSUME Inv, TcpIsConnected
  PROVE  Inv'
<1> DEFINE R == Range(Tail(stack))
<1>1. /\ At("tcpIsConnected") /\ calls \in 0 .. MaxNested
      /\ Fits("tcpIsConnected", Tail(stack))
      /\ Agrees(sock, "tcpIsConnected", {"tcpIsConnected"} \cup R, R)
      /\ sock.received => ~Twice(Tail(stack))
  BY StepOnTop DEF TcpIsConnected
<1>2. /\ sock' \in SockType /\ sock'.ws = sock.ws /\ sock'.disconnects = sock.disconnects
      /\ sock'.tcp = sock.tcp /\ sock'.sent = sock.sent /\ sock'.received = sock.received
      /\ sock'.open = sock.open /\ sock'.before = sock.before
      /\ sock'.closeFrames = sock.closeFrames
  BY <1>1 DEF TcpIsConnected, Agrees, SockType, States
<1>3. Continue(<<>>)
  BY DEF TcpIsConnected
<1>4. Agrees(sock', Top(stack'), Range(stack'), Under(stack'))
  <2>1. /\ Range(stack') = R /\ Under(stack') \subseteq R
        /\ Top(stack') \notin AtOnce
        /\ Top(stack') = "closeEnds" /\ "closeEnds" \in Under(stack') => Twice(Tail(stack))
    BY <1>1, <1>3, StackLeft
  <2> QED BY <1>1, <1>2, <2>1
            DEF Agrees, Control, Remains, Heard, Counts, Cleared, Fits, AtOnce, AtEnd, Hangs
<1>5. Nested(sock', stack')
  BY <1>1, <1>2, <1>3, StackLeft DEF Nested
<1> QED BY <1>1, <1>3, <1>4, <1>5, StackLeft DEF Inv

LEMMA TcpIsClosingKeeps ==
  ASSUME Inv, TcpIsClosing
  PROVE  Inv'
<1> DEFINE R == Range(Tail(stack))
<1>1. /\ At("tcpIsClosing") /\ calls \in 0 .. MaxNested
      /\ Fits("tcpIsClosing", Tail(stack))
      /\ Agrees(sock, "tcpIsClosing", {"tcpIsClosing"} \cup R, R)
      /\ sock.received => ~Twice(Tail(stack))
      /\ UNCHANGED sock
  BY StepOnTop DEF TcpIsClosing
<1>2. CASE sock.ws # "Connected"
  BY <1>1, <1>2, StepTaken DEF TcpIsClosing
<1>3. CASE sock.ws = "Connected"
  <2>1. Continue(<<"close", "goesClosing">>)
    BY <1>3 DEF TcpIsClosing
  <2>2. Fits("goesClosing", Tail(stack))
    BY <1>1 DEF Fits, Hangs, AtEnd
  <2>3. /\ calls' = calls /\ Ordered(stack')
        /\ Top(stack') = "close" /\ Range(stack') = {"close", "goesClosing"} \cup R
        /\ Under(stack') = {"goesClosing"} \cup R
    BY <1>1, <2>1, <2>2, TwoPushed DEF Pairs
  <2>4. ~sock.received
    BY <1>1, <1>3 DEF Agrees, Heard, Control
  <2>5. Agrees(sock, Top(stack'), Range(stack'), Under(stack'))
    BY <1>1, <1>3, <2>3, <2>4 DEF Agrees, Control, Remains, Heard, Counts, Cleared, Hangs
  <2> QED BY <1>1, <2>3, <2>4, <2>5 DEF Inv, Nested
<1> QED BY <1>2, <1>3

LEMMA GoesClosingKeeps ==
  ASSUME Inv, GoesClosing
  PROVE  Inv'
<1> DEFINE R == Range(Tail(stack))
<1>1. /\ At("goesClosing") /\ calls \in 0 .. MaxNested
      /\ Fits("goesClosing", Tail(stack))
      /\ Agrees(sock, "goesClosing", {"goesClosing"} \cup R, R)
  BY StepOnTop DEF GoesClosing
<1>2. /\ sock' \in SockType /\ sock'.ws = "Closing" /\ sock'.disconnects = sock.disconnects
      /\ sock'.tcp = sock.tcp /\ sock'.sent = sock.sent /\ sock'.received = sock.received
      /\ sock'.open = sock.open /\ sock'.before = sock.before
      /\ sock'.closeFrames = sock.closeFrames
  BY <1>1 DEF GoesClosing, Agrees, SockType, States
<1>3. Fits("aboutToClose", Tail(stack))
  BY <1>1 DEF Fits, Hangs, AtEnd
<1>4. /\ calls' = calls /\ Ordered(stack')
      /\ Top(stack') = "stateChanged" /\ Range(stack') = {"stateChanged", "aboutToClose"} \cup R
      /\ Under(stack') = {"aboutToClose"} \cup R
  BY <1>1, <1>3, TwoPushed DEF GoesClosing, Pairs
<1>5. Agrees(sock', Top(stack'), Range(stack'), Under(stack')) /\ ~sock'.received
  BY <1>1, <1>2, <1>4 DEF Agrees, Control, Remains, Heard, Counts, Cleared, Hangs
<1> QED BY <1>1, <1>4, <1>5 DEF Inv, Nested

LEMMA TcpIsUnconnectedKeeps ==
  ASSUME Inv, TcpIsUnconnected
  PROVE  Inv'
<1> DEFINE R == Range(Tail(stack))
<1>1. /\ At("tcpIsUnconnected") /\ calls \in 0 .. MaxNested
      /\ Fits("tcpIsUnconnected", Tail(stack))
      /\ Agrees(sock, "tcpIsUnconnected", {"tcpIsUnconnected"} \cup R, R)
      /\ sock.received => ~Twice(Tail(stack))
      /\ "goesUnconnected" \in {"tcpIsUnconnected"} \cup R => "clearFlags" \in R
      /\ UNCHANGED sock
  BY StepOnTop DEF TcpIsUnconnected
<1>2. Fits("clearFlags", Tail(stack))
  BY <1>1 DEF Fits, Hangs, AtEnd, Agrees, Control
<1>3. CASE sock.ws = "Unconnected"
  <2>1. Continue(<<"clearFlags">>)
    BY <1>3 DEF TcpIsUnconnected
  <2>2. /\ calls' = calls /\ Ordered(stack')
        /\ Top(stack') = "clearFlags" /\ Range(stack') = {"clearFlags"} \cup R
        /\ Under(stack') = R
        /\ Twice(Tail(stack')) <=> Twice(Tail(stack))
        /\ Twice(stack') <=> Twice(Tail(stack))
    BY <1>1, <1>2, <2>1, OnePushed DEF Step
  <2>3. Agrees(sock, Top(stack'), Range(stack'), Under(stack'))
    BY <1>1, <1>3, <2>2 DEF Agrees, Control, Remains, Heard, Counts, Cleared, Hangs
  <2> QED BY <1>1, <2>2, <2>3 DEF Inv, Nested
<1>4. CASE sock.ws # "Unconnected"
  <2>1. Continue(<<"error", "goesUnconnected", "clearFlags">>)
    BY <1>4 DEF TcpIsUnconnected
  <2>2. /\ calls' = calls /\ Ordered(stack')
        /\ Top(stack') = "error" /\ Range(stack') = {"error", "goesUnconnected", "clearFlags"} \cup R
        /\ Under(stack') = {"goesUnconnected", "clearFlags"} \cup R
    BY <1>1, <1>2, <2>1, ThreePushed DEF Triples
  <2>3. ~sock.received
    BY <1>1, <1>4 DEF Agrees, Heard, Control
  <2>4. Agrees(sock, Top(stack'), Range(stack'), Under(stack'))
    BY <1>1, <1>4, <2>2, <2>3 DEF Agrees, Control, Remains, Heard, Counts, Cleared, Hangs
  <2> QED BY <1>1, <2>2, <2>3, <2>4 DEF Inv, Nested
<1> QED BY <1>3, <1>4

LEMMA GoesUnconnectedKeeps ==
  ASSUME Inv, GoesUnconnected
  PROVE  Inv'
<1> DEFINE R == Range(Tail(stack))
<1>1. /\ At("goesUnconnected") /\ calls \in 0 .. MaxNested
      /\ Tail(stack) \in Stacks /\ Fits("goesUnconnected", Tail(stack))
      /\ Agrees(sock, "goesUnconnected", {"goesUnconnected"} \cup R, R)
      /\ "clearFlags" \in R
  BY StepOnTop DEF GoesUnconnected
<1>2. sock \in SockType /\ sock.ws # "Unconnected" /\ sock.disconnects = 0
  BY <1>1 DEF Agrees, Control, Counts
<1>3. /\ sock' \in SockType /\ sock'.ws = "Unconnected" /\ sock'.disconnects = 1
      /\ sock'.tcp = sock.tcp /\ sock'.sent = sock.sent /\ sock'.received = sock.received
      /\ sock'.open = sock.open /\ sock'.before = sock.before
      /\ sock'.closeFrames = sock.closeFrames
  <2>1. OneMore(sock.disconnects) = 1
    BY <1>2 DEF OneMore
  <2>2. sock' = [sock EXCEPT !.ws = "Unconnected", !.disconnects = 1]
    BY <2>1, <1>2 DEF GoesUnconnected
  <2>3. 1 \in 0 .. 2 /\ "Unconnected" \in States
    BY DEF States
  <2> QED BY <1>2, <2>2, <2>3 DEF SockType
<1>4. Fits("disconnected", Tail(stack))
  BY <1>1 DEF Fits, Hangs, AtEnd
<1>5. /\ calls' = calls /\ Ordered(stack')
      /\ Top(stack') = "stateChanged" /\ Range(stack') = {"stateChanged", "disconnected"} \cup R
      /\ Under(stack') = {"disconnected"} \cup R
  BY <1>1, <1>4, TwoPushed DEF GoesUnconnected, Pairs
<1>6. "goesUnconnected" \notin R
  <2>1. Ordered(Tail(stack)) /\ Tail(stack) # <<>> /\ Head(Tail(stack)) = "clearFlags"
    BY <1>1, StepOnTop DEF Fits, Top
  <2>2. /\ Ordered(Tail(Tail(stack))) /\ Fits("clearFlags", Tail(Tail(stack)))
        /\ R = {"clearFlags"} \cup Range(Tail(Tail(stack)))
    BY <2>1, Taken
  <2>3. "goesUnconnected" \notin Range(Tail(Tail(stack)))
    BY <2>2, ClearedAfter DEF Fits
  <2> QED BY <2>2, <2>3
<1>7. Agrees(sock', Top(stack'), Range(stack'), Under(stack')) /\ ~sock'.received
  BY <1>1, <1>2, <1>3, <1>5, <1>6 DEF Agrees, Control, Remains, Heard, Counts, Cleared, Hangs
<1> QED BY <1>1, <1>5, <1>7 DEF Inv, Nested

LEMMA ClearFlagsKeeps ==
  ASSUME Inv, ClearFlags
  PROVE  Inv'
<1> DEFINE R == Range(Tail(stack))
<1>1. /\ At("clearFlags") /\ calls \in 0 .. MaxNested
      /\ Tail(stack) \in Stacks /\ Fits("clearFlags", Tail(stack))
      /\ Agrees(sock, "clearFlags", {"clearFlags"} \cup R, R)
      /\ "goesUnconnected" \in {"clearFlags"} \cup R => "clearFlags" \in R
  BY StepOnTop DEF ClearFlags
<1>2. /\ sock' \in SockType /\ sock'.ws = sock.ws /\ sock'.disconnects = sock.disconnects
      /\ sock'.tcp = sock.tcp /\ sock'.sent = FALSE /\ sock'.received = FALSE
      /\ sock'.open = sock.open /\ sock'.before = sock.before
      /\ sock'.closeFrames = sock.closeFrames
  BY <1>1 DEF ClearFlags, Agrees, SockType
<1>3. Continue(<<>>)
  BY DEF ClearFlags
<1>4. Agrees(sock', Top(stack'), Range(stack'), Under(stack'))
  <2>1. /\ Range(stack') = R /\ Under(stack') \subseteq R
        /\ Top(stack') \notin AtOnce
        /\ Top(stack') = "closeEnds" /\ "closeEnds" \in Under(stack') => Twice(Tail(stack))
    BY <1>1, <1>3, StackLeft
  <2> QED BY <1>1, <1>2, <2>1
            DEF Agrees, Control, Remains, Heard, Counts, Cleared, Fits, AtOnce, AtEnd, Hangs
<1> QED BY <1>1, <1>2, <1>3, <1>4, StackLeft DEF Inv, Nested

----------------------------------------------------------------------------
\* The steps of tcpSocket.
LEMMA TcpReportsKeeps ==
  ASSUME Inv, TcpReports
  PROVE  Inv'
<1>1. /\ At("tcpReports") /\ calls \in 0 .. MaxNested
      /\ Fits("tcpReports", Tail(stack)) /\ Range(Tail(stack)) = {}
      /\ Agrees(sock, "tcpReports", {"tcpReports"}, {})
      /\ UNCHANGED sock
  <2>1. At("tcpReports") /\ UNCHANGED sock
    BY DEF TcpReports
  <2>2. /\ Fits("tcpReports", Tail(stack)) /\ calls \in 0 .. MaxNested
        /\ Agrees(sock, "tcpReports", {"tcpReports"} \cup Range(Tail(stack)), Range(Tail(stack)))
    BY <2>1, StepOnTop
  <2>3. Range(Tail(stack)) = {}
    BY <2>2, Empty DEF Fits, AtEnd
  <2> QED BY <2>1, <2>2, <2>3
<1>2. sock.tcp \in {"Unconnected", "Connecting"} /\ ~sock.received
  BY <1>1 DEF Agrees, Control
<1>3. CASE sock.tcp = "Unconnected"
  <2>1. Continue(<<"tcpIsUnconnected">>)
    BY <1>3 DEF TcpReports
  <2>2. Fits("tcpIsUnconnected", Tail(stack))
    BY <1>1 DEF Fits, AtEnd, Hangs
  <2>3. /\ calls' = calls /\ Ordered(stack')
        /\ Top(stack') = "tcpIsUnconnected" /\ Range(stack') = {"tcpIsUnconnected"}
        /\ Under(stack') = {}
    BY <1>1, <2>1, <2>2, OnePushed DEF Step
  <2>4. Agrees(sock, Top(stack'), Range(stack'), Under(stack'))
    BY <1>1, <1>2, <1>3, <2>3 DEF Agrees, Control, Remains, Heard, Counts, Cleared, Hangs
  <2> QED BY <1>1, <1>2, <2>3, <2>4 DEF Inv, Nested
<1>4. CASE sock.tcp # "Unconnected"
  <2>1. Continue(<<"tcpIsConnecting">>)
    BY <1>4 DEF TcpReports
  <2>2. Fits("tcpIsConnecting", Tail(stack))
    BY <1>1 DEF Fits, AtEnd, Hangs
  <2>3. /\ calls' = calls /\ Ordered(stack')
        /\ Top(stack') = "tcpIsConnecting" /\ Range(stack') = {"tcpIsConnecting"}
        /\ Under(stack') = {}
    BY <1>1, <2>1, <2>2, OnePushed DEF Step
  <2>4. Agrees(sock, Top(stack'), Range(stack'), Under(stack'))
    BY <1>1, <1>2, <1>4, <2>3 DEF Agrees, Control, Remains, Heard, Counts, Cleared, Hangs
  <2> QED BY <1>1, <1>2, <2>3, <2>4 DEF Inv, Nested
<1> QED BY <1>3, <1>4

LEMMA TcpDisconnectsKeeps ==
  ASSUME Inv, TcpDisconnects
  PROVE  Inv'
<1> DEFINE R == Range(Tail(stack))
<1>1. /\ At("tcpDisconnects") /\ calls \in 0 .. MaxNested
      /\ Fits("tcpDisconnects", Tail(stack))
      /\ Agrees(sock, "tcpDisconnects", {"tcpDisconnects"} \cup R, R)
      /\ sock.received => ~Twice(Tail(stack))
      /\ Twice(stack) <=> Twice(Tail(stack))
      /\ sock.tcp \in {"Connected", "Closing"}
  BY StepOnTop, Taken DEF TcpDisconnects, Inv, At
<1>2. /\ sock' \in SockType /\ sock'.ws = sock.ws /\ sock'.disconnects = sock.disconnects
      /\ sock'.tcp = "Closing" /\ sock'.sent = sock.sent /\ sock'.received = sock.received
      /\ sock'.open = sock.open /\ sock'.before = sock.before
      /\ sock'.closeFrames = sock.closeFrames
  BY <1>1 DEF TcpDisconnects, Agrees, SockType, States
<1>3. Fits("tcpWritesOut", Tail(stack))
  BY <1>1 DEF Fits, AtEnd, Hangs
<1>4. CASE sock.tcp = "Closing"
  <2>1. Continue(<<"tcpWritesOut">>)
    BY <1>4 DEF TcpDisconnects
  <2>2. /\ calls' = calls /\ Ordered(stack')
        /\ Top(stack') = "tcpWritesOut" /\ Range(stack') = {"tcpWritesOut"} \cup R
        /\ Under(stack') = R
        /\ Twice(Tail(stack')) <=> Twice(Tail(stack))
        /\ Twice(stack') <=> Twice(Tail(stack))
    BY <1>1, <1>3, <2>1, OnePushed DEF Step
  <2>3. Agrees(sock', Top(stack'), Range(stack'), Under(stack'))
    BY <1>1, <1>2, <1>4, <2>2 DEF Agrees, Control, Remains, Heard, Counts, Cleared, Hangs
  <2> QED BY <1>1, <1>2, <2>2, <2>3 DEF Inv, Nested
<1>5. CASE sock.tcp = "Connected"
  <2>1. Continue(<<"tcpIsClosing", "tcpWritesOut">>)
    BY <1>5 DEF TcpDisconnects
  <2>2. /\ calls' = calls /\ Ordered(stack')
        /\ Top(stack') = "tcpIsClosing" /\ Range(stack') = {"tcpIsClosing", "tcpWritesOut"} \cup R
        /\ Under(stack') = {"tcpWritesOut"} \cup R
        /\ Twice(Tail(stack')) <=> Twice(Tail(stack))
        /\ Twice(stack') <=> Twice(Tail(stack))
    BY <1>1, <1>3, <2>1, TwoPushed DEF Pairs
  <2>3. Agrees(sock', Top(stack'), Range(stack'), Under(stack'))
    BY <1>1, <1>2, <1>5, <2>2 DEF Agrees, Control, Remains, Heard, Counts, Cleared, Hangs
  <2> QED BY <1>1, <1>2, <2>2, <2>3 DEF Inv, Nested
<1> QED BY <1>1, <1>4, <1>5

\* tcpSocket goes Unconnected.
LEMMA GoneKeeps ==
  ASSUME Inv, NEW step \in {"tcpWritesOut", "tcpIsGone", "tcpAborts"}, At(step),
         Continue(<<"tcpIsUnconnected">>), sock.tcp # "Unconnected", NEW unsent \in BOOLEAN,
         sock' = [sock EXCEPT !.tcp = "Unconnected", !.unsent = unsent]
  PROVE  Inv'
<1> DEFINE R == Range(Tail(stack))
<1>1. /\ calls \in 0 .. MaxNested
      /\ Fits(step, Tail(stack))
      /\ Agrees(sock, step, {step} \cup R, R)
      /\ sock.received => ~Twice(Tail(stack))
      /\ step # "tcpWritesOut" => R = {}
  BY StepOnTop, Empty DEF Fits, AtEnd
<1>2. /\ sock' \in SockType /\ sock'.ws = sock.ws /\ sock'.disconnects = sock.disconnects
      /\ sock'.tcp = "Unconnected" /\ sock'.sent = sock.sent /\ sock'.received = sock.received
      /\ sock'.open = sock.open /\ sock'.before = sock.before
      /\ sock'.closeFrames = sock.closeFrames
  BY <1>1 DEF Agrees, SockType, States
<1>3. Fits("tcpIsUnconnected", Tail(stack))
  BY <1>1 DEF Fits, AtEnd, Hangs
<1>4. /\ calls' = calls /\ Ordered(stack')
      /\ Top(stack') = "tcpIsUnconnected" /\ Range(stack') = {"tcpIsUnconnected"} \cup R
      /\ Under(stack') = R
      /\ Twice(Tail(stack')) <=> Twice(Tail(stack))
      /\ Twice(stack') <=> Twice(Tail(stack))
  BY <1>1, <1>3, OnePushed DEF Step
<1>5. R \cap Hangs = {}
  BY <1>1 DEF Fits, Hangs
<1>6. Agrees(sock', Top(stack'), Range(stack'), Under(stack'))
  BY <1>1, <1>2, <1>4, <1>5 DEF Agrees, Control, Remains, Heard, Counts, Cleared, Hangs
<1> QED BY <1>1, <1>2, <1>4, <1>6 DEF Inv, Nested

LEMMA TcpWritesOutKeeps ==
  ASSUME Inv, TcpWritesOut
  PROVE  Inv'
<1>1. /\ At("tcpWritesOut") /\ sock \in SockType /\ sock.tcp = "Closing"
  BY StepOnTop DEF TcpWritesOut, Agrees, Control
<1>2. CASE sock.unsent
  BY <1>1, <1>2, StepTaken DEF TcpWritesOut
<1>3. CASE ~sock.unsent
  <2>1. sock' = [sock EXCEPT !.tcp = "Unconnected", !.unsent = FALSE]
    BY <1>1, <1>3 DEF TcpWritesOut, SockType
  <2> QED BY <1>1, <1>3, <2>1, GoneKeeps DEF TcpWritesOut
<1> QED BY <1>2, <1>3

LEMMA TcpEndsKeeps ==
  ASSUME Inv, TcpEnds
  PROVE  Inv'
<1>1. /\ At("tcpEnds") /\ calls \in 0 .. MaxNested
      /\ Fits("tcpEnds", Tail(stack)) /\ Range(Tail(stack)) = {}
      /\ Agrees(sock, "tcpEnds", {"tcpEnds"}, {})
  <2>1. At("tcpEnds")
    BY DEF TcpEnds
  <2>2. /\ Fits("tcpEnds", Tail(stack)) /\ calls \in 0 .. MaxNested
        /\ Agrees(sock, "tcpEnds", {"tcpEnds"} \cup Range(Tail(stack)), Range(Tail(stack)))
    BY <2>1, StepOnTop
  <2>3. Range(Tail(stack)) = {}
    BY <2>2, Empty DEF Fits, AtEnd
  <2> QED BY <2>1, <2>2, <2>3
<1>2. /\ sock' \in SockType /\ sock'.ws = sock.ws /\ sock'.disconnects = sock.disconnects
      /\ sock'.tcp = "Closing" /\ sock'.sent = sock.sent /\ sock'.received = sock.received
      /\ sock'.open = sock.open /\ sock'.before = sock.before
      /\ sock'.closeFrames = sock.closeFrames
  BY <1>1 DEF TcpEnds, Agrees, SockType, States
<1>3. Fits("tcpIsGone", Tail(stack))
  BY <1>1 DEF Fits, AtEnd, Hangs
<1>4. /\ calls' = calls /\ Ordered(stack')
      /\ Top(stack') = "tcpIsClosing" /\ Range(stack') = {"tcpIsClosing", "tcpIsGone"}
      /\ Under(stack') = {"tcpIsGone"}
  BY <1>1, <1>3, TwoPushed DEF TcpEnds, Pairs
<1>5. Agrees(sock', Top(stack'), Range(stack'), Under(stack')) /\ ~sock'.received
  BY <1>1, <1>2, <1>4 DEF Agrees, Control, Remains, Heard, Counts, Cleared, Hangs
<1> QED BY <1>1, <1>2, <1>4, <1>5 DEF Inv, Nested

LEMMA TcpIsGoneKeeps ==
  ASSUME Inv, TcpIsGone
  PROVE  Inv'
<1>1. At("tcpIsGone") /\ sock.tcp = "Closing"
  BY StepOnTop DEF TcpIsGone, Agrees, Control
<1> QED BY <1>1, GoneKeeps DEF TcpIsGone

LEMMA TcpAbortsKeeps ==
  ASSUME Inv, TcpAborts
  PROVE  Inv'
<1>1. CASE sock.tcp = "Unconnected"
  BY <1>1, StepTaken DEF TcpAborts
<1>2. CASE sock.tcp # "Unconnected"
  BY <1>2, GoneKeeps DEF TcpAborts
<1> QED BY <1>1, <1>2

\* A slot returns.
LEMMA SlotReturnsKeeps ==
  ASSUME Inv, SlotReturns
  PROVE  Inv'
<1>1. At(Head(stack)) /\ Head(stack) \in Signal
  BY DEF SlotReturns, At, Idle
<1> QED BY <1>1, StepTaken DEF SlotReturns

----------------------------------------------------------------------------
\* What is noted of a call.
LEMMA NotedFacts ==
  ASSUME NEW call \in {"disconnectFromHost", "connectToHost"}
  PROVE  /\ Noted(call) \subseteq NotedCalls
         /\ \A c, step : <<c, step>> \in Noted(call) <=>
              /\ c = call /\ step \in {"closeEnds", "goesUnconnected", "clearFlags"}
              /\ step \in Range(stack)
BY DEF Noted, NotedCalls

\* Where the user may call, no step of the socket is under way on top.
LEMMA CallFacts ==
  ASSUME Inv, MayCall
  PROVE  /\ stack \in Stacks /\ Ordered(stack) /\ Fits("close", stack)
         /\ Top(stack) \in Signal \cup {"none"}
         /\ calls \in 0 .. MaxNested
         /\ Agrees(sock, Top(stack), Range(stack), Under(stack))
         /\ sock.received => ~Twice(stack)
         /\ Range(stack) = {} \/ Range(stack) = {Top(stack)} \cup Under(stack)
<1>1. /\ stack \in Stacks /\ Ordered(stack) /\ calls \in 0 .. MaxNested /\ Nested(sock, stack)
      /\ Agrees(sock, Top(stack), Range(stack), Under(stack))
  BY DEF Inv, Ordered
<1>2. CASE stack = <<>>
  BY <1>1, <1>2, Empty DEF Fits, AtEnd, Hangs
<1>3. CASE stack # <<>>
  <2>1. Head(stack) \in Signal
    BY <1>3 DEF MayCall, Idle
  <2>2. /\ Top(stack) = Head(stack) /\ Range(stack) = {Head(stack)} \cup Under(stack)
        /\ Under(stack) = Range(Tail(stack)) /\ Fits(Head(stack), Tail(stack))
        /\ Twice(stack) <=> \/ Twice(Tail(stack))
                            \/ Head(stack) = "closeEnds" /\ "closeEnds" \in Range(Tail(stack))
    BY <1>1, <1>3, Taken
  <2>3. sock.received => ~Twice(stack)
    BY <1>1, <1>3, <2>1, <2>2 DEF Nested, Signal
  <2>4. Fits("close", stack)
    BY <2>1, <2>2 DEF Fits, Signal, AtOnce, AtEnd, Hangs
  <2> QED BY <1>1, <2>1, <2>2, <2>3, <2>4
<1> QED BY <1>2, <1>3

\* A call puts its first step on the stack.
LEMMA CallPushed ==
  ASSUME Inv, MayCall, NEW a \in {"close", "tcpIsConnecting"}, Call(<<a>>)
  PROVE  /\ calls' \in 0 .. MaxNested /\ Ordered(stack')
         /\ Top(stack') = a /\ Range(stack') = {a} \cup Range(stack) /\ Under(stack') = Range(stack)
         /\ Twice(Tail(stack')) <=> Twice(stack)
         /\ Twice(stack') <=> Twice(stack)
<1>1. stack \in Stacks /\ Ordered(stack) /\ Fits(a, stack) /\ calls \in 0 .. MaxNested
  BY CallFacts DEF Fits, AtEnd, Hangs
<1>2. stack' = Put(a, stack) /\ a \in Step \cup Signal
  BY <1>1, PutSteps DEF Call, Step
<1>3. calls' \in 0 .. MaxNested
  BY <1>1, MaxNestedIsNat DEF Call, MayCall
<1> QED BY <1>1, <1>2, <1>3, OnePut

\* The calls of the user.
LEMMA DisconnectFromHostKeeps ==
  ASSUME Inv, DisconnectFromHost
  PROVE  Inv'
<1> DEFINE S == Range(stack)
           noted == Noted("disconnectFromHost")
<1>1. /\ Top(stack) \in Signal \cup {"none"}
      /\ Agrees(sock, Top(stack), S, Under(stack))
      /\ sock.received => ~Twice(stack)
  BY CallFacts DEF DisconnectFromHost
<1>2. /\ noted \subseteq NotedCalls
      /\ "closeEnds" \in S => <<"disconnectFromHost", "closeEnds">> \in noted
      /\ "clearFlags" \in S => <<"disconnectFromHost", "clearFlags">> \in noted
  BY NotedFacts
<1>3. sock' = [sock EXCEPT !.before = sock.before \cup noted] /\ MayCall /\ Call(<<"close">>)
  BY DEF DisconnectFromHost
<1> HIDE DEF noted
<1>4. /\ sock' \in SockType /\ sock'.ws = sock.ws /\ sock'.disconnects = sock.disconnects
      /\ sock'.tcp = sock.tcp /\ sock'.sent = sock.sent /\ sock'.received = sock.received
      /\ sock'.open = sock.open /\ sock'.before = sock.before \cup noted
      /\ sock'.closeFrames = sock.closeFrames
  BY <1>1, <1>2, <1>3 DEF Agrees, SockType
<1>5. /\ calls' \in 0 .. MaxNested /\ Ordered(stack')
      /\ Top(stack') = "close" /\ Range(stack') = {"close"} \cup S /\ Under(stack') = S
      /\ Twice(Tail(stack')) <=> Twice(stack)
      /\ Twice(stack') <=> Twice(stack)
  BY <1>3, CallPushed
<1>6. Agrees(sock', Top(stack'), Range(stack'), Under(stack'))
  BY <1>1, <1>2, <1>4, <1>5 DEF Agrees, Control, Remains, Heard, Counts, Cleared, Signal, Hangs
<1> QED BY <1>1, <1>4, <1>5, <1>6 DEF Inv, Nested

LEMMA ConnectToHostKeeps ==
  ASSUME Inv, ConnectToHost
  PROVE  Inv'
<1> DEFINE S == Range(stack)
           noted == Noted("connectToHost")
<1>1. /\ Top(stack) \in Signal \cup {"none"}
      /\ Agrees(sock, Top(stack), S, Under(stack))
      /\ sock.received => ~Twice(stack)
      /\ stack \in Stacks /\ calls \in 0 .. MaxNested
      /\ "goesUnconnected" \in S => "clearFlags" \in S
  BY CallFacts, ClearedAfter DEF ConnectToHost
<1>2. /\ noted \subseteq NotedCalls
      /\ "goesUnconnected" \in S => <<"connectToHost", "goesUnconnected">> \in noted
      /\ "clearFlags" \in S => <<"connectToHost", "clearFlags">> \in noted
  BY NotedFacts
<1>3. CASE sock.tcp = "Unconnected"
  <2>1. /\ sock' = [NewSocket EXCEPT
                      !.ws = sock.ws, !.tcp = "Connecting",
                      !.sent = sock.sent, !.received = sock.received, !.before = noted]
        /\ MayCall /\ Call(<<"tcpIsConnecting">>)
    BY <1>3 DEF ConnectToHost
  <2> HIDE DEF noted
  <2>2. /\ sock' \in SockType /\ sock'.ws = sock.ws /\ sock'.disconnects = 0
        /\ sock'.tcp = "Connecting" /\ sock'.sent = sock.sent /\ sock'.received = sock.received
        /\ sock'.open = FALSE /\ sock'.before = noted /\ sock'.closeFrames = 0
    <3>1. 0 \in 0 .. 2 /\ FALSE \in BOOLEAN /\ "Connecting" \in States /\ "Unconnected" \in States
          /\ {} \in SUBSET NotedCalls
      BY DEF States
    <3>2. NewSocket \in SockType /\ NewSocket.open = FALSE
          /\ NewSocket.disconnects = 0 /\ NewSocket.closeFrames = 0
      BY <3>1 DEF NewSocket, SockType
    <3>3. /\ sock.ws \in States /\ sock.sent \in BOOLEAN /\ sock.received \in BOOLEAN
          /\ noted \in SUBSET NotedCalls
      BY <1>1, <1>2 DEF Agrees, SockType
    <3> QED BY <2>1, <3>1, <3>2, <3>3 DEF SockType
  <2>3. ~sock.received
    BY <1>1, <1>3 DEF Agrees, Heard, Signal
  <2>4. /\ calls' \in 0 .. MaxNested /\ Ordered(stack')
        /\ Top(stack') = "tcpIsConnecting" /\ Range(stack') = {"tcpIsConnecting"} \cup S
        /\ Under(stack') = S
    BY <2>1, CallPushed
  <2>5. Agrees(sock', Top(stack'), Range(stack'), Under(stack'))
    BY <1>1, <1>2, <1>3, <2>2, <2>3, <2>4
       DEF Agrees, Control, Remains, Heard, Counts, Cleared, Signal, Hangs
  <2> QED BY <2>2, <2>3, <2>4, <2>5 DEF Inv, Nested
<1>4. CASE sock.tcp # "Unconnected"
  <2>1. /\ sock' = [sock EXCEPT !.before = sock.before \cup noted]
        /\ MayCall /\ Call(<<>>)
    BY <1>4 DEF ConnectToHost
  <2> HIDE DEF noted
  <2>2. /\ sock' \in SockType /\ sock'.ws = sock.ws /\ sock'.disconnects = sock.disconnects
        /\ sock'.tcp = sock.tcp /\ sock'.sent = sock.sent /\ sock'.received = sock.received
        /\ sock'.open = sock.open /\ sock'.before = sock.before \cup noted
        /\ sock'.closeFrames = sock.closeFrames
    BY <1>1, <1>2, <2>1 DEF Agrees, SockType
  <2>3. stack' = stack /\ calls' \in 0 .. MaxNested
    BY <1>1, <2>1, PutSteps, MaxNestedIsNat DEF Call, MayCall
  <2>4. Agrees(sock', Top(stack), S, Under(stack))
    BY <1>1, <2>2 DEF Agrees, Control, Remains, Heard, Counts, Cleared
  <2> QED BY <2>2, <2>3, <2>4 DEF Inv, Nested
<1> QED BY <1>3, <1>4

----------------------------------------------------------------------------
\* An event that sets off one step.
LEMMA OneStarted ==
  ASSUME NEW a \in {"close", "tcpIsConnected", "tcpIsUnconnected"}, Event(<<a>>)
  PROVE  /\ calls' \in 0 .. MaxNested /\ Ordered(stack')
         /\ Top(stack') = a /\ Range(stack') = {a} /\ Under(stack') = {}
         /\ ~Twice(stack') /\ ~Twice(Tail(stack'))
<1>1. Fits(a, <<>>) /\ a \in Step \cup Signal
  BY Empty DEF Fits, AtEnd, Hangs, Step
<1>2. <<a>> = Put(a, <<>>)
  <2>1. <<a>> \o <<>> = Put(a, <<>>)
    BY DEF Put
  <2>2. <<a>> \in Seq({a})
    OBVIOUS
  <2> QED BY <2>1, <2>2, ConcatEmptySeq
<1>3. stack' = Put(a, <<>>) /\ calls' = 0
  BY <1>2 DEF Event
<1>4. 0 \in 0 .. MaxNested
  BY MaxNestedIsNat
<1>5. /\ Ordered(Put(a, <<>>)) /\ Top(Put(a, <<>>)) = a
      /\ Range(Put(a, <<>>)) = {a} \cup Range(<<>>) /\ Under(Put(a, <<>>)) = Range(<<>>)
      /\ Tail(Put(a, <<>>)) = <<>> /\ (Twice(Put(a, <<>>)) => Twice(<<>>) \/ a = "closeEnds")
  BY <1>1, Empty, OnePut
<1> QED BY <1>3, <1>4, <1>5, Empty

\* The pairs of steps an event sets off.
Started ==
  {<<"close", "tcpAborts">>, <<"error", "tcpReports">>, <<"stateChanged", "connected">>,
   <<"error", "tcpEnds">>}

\* An event that sets off two.
LEMMA TwoStarted ==
  ASSUME NEW a, NEW b, <<a, b>> \in Started, Event(<<a, b>>)
  PROVE  /\ calls' \in 0 .. MaxNested /\ Ordered(stack')
         /\ Top(stack') = a /\ Range(stack') = {a, b} /\ Under(stack') = {b}
         /\ ~Twice(stack') /\ ~Twice(Tail(stack'))
<1>1. /\ a \in {"close", "error", "stateChanged"} /\ b \in {"tcpAborts", "tcpReports", "connected", "tcpEnds"}
      /\ a \in Step \cup Signal /\ b \in Step \cup Signal
  BY DEF Started, Step, Signal
<1>2. Fits(b, <<>>)
  BY <1>1, Empty DEF Fits
<1>3. Fits(a, Put(b, <<>>))
  <2>1. Range(Put(b, <<>>)) = {b} /\ Top(Put(b, <<>>)) = b
    BY <1>1, <1>2, Empty, OnePut
  <2> QED BY <1>1, <2>1 DEF Fits, AtOnce, AtEnd, Hangs
<1>4. <<a, b>> = Put(a, Put(b, <<>>))
  <2>1. <<a, b>> \o <<>> = Put(a, Put(b, <<>>))
    BY <1>1, Empty, PutSteps
  <2>2. <<a, b>> \in Seq({a, b})
    OBVIOUS
  <2> QED BY <2>1, <2>2, ConcatEmptySeq
<1>5. stack' = Put(a, Put(b, <<>>)) /\ calls' = 0
  BY <1>4 DEF Event
<1>6. 0 \in 0 .. MaxNested
  BY MaxNestedIsNat
<1> QED BY <1>1, <1>2, <1>3, <1>5, <1>6, Empty, TwoPut

\* What is known of the socket between two events.
LEMMA BetweenEvents ==
  ASSUME Inv, stack = <<>>
  PROVE  Agrees(sock, "none", {}, {}) /\ sock \in SockType /\ calls \in 0 .. MaxNested
BY Empty DEF Inv, Agrees

\* Each event keeps the invariant.
LEMMA EventsKeep ==
  ASSUME Inv,
         \/ Abort \/ TcpConnects \/ TcpRefused \/ HandshakeAccepted \/ CloseFrameArrives
         \/ TcpWrites \/ TcpFlushed \/ TcpHangsUp
  PROVE  Inv'
<1>1. Agrees(sock, "none", {}, {}) /\ sock \in SockType /\ stack = <<>> /\ calls \in 0 .. MaxNested
  BY BetweenEvents
     DEF Event, Idle, Abort, TcpConnects, TcpRefused, HandshakeAccepted, CloseFrameArrives,
         TcpWrites, TcpFlushed, TcpHangsUp
<1>2. CASE Abort
  <2>1. /\ calls' \in 0 .. MaxNested /\ Ordered(stack')
        /\ Top(stack') = "close" /\ Range(stack') = {"close", "tcpAborts"}
        /\ Under(stack') = {"tcpAborts"} /\ ~Twice(stack') /\ ~Twice(Tail(stack'))
    BY <1>2, TwoStarted DEF Abort, Started
  <2>2. Agrees(sock, Top(stack'), Range(stack'), Under(stack'))
    BY <1>1, <2>1 DEF Agrees, Control, Remains, Heard, Counts, Cleared, Hangs
  <2> QED BY <1>2, <2>1, <2>2 DEF Abort, Inv, Nested
<1>3. CASE TcpConnects
  <2>1. /\ calls' \in 0 .. MaxNested /\ Ordered(stack')
        /\ Top(stack') = "tcpIsConnected" /\ Range(stack') = {"tcpIsConnected"}
        /\ Under(stack') = {} /\ ~Twice(stack') /\ ~Twice(Tail(stack'))
    BY <1>3, OneStarted DEF TcpConnects
  <2>2. /\ sock' \in SockType /\ sock'.ws = sock.ws /\ sock'.disconnects = sock.disconnects
        /\ sock'.tcp = "Connected" /\ sock'.sent = sock.sent /\ sock'.received = sock.received
        /\ sock'.open = sock.open /\ sock'.before = sock.before
        /\ sock'.closeFrames = sock.closeFrames /\ sock.tcp = "Connecting"
    BY <1>1, <1>3 DEF TcpConnects, SockType, States
  <2>3. Agrees(sock', Top(stack'), Range(stack'), Under(stack'))
    BY <1>1, <2>1, <2>2 DEF Agrees, Control, Remains, Heard, Counts, Cleared, Hangs
  <2> QED BY <2>1, <2>3 DEF Inv, Nested
<1>4. CASE TcpRefused
  <2>1. /\ calls' \in 0 .. MaxNested /\ Ordered(stack')
        /\ Top(stack') = "error" /\ Range(stack') = {"error", "tcpReports"}
        /\ Under(stack') = {"tcpReports"} /\ ~Twice(stack') /\ ~Twice(Tail(stack'))
    BY <1>4, TwoStarted DEF TcpRefused, Started
  <2>2. /\ sock' \in SockType /\ sock'.ws = sock.ws /\ sock'.disconnects = sock.disconnects
        /\ sock'.tcp = "Unconnected" /\ sock'.sent = sock.sent /\ sock'.received = sock.received
        /\ sock'.open = sock.open /\ sock'.before = sock.before
        /\ sock'.closeFrames = sock.closeFrames /\ sock.tcp = "Connecting"
    BY <1>1, <1>4 DEF TcpRefused, SockType, States
  <2>3. Agrees(sock', Top(stack'), Range(stack'), Under(stack'))
    BY <1>1, <2>1, <2>2 DEF Agrees, Control, Remains, Heard, Counts, Cleared, Hangs
  <2> QED BY <2>1, <2>3 DEF Inv, Nested
<1>5. CASE HandshakeAccepted
  <2>1. /\ calls' \in 0 .. MaxNested /\ Ordered(stack')
        /\ Top(stack') = "stateChanged" /\ Range(stack') = {"stateChanged", "connected"}
        /\ Under(stack') = {"connected"} /\ ~Twice(stack') /\ ~Twice(Tail(stack'))
    BY <1>5, TwoStarted DEF HandshakeAccepted, Started
  <2>2. /\ sock' \in SockType /\ sock'.ws = "Connected" /\ sock'.disconnects = sock.disconnects
        /\ sock'.tcp = sock.tcp /\ sock'.sent = sock.sent /\ sock'.received = sock.received
        /\ sock'.open = TRUE /\ sock'.before = sock.before
        /\ sock'.closeFrames = sock.closeFrames /\ sock.tcp = "Connected" /\ sock.ws = "Connecting"
    BY <1>1, <1>5 DEF HandshakeAccepted, SockType, States
  <2>3. Agrees(sock', Top(stack'), Range(stack'), Under(stack'))
    BY <1>1, <2>1, <2>2 DEF Agrees, Control, Remains, Heard, Counts, Cleared, Hangs
  <2> QED BY <2>1, <2>3 DEF Inv, Nested
<1>6. CASE CloseFrameArrives
  <2>1. /\ calls' \in 0 .. MaxNested /\ Ordered(stack')
        /\ Top(stack') = "close" /\ Range(stack') = {"close"}
        /\ Under(stack') = {} /\ ~Twice(stack') /\ ~Twice(Tail(stack'))
    BY <1>6, OneStarted DEF CloseFrameArrives
  <2>2. /\ sock' \in SockType /\ sock'.ws = sock.ws /\ sock'.disconnects = sock.disconnects
        /\ sock'.tcp = sock.tcp /\ sock'.sent = sock.sent /\ sock'.received = TRUE
        /\ sock'.open = sock.open /\ sock'.before = sock.before
        /\ sock'.closeFrames = sock.closeFrames /\ sock.tcp = "Connected" /\ sock.open /\ ~sock.received
    BY <1>1, <1>6 DEF CloseFrameArrives, SockType
  <2>3. Agrees(sock', Top(stack'), Range(stack'), Under(stack'))
    BY <1>1, <2>1, <2>2 DEF Agrees, Control, Remains, Heard, Counts, Cleared, Hangs
  <2> QED BY <2>1, <2>3 DEF Inv, Nested
<1>7. CASE TcpWrites
  <2>1. /\ sock' \in SockType /\ sock'.ws = sock.ws /\ sock'.disconnects = sock.disconnects
        /\ sock'.tcp = sock.tcp /\ sock'.sent = sock.sent /\ sock'.received = sock.received
        /\ sock'.open = sock.open /\ sock'.before = sock.before
        /\ sock'.closeFrames = sock.closeFrames
    BY <1>1, <1>7 DEF TcpWrites, SockType
  <2>2. Agrees(sock', "none", {}, {})
    BY <1>1, <2>1 DEF Agrees, Control, Remains, Heard, Counts, Cleared
  <2> QED BY <1>1, <1>7, <2>1, <2>2, Empty DEF TcpWrites, Inv, Nested
<1>8. CASE TcpFlushed
  <2>1. /\ calls' \in 0 .. MaxNested /\ Ordered(stack')
        /\ Top(stack') = "tcpIsUnconnected" /\ Range(stack') = {"tcpIsUnconnected"}
        /\ Under(stack') = {} /\ ~Twice(stack') /\ ~Twice(Tail(stack'))
    BY <1>8, OneStarted DEF TcpFlushed
  <2>2. /\ sock' \in SockType /\ sock'.ws = sock.ws /\ sock'.disconnects = sock.disconnects
        /\ sock'.tcp = "Unconnected" /\ sock'.sent = sock.sent /\ sock'.received = sock.received
        /\ sock'.open = sock.open /\ sock'.before = sock.before
        /\ sock'.closeFrames = sock.closeFrames /\ sock.tcp = "Closing"
    BY <1>1, <1>8 DEF TcpFlushed, SockType, States
  <2>3. Agrees(sock', Top(stack'), Range(stack'), Under(stack'))
    BY <1>1, <2>1, <2>2 DEF Agrees, Control, Remains, Heard, Counts, Cleared, Hangs
  <2> QED BY <2>1, <2>3 DEF Inv, Nested
<1>9. CASE TcpHangsUp
  <2>1. /\ calls' \in 0 .. MaxNested /\ Ordered(stack')
        /\ Top(stack') = "error" /\ Range(stack') = {"error", "tcpEnds"}
        /\ Under(stack') = {"tcpEnds"} /\ ~Twice(stack') /\ ~Twice(Tail(stack'))
    BY <1>9, TwoStarted DEF TcpHangsUp, Started
  <2>2. Agrees(sock, Top(stack'), Range(stack'), Under(stack'))
    BY <1>1, <1>9, <2>1 DEF TcpHangsUp, Agrees, Control, Remains, Heard, Counts, Cleared, Hangs
  <2> QED BY <1>9, <2>1, <2>2 DEF TcpHangsUp, Inv, Nested
<1> QED BY <1>2, <1>3, <1>4, <1>5, <1>6, <1>7, <1>8, <1>9

----------------------------------------------------------------------------
\* The invariant holds of a new socket, and every step keeps it.
LEMMA InitInv ==
  ASSUME Init
  PROVE  Inv
<1>1. sock = NewSocket /\ stack = <<>> /\ calls = 0
  BY DEF Init
<1>2. sock \in SockType
  <2>1. 0 \in 0 .. 2 /\ FALSE \in BOOLEAN /\ "Unconnected" \in States /\ {} \in SUBSET NotedCalls
    BY DEF States
  <2> QED BY <1>1, <2>1 DEF NewSocket, SockType
<1>3. Agrees(sock, "none", {}, {}) /\ ~sock.received
  BY <1>1, <1>2 DEF NewSocket, Agrees, Control, Remains, Heard, Counts, Hangs
<1>4. Agrees(sock, Top(stack), Range(stack), Under(stack)) /\ Ordered(stack)
  BY <1>1, <1>3, Empty
<1>5. Nested(sock, stack) /\ calls \in 0 .. MaxNested
  BY <1>1, <1>3, MaxNestedIsNat DEF Nested
<1> QED BY <1>4, <1>5 DEF Inv

LEMMA NextInv ==
  ASSUME Inv, [Next]_vars
  PROVE  Inv'
<1>1. CASE Close
  BY <1>1, CloseKeeps
<1>2. CASE CloseEnds
  BY <1>2, CloseEndsKeeps
<1>3. CASE TcpIsConnecting
  BY <1>3, TcpIsConnectingKeeps
<1>4. CASE TcpIsConnected
  BY <1>4, TcpIsConnectedKeeps
<1>5. CASE TcpIsClosing
  BY <1>5, TcpIsClosingKeeps
<1>6. CASE GoesClosing
  BY <1>6, GoesClosingKeeps
<1>7. CASE TcpIsUnconnected
  BY <1>7, TcpIsUnconnectedKeeps
<1>8. CASE GoesUnconnected
  BY <1>8, GoesUnconnectedKeeps
<1>9. CASE ClearFlags
  BY <1>9, ClearFlagsKeeps
<1>10. CASE TcpReports
  BY <1>10, TcpReportsKeeps
<1>11. CASE TcpDisconnects
  BY <1>11, TcpDisconnectsKeeps
<1>12. CASE TcpWritesOut
  BY <1>12, TcpWritesOutKeeps
<1>13. CASE TcpEnds
  BY <1>13, TcpEndsKeeps
<1>14. CASE TcpIsGone
  BY <1>14, TcpIsGoneKeeps
<1>15. CASE TcpAborts
  BY <1>15, TcpAbortsKeeps
<1>16. CASE DisconnectFromHost
  BY <1>16, DisconnectFromHostKeeps
<1>17. CASE ConnectToHost
  BY <1>17, ConnectToHostKeeps
<1>18. CASE SlotReturns
  BY <1>18, SlotReturnsKeeps
<1>19. CASE \/ Abort \/ TcpConnects \/ TcpRefused \/ HandshakeAccepted \/ CloseFrameArrives
            \/ TcpWrites \/ TcpFlushed \/ TcpHangsUp
  BY <1>19, EventsKeep
<1>20. CASE UNCHANGED vars
  BY <1>20 DEF vars, Inv, Nested
<1> QED
  BY <1>1, <1>2, <1>3, <1>4, <1>5, <1>6, <1>7, <1>8, <1>9, <1>10, <1>11, <1>12, <1>13, <1>14,
     <1>15, <1>16, <1>17, <1>18, <1>19, <1>20 DEF Next

\* What is under way in the socket, and what slots have begun on top of it,
\* always agrees with the socket's states, flags and counts.
THEOREM SlotsStayOrdered == Spec => []Inv
<1>1. Init => Inv
  BY InitInv
<1>2. Inv /\ [Next]_vars => Inv'
  BY NextInv
<1> QED BY <1>1, <1>2, PTL DEF Spec

\* The socket and the stack keep their types; in particular no connection ever
\* sees a third Close frame or a third disconnected(), however many calls the
\* slots make, one inside the other.
THEOREM TypeCorrect == Spec => []TypeOK
<1>1. Inv => TypeOK
  BY DEF Inv, Agrees, SockType, States, Ordered, Stacks, TypeOK
<1> QED BY <1>1, SlotsStayOrdered, PTL

\* Once an event is handled, whatever the slots called meanwhile, the socket
\* is in order (processTcpStateChanged(), 520-556, and close(), 83-171).
THEOREM EverySettles == Spec => []Settled
<1>1. ASSUME Inv PROVE Settled
  <2>1. CASE Idle
    <3>1. Agrees(sock, "none", {}, {})
      BY <1>1, <2>1, BetweenEvents DEF Idle
    <3>2. NothingLeftOver
      BY <3>1 DEF Agrees, Remains, NothingLeftOver
    <3>3. NotAbandoned
      BY <3>1 DEF Agrees, Remains, SockType, States, NotAbandoned
    <3>4. OneCloseFrame
      BY <3>1 DEF Agrees, Counts, Cleared, SockType, OneCloseFrame
    <3>5. DisconnectedOnce
      BY <3>1 DEF Agrees, Counts, DisconnectedOnce
    <3> QED BY <3>2, <3>3, <3>4, <3>5 DEF Settled
  <2>2. CASE ~Idle
    BY <2>2 DEF Settled
  <2> QED BY <2>1, <2>2
<1> QED BY <1>1, SlotsStayOrdered, PTL

\* A slot of disconnected() connects again at once, unless both Close frames
\* are through and close() is still to hang up (160-169).
THEOREM ReconnectIsHonoured == Spec => ReconnectHonoured
<1>1. ASSUME Inv, At("disconnected"), sock.tcp \in {"Connected", "Closing"}
      PROVE  sock.sent /\ sock.received
  <2> DEFINE R == Range(Tail(stack))
  <2>1. /\ Ordered(Tail(stack)) /\ Fits("disconnected", Tail(stack))
        /\ Agrees(sock, "disconnected", {"disconnected"} \cup R, R)
    BY <1>1, StepOnTop
  <2>2. Tail(stack) # <<>> /\ Head(Tail(stack)) \in {"clearFlags", "tcpDisconnects"}
    BY <2>1 DEF Fits, Top
  <2>3. Head(Tail(stack)) \in R
    BY <2>1, <2>2, Taken
  <2> QED BY <1>1, <2>1, <2>2, <2>3 DEF Agrees, Control, Hangs
<1>2. Inv /\ [Next]_vars =>
        [At("disconnected") /\ ConnectToHost /\ sock.tcp \in {"Connected", "Closing"} =>
           sock.sent /\ sock.received]_vars
  BY <1>1
<1> QED BY <1>2, SlotsStayOrdered, PTL DEF Spec, ReconnectHonoured
=============================================================================
