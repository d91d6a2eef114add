-------------------------- MODULE FramePeersProofs --------------------------
(***************************************************************************)
(* FramePeers, for messages of any bytes, frames of any size and any       *)
(* number of calls: the types, down to the bytes that are read and         *)
(* written; that each end lives as the QWsSocket of WsConnection does; and *)
(* that messages keep their order, and end with the connection.  Then      *)
(* FrameReader, for any frames of a server and any number of them: what    *)
(* the reader reports and answers does not depend on the cuts.             *)
(*                                                                         *)
(* First what the operators of WsFrames and WsReader return, one lemma per *)
(* operator: a socket again, and what has become of the connection.  Then  *)
(* the invariant of one socket, then of the two.  For the messages, what   *)
(* is under way is a stream of frames: how frames make one, how the reader *)
(* stands in it, what the writer puts behind it, and what a step does.     *)
(*                                                                         *)
(* The second part says the same of frames that another has written, for   *)
(* the reader of either version: it stands in the frames of a connection,  *)
(* of which it has reported the first k, and when it returns no whole one  *)
(* is left.                                                                *)
(***************************************************************************)
EXTENDS FramePeers, SequenceLemmas

\* Has a name for the provers to look at it only where they must.
Bytes == Seq(Byte)

\* Bytes behind bytes are bytes.
LEMMA BytesJoined == \A a, b \in Bytes : a \o b \in Bytes
BY DEF Bytes

\* A byte is a sequence of bytes.
LEMMA OneByte == \A b \in Byte : <<b>> \in Bytes
BY DEF Bytes

\* So is none.
LEMMA NoByte == <<>> \in Bytes
BY DEF Bytes

\* serializeInt() gives bytes.
LEMMA SerializeType ==
  ASSUME NEW number \in Nat, NEW n \in 1 .. 4
  PROVE  SerializeInt(number, n) \in Bytes
<1>1. ASSUME NEW i \in 1 .. n
      PROVE  (number \div Weight[n - i + 1]) % 256 \in Byte
  <2>1. n - i + 1 \in 1 .. 4
    OBVIOUS
  <2>2. \A k \in 1 .. 4 : (number \div Weight[k]) % 256 \in Byte
    BY DEF Weight, Byte
  <2> QED BY <2>1, <2>2
<1> QED
  BY <1>1, IsASeq DEF SerializeInt, Bytes

\* A byte under a byte of the mask is a byte.
LEMMA XorType ==
  ASSUME NEW a \in Byte, NEW b \in Byte
  PROVE  Xor(a, b) \in Byte
BY DEF Xor, Byte

\* mask() gives bytes.
LEMMA MaskType ==
  ASSUME NEW data \in Bytes, NEW key \in [1 .. 4 -> Byte]
  PROVE  Mask(data, key) \in Bytes
<1>1. \A i \in 1 .. Len(data) : Xor(data[i], key[((i - 1) % 4) + 1]) \in Byte
  <2> TAKE i \in 1 .. Len(data)
  <2>1. ((i - 1) % 4) + 1 \in 1 .. 4
    OBVIOUS
  <2>2. \A k \in 1 .. 4 : key[k] \in Byte
    OBVIOUS
  <2>3. data[i] \in Byte
    BY DEF Bytes
  <2> QED BY <2>1, <2>2, <2>3, XorType
<1>2. DOMAIN data = 1 .. Len(data) /\ Len(data) \in Nat
  BY DEF Bytes
<1>3. [i \in 1 .. Len(data) |-> Xor(data[i], key[((i - 1) % 4) + 1])] \in Bytes
  BY <1>1, <1>2 DEF Bytes
<1> QED
  BY <1>2, <1>3 DEF Mask

\* composeHeader() gives bytes, whatever the length of the payload.
LEMMA HeaderType ==
  ASSUME NEW end \in BOOLEAN, NEW opcode \in 0 .. 15, NEW n \in Nat, NEW key \in Bytes
  PROVE  ComposeHeader(end, opcode, n, key) \in Bytes
<1> DEFINE mask   == IF Len(key) = 4 THEN 128 ELSE 0
           first  == (IF end THEN 128 ELSE 0) + opcode
           short  == <<mask + n>>
           middle == <<mask + 126>> \o SerializeInt(n, 2)
           long   == <<mask + 127, 0, 0, 0, 0>> \o SerializeInt(n, 4)
           size   == IF n <= 125 THEN short ELSE IF n <= 65535 THEN middle ELSE long
<1>1. mask \in {0, 128} /\ first \in Byte
  BY DEF Byte
<1>2. ComposeHeader(end, opcode, n, key) = <<first>> \o size \o key
  BY DEF ComposeHeader
<1> HIDE DEF mask, first
<1>3. SerializeInt(n, 2) \in Bytes /\ SerializeInt(n, 4) \in Bytes
  <2>1. 2 \in 1 .. 4 /\ 4 \in 1 .. 4
    OBVIOUS
  <2> QED BY <2>1, SerializeType
<1>4. n <= 125 => short \in Bytes
  <2>1. n <= 125 => mask + n \in Byte
    BY <1>1 DEF Byte
  <2> QED BY <2>1, OneByte
<1>5. middle \in Bytes
  <2>1. mask + 126 \in Byte
    BY <1>1 DEF Byte
  <2> QED BY <1>3, <2>1, OneByte, BytesJoined
<1>6. long \in Bytes
  <2>1. mask + 127 \in Byte /\ 0 \in Byte
    BY <1>1 DEF Byte
  <2>2. <<mask + 127, 0, 0, 0, 0>> \in Bytes
    BY <2>1 DEF Bytes
  <2> QED BY <1>3, <2>2, BytesJoined
<1> HIDE DEF short, middle, long
<1>7. size \in Bytes
  BY <1>4, <1>5, <1>6
<1> HIDE DEF size
<1>8. <<first>> \in Bytes
  BY <1>1, OneByte
<1> QED
  BY <1>2, <1>7, <1>8, BytesJoined

\* composeFrames() gives bytes: no frame reaches beyond the message.
LEMMA FramesType ==
  ASSUME NEW message \in Bytes, NEW asBinary \in BOOLEAN
  PROVE  FlattenSeq(ComposeFrames(message, asBinary)) \in Bytes
<1> DEFINE n == FramesOf(Len(message))
           Data(i) == SubSeq(message, (i - 1) * MaxBytesPerFrame + 1,
                             IF i = n THEN Len(message) ELSE i * MaxBytesPerFrame)
           opcode(i) == IF i > 1 THEN OpContinue ELSE IF asBinary THEN OpBinary ELSE OpText
           Frame(i) == ComposeHeader(i = n, opcode(i), Len(Data(i)), <<>>) \o Data(i)
<1>1. MaxBytesPerFrame \in Nat \ {0}
  BY MaxBytesArePositive
<1>2. Len(message) \in Nat /\ Len(message) \div MaxBytesPerFrame \in Nat
  BY <1>1 DEF Bytes
<1>3. n \in Nat /\ n = Len(message) \div MaxBytesPerFrame + 1
  BY <1>2 DEF FramesOf
<1> HIDE DEF n
<1>4. ASSUME NEW i \in 1 .. n
      PROVE  Frame(i) \in Bytes
  <2> DEFINE first == (i - 1) * MaxBytesPerFrame + 1
             last == IF i = n THEN Len(message) ELSE i * MaxBytesPerFrame
  <2>1. (i - 1) * MaxBytesPerFrame \in Nat /\ i * MaxBytesPerFrame \in Nat
    BY <1>1, <1>3
  <2>2. i # n => i * MaxBytesPerFrame <= Len(message)
    <3>1. i # n => i \in Nat /\ i <= Len(message) \div MaxBytesPerFrame
      BY <1>2, <1>3
    <3> QED BY <1>1, <1>2, <3>1, DivBound
  <2>3. first \in Nat \ {0} /\ last \in Nat /\ last <= Len(message)
    BY <1>2, <2>1, <2>2
  <2>4. Data(i) = SubSeq(message, first, last)
    OBVIOUS
  <2> HIDE DEF first, last, Data
  <2>5. Data(i) \in Bytes /\ Len(Data(i)) \in Nat
    BY <2>3, <2>4 DEF Bytes
  <2>6. opcode(i) \in 0 .. 15
    BY DEF OpContinue, OpBinary, OpText
  <2>7. ComposeHeader(i = n, opcode(i), Len(Data(i)), <<>>) \in Bytes
    <3> DEFINE end == i = n
    <3>1. end \in BOOLEAN /\ <<>> \in Bytes
      BY NoByte
    <3> HIDE DEF opcode, end
    <3>2. ComposeHeader(end, opcode(i), Len(Data(i)), <<>>) \in Bytes
      BY <2>5, <2>6, <3>1, HeaderType
    <3> QED BY <3>2 DEF end
  <2> HIDE DEF opcode
  <2> QED BY <2>5, <2>7, BytesJoined
<1>5. ComposeFrames(message, asBinary) = [i \in 1 .. n |-> Frame(i)]
  BY DEF ComposeFrames, n
<1> HIDE DEF Frame
<1>6. ComposeFrames(message, asBinary) \in Seq(Bytes)
  BY <1>3, <1>4, <1>5
<1> QED
  BY <1>6, FlattenType DEF Bytes

\* A Close frame consists of bytes.
LEMMA CloseFrameType ==
  ASSUME NEW version \in Nat, NEW code \in Nat
  PROVE  CloseFrame(version, code) \in Bytes
<1>1. MaskingKey \in Bytes
  BY KeyIsFourBytes DEF Bytes
<1>2. /\ ComposeHeader(TRUE, OpClose, 0, <<>>) \in Bytes
      /\ ComposeHeader(TRUE, OpClose, 2, MaskingKey) \in Bytes
  <2>1. OpClose \in 0 .. 15 /\ TRUE \in BOOLEAN /\ 0 \in Nat /\ 2 \in Nat
        /\ MaskingKey \in Bytes /\ <<>> \in Bytes
    BY <1>1, NoByte DEF OpClose
  <2> QED BY <2>1, HeaderType
<1>3. SerializeInt(code, 2) \in Bytes
  <2>1. 2 \in 1 .. 4
    OBVIOUS
  <2> QED BY <2>1, SerializeType
<1>4. <<255, 0>> \in Bytes
  BY DEF Byte, Bytes
<1>5. ComposeHeader(TRUE, OpClose, 2, MaskingKey) \o SerializeInt(code, 2) \in Bytes
  BY <1>2, <1>3, BytesJoined
<1> QED
  BY <1>2, <1>4, <1>5, Zenon DEF CloseFrame

----------------------------------------------------------------------------
(* The socket.                                                             *)

States == {"Connected", "Closing", "Unconnected"}

Report == [kind : {"text", "binary", "pong"}, data : Bytes]

Reports == Seq(Report)

\* The types of all fields.
SocketType ==
  [version : Nat, ws : States, tcp : States, sent : BOOLEAN, received : BOOLEAN,
   buffer : Bytes, output : Bytes, running : BOOLEAN, slot : BOOLEAN,
   readingState : ReadingStates, final : BOOLEAN, hasMask : BOOLEAN,
   opcode : 0 .. 15, length : [high : Nat, low : Int], key : [1 .. 4 -> Byte],
   frame : Bytes, code : Nat, emitted : Reports, written : Reports, late : BOOLEAN,
   closeFrames : Nat, disconnects : Nat]

\* From s to t nothing happens to the connection.
SameLife(s, t) ==
  /\ t.version = s.version /\ t.ws = s.ws /\ t.tcp = s.tcp
  /\ t.sent = s.sent /\ t.received = s.received
  /\ t.closeFrames = s.closeFrames /\ t.disconnects = s.disconnects

\* The reader does not move, but for what it has reported.
SameReading(s, t) ==
  t.running = s.running /\ t.readingState = s.readingState /\ t.buffer = s.buffer

\* One report more.
LEMMA ReportsGrow == \A r \in Reports, e \in Report : Append(r, e) \in Reports
BY DEF Reports

\* A part of a sequence of bytes.
LEMMA BytesCut ==
  ASSUME NEW b \in Bytes, NEW i \in Nat \ {0}, NEW j \in Int, j <= Len(b)
  PROVE  SubSeq(b, i, j) \in Bytes
BY DEF Bytes

\* Its rest.
LEMMA BytesBehind ==
  ASSUME NEW b \in Bytes, NEW n \in Nat
  PROVE  Behind(b, n) \in Bytes
<1>1. Len(b) \in Int /\ n + 1 \in Nat \ {0}
  BY DEF Bytes
<1> QED
  BY <1>1, BytesCut DEF Behind

\* The constructor makes a socket.
LEMMA NewSocketType ==
  ASSUME NEW version \in Nat
  PROVE  NewSocket(version) \in SocketType
<1>1. <<>> \in Bytes /\ <<>> \in Reports
  BY DEF Bytes, Reports
<1>2. <<0, 0, 0, 0>> \in [1 .. 4 -> Byte]
  BY DEF Byte
<1> DEFINE none == <<>>
           key == <<0, 0, 0, 0>>
<1> HIDE DEF none, key
<1>3. none \in Bytes /\ none \in Reports /\ key \in [1 .. 4 -> Byte]
  BY <1>1, <1>2 DEF none, key
<1>4. NewSocket(version) =
   [version |-> version, ws |-> "Connected", tcp |-> "Connected", sent |-> FALSE, received |-> FALSE,
   buffer |-> none, output |-> none, running |-> FALSE, slot |-> FALSE,
   readingState |-> "HeaderPending", final |-> FALSE, hasMask |-> FALSE,
   opcode |-> 0, length |-> [high |-> 0, low |-> 0], key |-> key,
   frame |-> none, code |-> 0,
   emitted |-> none, written |-> none, late |-> FALSE,
   closeFrames |-> 0, disconnects |-> 0]
  BY DEF NewSocket, none, key, Short, OpContinue, NoCloseStatusCode
<1> QED
  BY <1>3, <1>4 DEF SocketType, States, ReadingStates

\* tcpSocket->write() changes what is sent and nothing else.
LEMMA SendStep ==
  ASSUME NEW s \in SocketType, NEW bytes \in Bytes
  PROVE  LET t == Send(s, bytes)
         IN  t \in SocketType /\ SameLife(s, t) /\ SameReading(s, t) /\ t.slot = s.slot
<1> DEFINE output == s.output \o bytes
           late   == s.late \/ s.sent
           t      == [s EXCEPT !.output = output, !.late = late]
<1>1. output \in Bytes /\ late \in BOOLEAN
  BY BytesJoined DEF SocketType
<1>2. Send(s, bytes) = IF s.tcp = "Unconnected" THEN s ELSE t
  BY DEF Send
<1> HIDE DEF output, late
<1>3. t \in SocketType
  BY <1>1 DEF SocketType
<1>4. SameLife(s, t) /\ SameReading(s, t) /\ t.slot = s.slot
  BY DEF SocketType, SameLife, SameReading
<1>5. SameLife(s, s) /\ SameReading(s, s)
  BY DEF SameLife, SameReading
<1> HIDE DEF t
<1> QED
  BY <1>2, <1>3, <1>4, <1>5

\* write() does nothing to the connection and the reader.
LEMMA WriteStep ==
  ASSUME NEW s \in SocketType, NEW message \in Bytes, NEW asBinary \in BOOLEAN
  PROVE  LET t == Write(s, message, asBinary)
         IN  t \in SocketType /\ SameLife(s, t) /\ SameReading(s, t) /\ t.slot = s.slot
<1> DEFINE bytes   == IF s.version = 0 THEN TextFrameV0(message)
                      ELSE FlattenSeq(ComposeFrames(message, asBinary))
           kind    == IF asBinary /\ s.version # 0 THEN "binary" ELSE "text"
           t       == Send(s, bytes)
           written == Append(t.written, [kind |-> kind, data |-> message])
<1>1. bytes \in Bytes
  <2>1. TextFrameV0(message) \in Bytes
    <3>1. 0 \in Byte /\ 255 \in Byte
      BY DEF Byte
    <3> QED BY <3>1, OneByte, BytesJoined DEF TextFrameV0
  <2> QED BY <2>1, FramesType
<1> HIDE DEF bytes
<1>2. t \in SocketType /\ SameLife(s, t) /\ SameReading(s, t) /\ t.slot = s.slot
  BY <1>1, SendStep
<1> HIDE DEF t
<1>3. written \in Reports
  <2>1. [kind |-> kind, data |-> message] \in Report
    BY DEF Report
  <2>2. t.written \in Reports
    BY <1>2 DEF SocketType
  <2> QED BY <2>1, <2>2, ReportsGrow
<1>4. Write(s, message, asBinary) = IF s.tcp = "Unconnected" THEN s ELSE [t EXCEPT !.written = written]
  BY DEF Write, t, bytes
<1> HIDE DEF written
<1> QED
  BY <1>2, <1>3, <1>4 DEF SocketType, SameLife, SameReading

\* Nor does ping().
LEMMA PingStep ==
  ASSUME NEW s \in SocketType
  PROVE  LET t == Ping(s)
         IN  t \in SocketType /\ SameLife(s, t) /\ SameReading(s, t) /\ t.slot = s.slot
<1>1. TRUE \in BOOLEAN /\ OpPing \in 0 .. 15 /\ 0 \in Nat /\ <<>> \in Bytes
  BY NoByte DEF OpPing
<1>2. ComposeHeader(TRUE, OpPing, 0, <<>>) \in Bytes
  BY <1>1, HeaderType
<1> QED
  BY <1>2, SendStep DEF Ping

----------------------------------------------------------------------------
\* What close() does to the connection.
ClosedLife(s, t) ==
  /\ t.version = s.version /\ t.received = s.received
  /\ s.ws = "Unconnected" => SameLife(s, t)
  /\ s.ws # "Unconnected" =>
       /\ t.sent = TRUE
       /\ t.ws = IF s.received THEN "Unconnected" ELSE "Closing"
       /\ t.tcp = IF s.received /\ s.tcp = "Connected" THEN "Closing" ELSE s.tcp
       /\ t.closeFrames = IF s.sent THEN s.closeFrames ELSE s.closeFrames + 1
       /\ t.disconnects = IF s.received THEN s.disconnects + 1 ELSE s.disconnects

\* The Close frame of close(): none is sent behind another.
LEMMA SendCloseStep ==
  ASSUME NEW s \in SocketType, NEW code \in Nat
  PROVE  LET t == SendClose(s, code)
         IN  /\ t \in SocketType /\ SameReading(s, t) /\ t.slot = s.slot
             /\ t.version = s.version /\ t.ws = s.ws /\ t.tcp = s.tcp
             /\ t.sent = TRUE /\ t.received = s.received /\ t.disconnects = s.disconnects
             /\ t.closeFrames = IF s.sent THEN s.closeFrames ELSE s.closeFrames + 1
<1> DEFINE frame == CloseFrame(s.version, code)
           u     == Send(s, frame)
           n     == u.closeFrames + 1
<1>1. CASE s.sent
  BY <1>1 DEF SendClose, SocketType, SameReading
<1>2. CASE ~s.sent
  <2>1. frame \in Bytes
    BY CloseFrameType DEF SocketType
  <2>2. u \in SocketType /\ SameLife(s, u) /\ SameReading(s, u) /\ u.slot = s.slot
    BY <2>1, SendStep
  <2>3. SendClose(s, code) = [u EXCEPT !.sent = TRUE, !.closeFrames = n]
    BY <1>2 DEF SendClose
  <2> HIDE DEF u
  <2>4. n \in Nat /\ n = s.closeFrames + 1
    BY <2>2 DEF SocketType, SameLife
  <2> HIDE DEF n
  <2> QED
    BY <1>2, <2>2, <2>3, <2>4 DEF SocketType, SameLife, SameReading
<1> QED
  BY <1>1, <1>2

\* close(), on a socket in any state.
LEMMA CloseStep ==
  ASSUME NEW s \in SocketType, NEW code \in Nat
  PROVE  LET t == Close(s, code)
         IN  /\ t \in SocketType /\ ClosedLife(s, t) /\ SameReading(s, t)
             /\ ~s.received => t.slot = s.slot
             /\ s.ws = "Unconnected" => t = s
<1>1. CASE s.ws = "Unconnected"
  BY <1>1 DEF Close, ClosedLife, SameLife, SameReading, SocketType
<1>2. CASE s.ws # "Unconnected"
  <2> DEFINE b == SendClose(s, code)
             c == [b EXCEPT !.ws = "Closing"]
             n == c.disconnects + 1
             tcp == IF c.tcp = "Connected" THEN "Closing" ELSE c.tcp
             d == [c EXCEPT !.ws = "Unconnected", !.disconnects = n, !.slot = TRUE, !.tcp = tcp]
  <2>1. /\ b \in SocketType /\ SameReading(s, b) /\ b.slot = s.slot
        /\ b.version = s.version /\ b.tcp = s.tcp
        /\ b.sent = TRUE /\ b.received = s.received /\ b.disconnects = s.disconnects
        /\ b.closeFrames = IF s.sent THEN s.closeFrames ELSE s.closeFrames + 1
    BY SendCloseStep
  <2> HIDE DEF b
  <2>2. /\ c \in SocketType /\ SameReading(s, c) /\ c.slot = s.slot
        /\ c.version = s.version /\ c.tcp = s.tcp /\ c.ws = "Closing"
        /\ c.sent = TRUE /\ c.received = s.received /\ c.disconnects = s.disconnects
        /\ c.closeFrames = IF s.sent THEN s.closeFrames ELSE s.closeFrames + 1
    BY <2>1 DEF SocketType, SameReading, States
  <2>3. Close(s, code) = IF c.received THEN d ELSE c
    <3> DEFINE e == [c EXCEPT !.ws = "Unconnected", !.disconnects = n, !.slot = TRUE]
    <3>1. Close(s, code) = IF c.received THEN Disconnect(e) ELSE c
      BY <1>2 DEF Close, b
    <3>2. e.tcp = c.tcp
      BY <2>2 DEF SocketType
    <3>3. Disconnect(e) = [e EXCEPT !.tcp = IF e.tcp = "Connected" THEN "Closing" ELSE e.tcp]
      BY DEF Disconnect
    <3>4. [e EXCEPT !.tcp = tcp] = d
      <4> HIDE DEF c, n, tcp
      <4> QED BY <2>2 DEF SocketType
    <3> HIDE DEF e, c, d
    <3> QED BY <3>1, <3>2, <3>3, <3>4
  <2> HIDE DEF c
  <2>4. n \in Nat /\ n = s.disconnects + 1 /\ tcp \in States
    BY <2>2 DEF SocketType, States
  <2>5. tcp = IF s.tcp = "Connected" THEN "Closing" ELSE s.tcp
    BY <2>2
  <2> HIDE DEF n, tcp
  <2>6. CASE s.received
    <3>1. /\ d \in SocketType /\ SameReading(s, d) /\ d.slot = TRUE
          /\ d.version = s.version /\ d.tcp = tcp /\ d.ws = "Unconnected"
          /\ d.sent = TRUE /\ d.received = s.received /\ d.disconnects = s.disconnects + 1
          /\ d.closeFrames = IF s.sent THEN s.closeFrames ELSE s.closeFrames + 1
      BY <2>2, <2>4 DEF SocketType, SameReading, States
    <3> HIDE DEF d
    <3>2. Close(s, code) = d
      BY <2>2, <2>3, <2>6
    <3> QED BY <1>2, <2>5, <2>6, <3>1, <3>2 DEF ClosedLife
  <2>7. CASE ~s.received
    <3>1. Close(s, code) = c
      BY <2>2, <2>3, <2>7
    <3> QED BY <1>2, <2>2, <2>7, <3>1 DEF ClosedLife
  <2> QED BY <2>6, <2>7
<1> QED
  BY <1>1, <1>2

\* processTcpStateChanged(UnconnectedState).
LEMMA TcpUnconnectedStep ==
  ASSUME NEW s \in SocketType
  PROVE  LET t == TcpUnconnected(s)
         IN  /\ t \in SocketType /\ SameReading(s, t) /\ t.slot = s.slot
             /\ t.version = s.version /\ t.ws = "Unconnected" /\ t.tcp = "Unconnected"
             /\ t.sent = FALSE /\ t.received = FALSE /\ t.closeFrames = s.closeFrames
             /\ t.disconnects = IF s.ws # "Unconnected" THEN s.disconnects + 1 ELSE s.disconnects
<1> DEFINE none == <<>>
           n == IF s.ws # "Unconnected" THEN s.disconnects + 1 ELSE s.disconnects
<1>1. none \in Bytes /\ n \in Nat
  BY NoByte DEF SocketType
<1>2. TcpUnconnected(s) =
        [s EXCEPT !.tcp = "Unconnected", !.ws = "Unconnected",
                  !.sent = FALSE, !.received = FALSE, !.output = none, !.disconnects = n]
  BY DEF TcpUnconnected, SocketType
<1> HIDE DEF none
<1>3. n = IF s.ws # "Unconnected" THEN s.disconnects + 1 ELSE s.disconnects
  OBVIOUS
<1> HIDE DEF n
<1> QED
  BY <1>1, <1>2, <1>3, ZenonT(60) DEF SocketType, SameReading, States

\* abort() closes first, and leaves nothing to be read.
LEMMA AbortStep ==
  ASSUME NEW s \in SocketType
  PROVE  LET t == Abort(s)
             c == Close(s, CloseAbnormalDisconnection)
         IN  /\ s.tcp = "Unconnected" => t = c
             /\ s.tcp # "Unconnected" =>
                  /\ t \in SocketType /\ t.running = s.running /\ t.readingState = s.readingState
                  /\ t.version = s.version /\ t.ws = "Unconnected" /\ t.tcp = "Unconnected"
                  /\ t.sent = FALSE /\ t.received = FALSE /\ t.closeFrames = c.closeFrames
                  /\ t.disconnects = IF c.ws # "Unconnected" THEN c.disconnects + 1 ELSE c.disconnects
                  /\ t.buffer = <<>> /\ t.slot = c.slot
<1> DEFINE c == Close(s, CloseAbnormalDisconnection)
           u == TcpUnconnected(c)
           none == <<>>
<1>1. c \in SocketType /\ SameReading(s, c) /\ c.version = s.version
  <2>1. CloseAbnormalDisconnection \in Nat
    BY DEF CloseAbnormalDisconnection
  <2> QED BY <2>1, CloseStep DEF ClosedLife
<1>2. Abort(s) = IF s.tcp = "Unconnected" THEN c ELSE [u EXCEPT !.buffer = none]
  BY DEF Abort
<1> HIDE DEF c
<1>3. /\ u \in SocketType /\ SameReading(c, u) /\ u.slot = c.slot
      /\ u.version = c.version /\ u.ws = "Unconnected" /\ u.tcp = "Unconnected"
      /\ u.sent = FALSE /\ u.received = FALSE /\ u.closeFrames = c.closeFrames
      /\ u.disconnects = IF c.ws # "Unconnected" THEN c.disconnects + 1 ELSE c.disconnects
  BY <1>1, TcpUnconnectedStep
<1> DEFINE n == IF c.ws # "Unconnected" THEN c.disconnects + 1 ELSE c.disconnects
<1>4. u.disconnects = n
  BY <1>3
<1> HIDE DEF u, n
<1>5. none \in Bytes
  BY NoByte
<1> DEFINE a == [u EXCEPT !.buffer = none]
<1>6. a \in SocketType
  <2> HIDE DEF none
  <2> QED BY <1>3, <1>5 DEF SocketType
<1>7. /\ a.version = u.version /\ a.ws = u.ws /\ a.tcp = u.tcp /\ a.sent = u.sent
      /\ a.received = u.received /\ a.closeFrames = u.closeFrames
      /\ a.disconnects = u.disconnects /\ a.buffer = <<>> /\ a.slot = u.slot
      /\ a.running = u.running /\ a.readingState = u.readingState
  BY <1>3 DEF SocketType
<1> HIDE DEF a
<1>8. s.tcp # "Unconnected" => Abort(s) = a
  BY <1>2 DEF a
<1>9. s.tcp = "Unconnected" => Abort(s) = c
  BY <1>2
<1>10. s.tcp # "Unconnected" =>
        /\ Abort(s) = a
        /\ a \in SocketType /\ a.running = s.running /\ a.readingState = s.readingState
        /\ a.version = s.version /\ a.ws = "Unconnected" /\ a.tcp = "Unconnected"
        /\ a.sent = FALSE /\ a.received = FALSE /\ a.closeFrames = c.closeFrames
        /\ a.disconnects = n /\ a.buffer = <<>> /\ a.slot = c.slot
  BY <1>1, <1>3, <1>4, <1>6, <1>7, <1>8 DEF SameReading
<1> QED
  BY <1>9, <1>10 DEF c, n

\* Bytes that arrive start the reader.
LEMMA ReceiveStep ==
  ASSUME NEW s \in SocketType, NEW bytes \in Bytes
  PROVE  LET t == Receive(s, bytes)
         IN  /\ t \in SocketType /\ SameLife(s, t)
             /\ t.running = TRUE /\ t.readingState = s.readingState /\ t.slot = s.slot
<1> DEFINE buffer == s.buffer \o bytes
<1>1. buffer \in Bytes
  BY BytesJoined DEF SocketType
<1>2. Receive(s, bytes) = [s EXCEPT !.buffer = buffer, !.running = TRUE]
  BY DEF Receive
<1> HIDE DEF buffer
<1> QED
  BY <1>1, <1>2 DEF SocketType, SameLife

\* What tcpSocket has sent is taken from its output.
LEMMA OutputTaken ==
  ASSUME NEW s \in SocketType, NEW n \in Nat
  PROVE  LET t == [s EXCEPT !.output = Behind(@, n)]
         IN  t \in SocketType /\ SameLife(s, t) /\ SameReading(s, t) /\ t.slot = s.slot
<1> DEFINE output == Behind(s.output, n)
<1>1. output \in Bytes
  BY BytesBehind DEF SocketType
<1> HIDE DEF output
<1>2. [s EXCEPT !.output = output] \in SocketType
  BY <1>1 DEF SocketType
<1>3. SameLife(s, [s EXCEPT !.output = output]) /\ SameReading(s, [s EXCEPT !.output = output])
      /\ [s EXCEPT !.output = output].slot = s.slot
  BY DEF SocketType, SameLife, SameReading
<1>4. [s EXCEPT !.output = Behind(@, n)] = [s EXCEPT !.output = output]
  BY DEF output
<1> QED
  BY <1>2, <1>3, <1>4

----------------------------------------------------------------------------
(* The reader.                                                             *)

\* From s to t the reader goes on, and nothing happens to the connection.
ReadOn(s, t) ==
  t \in SocketType /\ SameLife(s, t) /\ t.running = s.running /\ t.slot = s.slot

\* A byte of a sequence.
LEMMA ByteAt ==
  ASSUME NEW b \in Bytes, NEW i \in 1 .. Len(b)
  PROVE  b[i] \in Byte
BY DEF Bytes

\* A sequence of bytes has a length.
LEMMA LengthIsNat == \A b \in Bytes : Len(b) \in Nat
BY DEF Bytes

\* The numbers that are put together from two bytes, or from a part of one.
LEMMA BytesCount ==
  ASSUME NEW a \in Byte, NEW b \in Byte
  PROVE  /\ 256 * a + b \in Nat
         /\ a % 128 \in Nat /\ ((a + 128) % 256) - 128 \in Int
BY DEF Byte

\* The two bytes of a header.
LEMMA ReadHeaderStep ==
  ASSUME NEW s \in SocketType, Len(s.buffer) >= 2
  PROVE  ReadOn(s, ReadHeader(s))
<1> DEFINE one    == s.buffer[1]
           two    == s.buffer[2]
           size   == two % 128
           behind == Behind(s.buffer, 2)
           length == IF size < 126 THEN Short(size) ELSE s.length
           state  == CASE size = 126 -> "PayloadLengthPending"
                       [] size = 127 -> "BigPayloadLenghPending"
                       [] size < 126 -> "MaskPending"
           final  == one >= 128
           opcode == one % 16
           mask   == two >= 128
<1>1. one \in Byte /\ two \in Byte /\ behind \in Bytes
  BY ByteAt, BytesBehind, LengthIsNat DEF SocketType
<1>2. ReadHeader(s) =
        [s EXCEPT !.final = final, !.opcode = opcode, !.hasMask = mask,
                  !.length = length, !.readingState = state, !.buffer = behind]
  BY DEF ReadHeader
<1> HIDE DEF one, two, behind
<1>3. final \in BOOLEAN /\ opcode \in 0 .. 15 /\ mask \in BOOLEAN
  BY <1>1 DEF Byte
<1>4. size \in 0 .. 127
  BY <1>1 DEF Byte
<1> HIDE DEF size
<1>5. state \in ReadingStates
  <2>1. CASE size = 126
    BY <2>1 DEF ReadingStates
  <2>2. CASE size = 127
    BY <2>2 DEF ReadingStates
  <2>3. CASE size < 126
    BY <1>4, <2>3 DEF ReadingStates
  <2> HIDE DEF state
  <2> QED BY <1>4, <2>1, <2>2, <2>3
<1>6. length \in [high : Nat, low : Int]
  BY <1>4 DEF Short, SocketType
<1> HIDE DEF final, opcode, mask, length, state
<1> QED
  BY <1>1, <1>2, <1>3, <1>5, <1>6, ZenonT(60) DEF SocketType, SameLife, ReadOn

\* A length of two bytes.
LEMMA ReadLengthStep ==
  ASSUME NEW s \in SocketType, Len(s.buffer) >= 2
  PROVE  ReadOn(s, ReadLength(s))
<1> DEFINE length == Short(256 * s.buffer[1] + s.buffer[2])
           behind == Behind(s.buffer, 2)
<1>1. s.buffer[1] \in Byte /\ s.buffer[2] \in Byte /\ behind \in Bytes
  BY ByteAt, BytesBehind, LengthIsNat DEF SocketType
<1>2. length \in [high : Nat, low : Int]
  <2> DEFINE n == 256 * s.buffer[1] + s.buffer[2]
  <2>1. n \in Nat
    BY <1>1, BytesCount
  <2> HIDE DEF n
  <2> QED BY <2>1 DEF Short, n
<1>3. ReadLength(s) = [s EXCEPT !.length = length, !.readingState = "MaskPending", !.buffer = behind]
  BY DEF ReadLength
<1> HIDE DEF length, behind
<1> QED
  BY <1>1, <1>2, <1>3 DEF SocketType, SameLife, ReadOn, ReadingStates

\* Four bytes make a number, negative only if the first counts as negative.
LEMMA NumberType ==
  ASSUME NEW first \in Int, NEW bytes, bytes[2] \in Byte, bytes[3] \in Byte, bytes[4] \in Byte
  PROVE  Number(first, bytes) \in Int /\ (first \in Nat => Number(first, bytes) \in Nat)
<1> DEFINE two == bytes[2]
           three == bytes[3]
           four == bytes[4]
<1>1. two \in Nat /\ three \in Nat /\ four \in Nat
  BY DEF Byte
<1>2. Number(first, bytes) = ((first * 256 + two) * 256 + three) * 256 + four
  BY DEF Number
<1> HIDE DEF two, three, four
<1> QED
  BY <1>1, <1>2

\* A length of eight bytes.
LEMMA ReadBigLengthStep ==
  ASSUME NEW s \in SocketType, Len(s.buffer) >= 8
  PROVE  ReadOn(s, ReadBigLength(s))
<1> DEFINE rest   == Behind(s.buffer, 4)
           behind == Behind(s.buffer, 8)
           high   == Number(s.buffer[1] % 128, s.buffer)
           low    == Number(((s.buffer[5] + 128) % 256) - 128, rest)
<1>1. \A i \in 1 .. 8 : s.buffer[i] \in Byte
  BY ByteAt, LengthIsNat DEF SocketType
<1>2. rest \in Bytes /\ behind \in Bytes /\ Len(rest) >= 4
  <2>1. s.buffer \in Bytes
    BY DEF SocketType
  <2>2. Len(rest) = Len(s.buffer) - 4
    BY <2>1 DEF Behind, Bytes
  <2> QED BY <2>1, <2>2, BytesBehind, LengthIsNat
<1>3. \A i \in 1 .. 4 : rest[i] \in Byte
  BY <1>2, ByteAt, LengthIsNat
<1>4. s.buffer[1] % 128 \in Nat /\ ((s.buffer[5] + 128) % 256) - 128 \in Int
  <2>1. s.buffer[1] \in Byte /\ s.buffer[5] \in Byte
    BY <1>1
  <2> QED BY <2>1, BytesCount
<1> HIDE DEF rest
<1>5. high \in Nat
  <2>1. s.buffer[2] \in Byte /\ s.buffer[3] \in Byte /\ s.buffer[4] \in Byte
    BY <1>1
  <2>2. s.buffer[1] % 128 \in Int
    BY <1>4
  <2> QED BY <1>4, <2>1, <2>2, NumberType
<1>6. low \in Int
  <2>1. rest[2] \in Byte /\ rest[3] \in Byte /\ rest[4] \in Byte
    BY <1>3
  <2> QED BY <1>4, <2>1, NumberType
<1> DEFINE length == [high |-> high, low |-> low]
<1>7. ReadBigLength(s) = [s EXCEPT !.length = length,
                                   !.readingState = "MaskPending", !.buffer = behind]
  BY DEF ReadBigLength, rest
<1> HIDE DEF high, low, behind
<1>8. length \in [high : Nat, low : Int]
  BY <1>5, <1>6
<1> HIDE DEF length
<1> QED
  BY <1>2, <1>7, <1>8 DEF SocketType, SameLife, ReadOn, ReadingStates

\* The masking key has four bytes.
LEMMA ReadMaskStep ==
  ASSUME NEW s \in SocketType, Len(s.buffer) >= 4
  PROVE  ReadOn(s, ReadMask(s))
<1> DEFINE key    == SubSeq(s.buffer, 1, 4)
           behind == Behind(s.buffer, 4)
           state  == IF s.opcode = OpClose THEN "CloseDataPending" ELSE "PayloadBodyPending"
<1>1. key \in [1 .. 4 -> Byte] /\ behind \in Bytes
  <2>1. s.buffer \in Bytes
    BY DEF SocketType
  <2>2. key \in Bytes /\ Len(key) = 4
    BY <2>1 DEF Bytes
  <2>3. key \in [1 .. 4 -> Byte]
    <3> HIDE DEF key
    <3>1. key \in [1 .. Len(key) -> Byte]
      BY <2>2, LenProperties DEF Bytes
    <3> QED BY <2>2, <3>1
  <2> QED BY <2>1, <2>3, BytesBehind
<1>2. state \in ReadingStates
  BY DEF ReadingStates
<1>3. ReadMask(s) = [s EXCEPT !.key = key, !.readingState = state, !.buffer = behind]
  BY DEF ReadMask
<1> HIDE DEF key, behind, state
<1> QED
  BY <1>1, <1>2, <1>3 DEF SocketType, SameLife, ReadOn

\* The status code of a Close frame.
LEMMA ReadStatusCodeStep ==
  ASSUME NEW s \in SocketType
  PROVE  ReadOn(s, ReadStatusCode(s))
<1> DEFINE code   == 256 * s.buffer[1] + s.buffer[2]
           behind == Behind(s.buffer, 2)
           t      == [s EXCEPT !.code = code, !.buffer = behind]
           u      == [s EXCEPT !.code = NoCloseStatusCode]
<1>1. behind \in Bytes
  BY BytesBehind DEF SocketType
<1>2. ASSUME Len(s.buffer) >= 2
      PROVE  code \in Nat
  <2>1. s.buffer[1] \in Byte /\ s.buffer[2] \in Byte
    BY <1>2, ByteAt, LengthIsNat DEF SocketType
  <2> QED BY <2>1, BytesCount
<1>3. ReadStatusCode(s) = s \/ (Len(s.buffer) >= 2 /\ ReadStatusCode(s) = t) \/ ReadStatusCode(s) = u
  BY DEF ReadStatusCode
<1> HIDE DEF code, behind
<1>4. Len(s.buffer) >= 2 => ReadOn(s, t)
  BY <1>1, <1>2 DEF SocketType, SameLife, ReadOn
<1>5. ReadOn(s, u)
  BY DEF SocketType, SameLife, ReadOn, NoCloseStatusCode
<1>6. ReadOn(s, s)
  BY DEF SameLife, ReadOn
<1> HIDE DEF t, u
<1> QED
  BY <1>3, <1>4, <1>5, <1>6

\* What there is of the payload; the reader is in front of a header then.
LEMMA PayloadStep ==
  ASSUME NEW s \in SocketType
  PROVE  ReadOn(s, Payload(s)) /\ Payload(s).readingState = "HeaderPending"
<1> DEFINE taken  == TakenOf(s)
           data   == SubSeq(s.buffer, 1, taken)
           piece  == IF s.hasMask THEN Mask(data, s.key) ELSE data
           frame  == s.frame \o piece
           behind == Behind(s.buffer, taken)
<1>1. s.buffer \in Bytes /\ s.frame \in Bytes /\ s.key \in [1 .. 4 -> Byte] /\ Len(s.buffer) \in Nat
  BY LengthIsNat DEF SocketType
<1>2. taken \in Nat /\ taken <= Len(s.buffer)
  BY <1>1 DEF TakenOf
<1> HIDE DEF taken
<1>3. data \in Bytes
  <2>1. 1 \in Nat \ {0} /\ taken \in Int
    BY <1>2
  <2> QED BY <1>1, <1>2, <2>1, BytesCut
<1> HIDE DEF data
<1>4. piece \in Bytes
  BY <1>1, <1>3, MaskType
<1> HIDE DEF piece
<1>5. frame \in Bytes /\ behind \in Bytes
  BY <1>1, <1>2, <1>4, BytesJoined, BytesBehind
<1>6. Payload(s) = [s EXCEPT !.frame = frame, !.buffer = behind, !.readingState = "HeaderPending"]
  BY DEF Payload, taken, data, piece
<1> HIDE DEF frame, behind
<1> QED
  BY <1>5, <1>6 DEF SocketType, SameLife, ReadOn, ReadingStates

\* A signal with the data of a message.
LEMMA EmitStep ==
  ASSUME NEW s \in SocketType, NEW signal \in {"text", "binary", "pong"}, NEW data \in Bytes
  PROVE  LET t == Emit(s, signal, data)
         IN  t \in SocketType /\ SameLife(s, t) /\ SameReading(s, t)
<1> DEFINE emitted == Append(s.emitted, [kind |-> signal, data |-> data])
<1>1. emitted \in Reports
  <2>1. [kind |-> signal, data |-> data] \in Report
    BY DEF Report
  <2>2. s.emitted \in Reports
    BY DEF SocketType
  <2> QED BY <2>1, <2>2, ReportsGrow
<1>2. Emit(s, signal, data) = [s EXCEPT !.emitted = emitted, !.slot = TRUE]
  BY DEF Emit
<1> HIDE DEF emitted
<1>3. [s EXCEPT !.emitted = emitted, !.slot = TRUE] \in SocketType
  BY <1>1 DEF SocketType
<1>4. SameLife(s, [s EXCEPT !.emitted = emitted, !.slot = TRUE])
      /\ SameReading(s, [s EXCEPT !.emitted = emitted, !.slot = TRUE])
  BY DEF SocketType, SameLife, SameReading
<1> QED
  BY <1>2, <1>3, <1>4

\* What one iteration may do to the connection: nothing, or what close() does
\* when the Close frame of the other side has been read.
ReadLife(s, t) ==
  \/ SameLife(s, t)
  \/ \E c \in SocketType :
       /\ t.received = TRUE /\ SameLife([s EXCEPT !.received = TRUE], c)
       /\ ClosedLife(c, t)

\* The end of a message: only a Close frame does something to the connection.
LEMMA DispatchStep ==
  ASSUME NEW s \in SocketType
  PROVE  LET t == Dispatch(s)
         IN  t \in SocketType /\ ReadLife(s, t) /\ SameReading(s, t)
<1> DEFINE pong == Write(s, ComposeHeader(TRUE, OpPong, 0, <<>>), TRUE)
           c    == [s EXCEPT !.received = TRUE]
<1>1. CASE s.opcode = OpBinary
  <2>1. Dispatch(s) = Emit(s, "binary", s.frame)
    BY <1>1 DEF Dispatch, OpBinary, OpText, OpPing, OpPong, OpClose
  <2>2. s.frame \in Bytes /\ "binary" \in {"text", "binary", "pong"}
    BY DEF SocketType
  <2> QED BY <2>1, <2>2, EmitStep DEF ReadLife
<1>2. CASE s.opcode = OpText
  <2>1. Dispatch(s) = Emit(s, "text", s.frame)
    BY <1>2 DEF Dispatch, OpBinary, OpText, OpPing, OpPong, OpClose
  <2>2. s.frame \in Bytes /\ "text" \in {"text", "binary", "pong"}
    BY DEF SocketType
  <2> QED BY <2>1, <2>2, EmitStep DEF ReadLife
<1>3. CASE s.opcode = OpPing
  <2>1. Dispatch(s) = [pong EXCEPT !.slot = TRUE]
    BY <1>3 DEF Dispatch, OpBinary, OpText, OpPing, OpPong, OpClose
  <2>2. ComposeHeader(TRUE, OpPong, 0, <<>>) \in Bytes
    <3>1. TRUE \in BOOLEAN /\ OpPong \in 0 .. 15 /\ 0 \in Nat /\ <<>> \in Bytes
      BY NoByte DEF OpPong
    <3> QED BY <3>1, HeaderType
  <2>3. pong \in SocketType /\ SameLife(s, pong) /\ SameReading(s, pong)
    <3>1. TRUE \in BOOLEAN
      OBVIOUS
    <3> QED BY <2>2, <3>1, WriteStep
  <2> HIDE DEF pong
  <2>4. /\ [pong EXCEPT !.slot = TRUE] \in SocketType
        /\ SameLife(pong, [pong EXCEPT !.slot = TRUE])
        /\ SameReading(pong, [pong EXCEPT !.slot = TRUE])
    BY <2>3 DEF SocketType, SameLife, SameReading
  <2> QED BY <2>1, <2>3, <2>4 DEF ReadLife, SameLife, SameReading
<1>4. CASE s.opcode = OpPong
  <2>1. Dispatch(s) = Emit(s, "pong", <<>>)
    BY <1>4 DEF Dispatch, OpBinary, OpText, OpPing, OpPong, OpClose
  <2>2. <<>> \in Bytes /\ "pong" \in {"text", "binary", "pong"}
    BY NoByte
  <2> QED BY <2>1, <2>2, EmitStep DEF ReadLife
<1>5. CASE s.opcode = OpClose
  <2>1. Dispatch(s) = Close(c, s.code)
    BY <1>5 DEF Dispatch, OpBinary, OpText, OpPing, OpPong, OpClose
  <2>2. c \in SocketType /\ s.code \in Nat /\ SameReading(s, c) /\ c.received = TRUE
    BY DEF SocketType, SameReading
  <2>3. Close(c, s.code) \in SocketType /\ ClosedLife(c, Close(c, s.code)) /\ SameReading(c, Close(c, s.code))
    <3> HIDE DEF c
    <3> QED BY <2>2, CloseStep
  <2>4. SameLife(c, c)
    BY DEF SameLife
  <2>5. ReadLife(s, Close(c, s.code))
    BY <2>2, <2>3, <2>4 DEF ReadLife, ClosedLife
  <2> HIDE DEF c
  <2> QED BY <2>1, <2>2, <2>3, <2>5 DEF SameReading
<1>6. CASE s.opcode \notin {OpBinary, OpText, OpPing, OpPong, OpClose}
  <2>1. Dispatch(s) = s
    BY <1>6 DEF Dispatch
  <2> QED BY <2>1 DEF ReadLife, SameLife, SameReading
<1> QED
  BY <1>1, <1>2, <1>3, <1>4, <1>5, <1>6

\* From s to t the reader runs on, and may have read a Close frame.
RunOn(s, t) ==
  /\ t \in SocketType /\ ReadLife(s, t) /\ t.running = s.running
  /\ t.readingState = "HeaderPending"

\* A step that does nothing to the connection, and one of the reader.
LEMMA SameThenRead ==
  ASSUME NEW s \in SocketType, NEW u \in SocketType, NEW t \in SocketType,
         SameLife(s, u), ReadLife(u, t)
  PROVE  ReadLife(s, t)
<1>1. CASE SameLife(u, t)
  BY <1>1 DEF ReadLife, SameLife
<1>2. CASE ~SameLife(u, t)
  <2>1. PICK c \in SocketType : /\ t.received = TRUE /\ SameLife([u EXCEPT !.received = TRUE], c)
                                /\ ClosedLife(c, t)
    BY <1>2 DEF ReadLife
  <2>2. SameLife([s EXCEPT !.received = TRUE], c)
    BY <2>1 DEF SameLife, SocketType
  <2> QED BY <2>1, <2>2 DEF ReadLife
<1> QED
  BY <1>1, <1>2

\* The payload and what it means.
LEMMA ReadBodyStep ==
  ASSUME NEW s \in SocketType
  PROVE  RunOn(s, ReadBody(s))
<1> DEFINE c == ReadStatusCode(s)
           p == Payload(c)
           d == Dispatch(p)
           none == <<>>
           e == [d EXCEPT !.frame = none]
<1>1. c \in SocketType /\ SameLife(s, c) /\ c.running = s.running
  BY ReadStatusCodeStep DEF ReadOn
<1>2. ReadBody(s) = IF p.final THEN e ELSE p
  BY DEF ReadBody
<1> HIDE DEF c
<1>3. /\ p \in SocketType /\ SameLife(c, p) /\ p.running = c.running
      /\ p.readingState = "HeaderPending"
  BY <1>1, PayloadStep DEF ReadOn
<1> HIDE DEF p
<1>4. d \in SocketType /\ ReadLife(p, d) /\ SameReading(p, d)
  BY <1>3, DispatchStep
<1> HIDE DEF d
<1>5. none \in Bytes
  BY NoByte
<1> HIDE DEF none
<1>6. e \in SocketType /\ SameLife(d, e) /\ SameReading(d, e)
  BY <1>4, <1>5 DEF SocketType, SameLife, SameReading
<1> HIDE DEF e
<1>7. SameLife(s, p)
  BY <1>1, <1>3 DEF SameLife
<1>8. ReadLife(s, e)
  <2>1. ReadLife(s, d)
    BY <1>3, <1>4, <1>7, SameThenRead
  <2> QED BY <1>6, <2>1 DEF ReadLife, SameLife, ClosedLife
<1>9. RunOn(s, e)
  BY <1>1, <1>3, <1>4, <1>6, <1>8 DEF RunOn, SameReading
<1>10. RunOn(s, p)
  BY <1>1, <1>3, <1>7 DEF RunOn, ReadLife
<1> QED
  BY <1>2, <1>9, <1>10

\* The reader returns.
LEMMA ReturnStep ==
  ASSUME NEW s \in SocketType
  PROVE  LET t == Return(s)
         IN  /\ t \in SocketType /\ SameLife(s, t) /\ t.running = FALSE
             /\ t.slot = s.slot /\ t.readingState = s.readingState /\ t.buffer = s.buffer
BY DEF Return, SocketType, SameLife

\* What an iteration leaves: the reader that has not returned stands in front of
\* a header whenever a slot may run.
Iterated(s, t) ==
  t \in SocketType /\ ReadLife(s, t) /\ (t.slot => t.running /\ t.readingState = "HeaderPending")

\* One iteration of processDataV4; it returns at once when nothing is there.
LEMMA IterateStep ==
  ASSUME NEW current \in SocketType, current.version # 0, current.running = TRUE
  PROVE  /\ Iterated(current, Iterate(current))
         /\ current.buffer = <<>> /\ current.readingState = "HeaderPending" =>
              Iterate(current).running = FALSE /\ SameLife(current, Iterate(current))
<1> DEFINE s == [current EXCEPT !.slot = FALSE]
<1>1. /\ s \in SocketType /\ SameLife(current, s) /\ s.slot = FALSE /\ s.running = TRUE
      /\ s.buffer = current.buffer /\ s.readingState = current.readingState
  BY DEF SocketType, SameLife
<1>2. Iterate(current) = IterateV4(s)
  BY <1>1 DEF Iterate, SameLife
<1> HIDE DEF s
<1>3. Len(s.buffer) \in Nat
  BY <1>1, LengthIsNat DEF SocketType
<1>4. Needed(s) \in Int /\ (s.readingState = "HeaderPending" => Needed(s) = 2)
  BY <1>1 DEF Needed, SocketType, ReadingStates
<1>5. ASSUME NEW t, ReadOn(s, t)
      PROVE  Iterated(current, t)
  BY <1>1, <1>5 DEF ReadOn, Iterated, ReadLife, SameLife
<1>6. ASSUME NEW u, NEW t, ReadOn(s, u), RunOn(u, t)
      PROVE  Iterated(current, t)
  <2>1. u \in SocketType /\ t \in SocketType /\ SameLife(current, u) /\ t.running = TRUE
    BY <1>1, <1>6 DEF ReadOn, RunOn, SameLife
  <2>2. ReadLife(current, t)
    BY <1>6, <2>1, SameThenRead DEF RunOn
  <2> QED BY <1>6, <2>1, <2>2 DEF RunOn, Iterated
<1>7. ASSUME NEW u, ReadOn(s, u)
      PROVE  Iterated(current, Return(u))
  <2>1. /\ Return(u) \in SocketType /\ SameLife(u, Return(u)) /\ Return(u).slot = u.slot
    BY <1>7, ReturnStep DEF ReadOn
  <2> QED BY <1>1, <1>7, <2>1 DEF ReadOn, Iterated, ReadLife, SameLife
<1>8. ReadOn(s, s)
  BY <1>1 DEF ReadOn, SameLife
<1>9. CASE Len(s.buffer) < Needed(s)
  <2>1. IterateV4(s) = Return(s)
    BY <1>9 DEF IterateV4
  <2>2. Return(s).running = FALSE /\ SameLife(s, Return(s))
    BY <1>1, ReturnStep
  <2> QED BY <1>1, <1>2, <1>7, <1>8, <2>1, <2>2 DEF SameLife
<1>10. CASE ~(Len(s.buffer) < Needed(s))
  <2>1. s.buffer = <<>> => s.readingState # "HeaderPending"
    BY <1>4, <1>10
  <2>2. Len(s.buffer) >= Needed(s)
    BY <1>3, <1>4, <1>10
  <2>3. Iterated(current, IterateV4(s))
    <3>1. CASE s.readingState = "HeaderPending"
      <4>1. IterateV4(s) = ReadHeader(s) /\ Len(s.buffer) >= 2
        BY <1>10, <2>2, <3>1 DEF IterateV4, Needed
      <4> QED BY <1>1, <1>5, <4>1, ReadHeaderStep
    <3>2. CASE s.readingState = "PayloadLengthPending"
      <4>1. IterateV4(s) = ReadLength(s) /\ Len(s.buffer) >= 2
        BY <1>10, <2>2, <3>2 DEF IterateV4, Needed
      <4> QED BY <1>1, <1>5, <4>1, ReadLengthStep
    <3>3. CASE s.readingState = "BigPayloadLenghPending"
      <4>1. IterateV4(s) = ReadBigLength(s) /\ Len(s.buffer) >= 8
        BY <1>10, <2>2, <3>3 DEF IterateV4, Needed
      <4> QED BY <1>1, <1>5, <4>1, ReadBigLengthStep
    <3>4. CASE s.readingState = "MaskPending" /\ s.hasMask
      <4> DEFINE m == ReadMask(s)
      <4>1. IterateV4(s) = BodyIfThere(m) /\ Len(s.buffer) >= 4
        BY <1>10, <2>2, <3>4 DEF IterateV4, Needed
      <4>2. ReadOn(s, m)
        BY <1>1, <4>1, ReadMaskStep
      <4> HIDE DEF m
      <4>3. RunOn(m, ReadBody(m))
        BY <4>2, ReadBodyStep DEF ReadOn
      <4>4. BodyIfThere(m) = Return(m) \/ BodyIfThere(m) = ReadBody(m)
        BY DEF BodyIfThere
      <4> QED BY <1>6, <1>7, <4>1, <4>2, <4>3, <4>4
    <3>5. CASE s.readingState = "MaskPending" /\ ~s.hasMask
      <4> DEFINE t == [s EXCEPT !.readingState = "PayloadBodyPending"]
      <4>1. IterateV4(s) = t
        BY <1>10, <3>5 DEF IterateV4
      <4>2. ReadOn(s, t)
        BY <1>1 DEF ReadOn, SameLife, SocketType, ReadingStates
      <4> HIDE DEF t
      <4> QED BY <1>5, <4>1, <4>2
    <3>6. CASE s.readingState = "PayloadBodyPending"
      <4>1. IterateV4(s) = ReadBody(s)
        BY <1>10, <3>6 DEF IterateV4
      <4> QED BY <1>1, <1>6, <1>8, <4>1, ReadBodyStep
    <3>7. CASE s.readingState = "CloseDataPending"
      <4>1. IterateV4(s) = s
        BY <1>10, <3>7 DEF IterateV4
      <4> QED BY <1>5, <1>8, <4>1
    <3>8. s.readingState \in ReadingStates /\ s.hasMask \in BOOLEAN
      BY <1>1 DEF SocketType
    <3> QED
      BY <3>1, <3>2, <3>3, <3>4, <3>5, <3>6, <3>7, <3>8 DEF ReadingStates
  <2> QED BY <1>1, <1>2, <2>1, <2>3
<1> QED
  BY <1>9, <1>10

----------------------------------------------------------------------------
(* The sockets of WsConnection that a socket here can look like.           *)

ViewType ==
  [ws : States, tcp : States, sent : BOOLEAN, received : BOOLEAN,
   closeFrames : 0 .. 3, disconnects : 0 .. 3,
   response : {"none"}, misread : {FALSE}, alive : {TRUE}, greeted : {FALSE}, refused : {FALSE}]

\* The fields of a view that change.
Viewed(a, ws, tcp, sent, received, closeFrames, disconnects) ==
  /\ a \in ViewType
  /\ a.ws = ws /\ a.tcp = tcp /\ a.sent = sent /\ a.received = received
  /\ a.closeFrames = closeFrames /\ a.disconnects = disconnects

\* Two views with the same fields are the same.
LEMMA ViewEqual ==
  ASSUME NEW a \in ViewType, NEW b \in ViewType,
         a.ws = b.ws, a.tcp = b.tcp, a.sent = b.sent, a.received = b.received,
         a.closeFrames = b.closeFrames, a.disconnects = b.disconnects
  PROVE  a = b
<1>1. /\ a.response = b.response /\ a.misread = b.misread /\ a.alive = b.alive
      /\ a.greeted = b.greeted /\ a.refused = b.refused
  BY DEF ViewType
<1> QED
  BY <1>1 DEF ViewType

Once(n, again) == IF again THEN n ELSE EndOfA!OneMore(n)

\* WsConnection counts from 0 to 1.
LEMMA ZeroOneMore == EndOfA!OneMore(0) = 1
BY DEF EndOfA!OneMore, EndOfA!Counted

\* It does not count further than 3.
LEMMA OnceType ==
  ASSUME NEW n \in 0 .. 3, NEW again \in BOOLEAN
  PROVE  Once(n, again) \in 0 .. 3 /\ (n = 0 => Once(n, again) = IF again THEN 0 ELSE 1)
BY DEF Once, EndOfA!OneMore, EndOfA!Counted

\* close(), as WsConnection has it.
LEMMA ViewClosed ==
  ASSUME NEW a \in ViewType
  PROVE  LET b == EndOfA!Close(a)
         IN  /\ b \in ViewType
             /\ a.ws = "Unconnected" => b = a
             /\ a.ws # "Unconnected" =>
                  /\ b.ws = IF a.received THEN "Unconnected" ELSE "Closing"
                  /\ b.tcp = IF a.received THEN "Closing" ELSE a.tcp
                  /\ b.sent = TRUE /\ b.received = a.received
                  /\ b.closeFrames = Once(a.closeFrames, a.sent)
                  /\ b.disconnects = IF a.received THEN Once(a.disconnects, FALSE) ELSE a.disconnects
<1> DEFINE n == IF a.sent THEN a.closeFrames ELSE EndOfA!OneMore(a.closeFrames)
           e == [a EXCEPT !.sent = TRUE, !.ws = "Closing", !.closeFrames = n]
           m == EndOfA!OneMore(e.disconnects)
           f == [e EXCEPT !.ws = "Unconnected", !.tcp = "Closing", !.disconnects = m]
<1>1. EndOfA!Close(a) = IF a.ws = "Unconnected" THEN a ELSE IF e.received THEN f ELSE e
  BY Zenon DEF EndOfA!Close
<1>2. n \in 0 .. 3 /\ n = Once(a.closeFrames, a.sent)
  BY OnceType DEF ViewType, Once
<1> HIDE DEF n
<1>3. /\ e \in ViewType /\ e.ws = "Closing" /\ e.sent = TRUE /\ e.received = a.received
      /\ e.closeFrames = n /\ e.disconnects = a.disconnects /\ e.tcp = a.tcp
  BY <1>2 DEF ViewType, States
<1> HIDE DEF e
<1>4. m \in 0 .. 3 /\ m = Once(a.disconnects, FALSE)
  BY <1>3, OnceType DEF ViewType, Once
<1> HIDE DEF m
<1>5. /\ f \in ViewType /\ f.ws = "Unconnected" /\ f.tcp = "Closing" /\ f.sent = TRUE
      /\ f.received = a.received /\ f.closeFrames = n /\ f.disconnects = m
  BY <1>3, <1>4 DEF ViewType, States
<1> HIDE DEF f
<1> QED
  BY <1>1, <1>2, <1>3, <1>4, <1>5

\* processTcpStateChanged(UnconnectedState), as WsConnection has it.
LEMMA ViewUnconnected ==
  ASSUME NEW a \in ViewType
  PROVE  LET b == EndOfA!TcpUnconnected(a)
         IN  /\ b \in ViewType
             /\ b.ws = "Unconnected" /\ b.tcp = "Unconnected" /\ b.sent = FALSE /\ b.received = FALSE
             /\ b.closeFrames = a.closeFrames
             /\ b.disconnects = Once(a.disconnects, a.ws = "Unconnected")
<1> DEFINE n == IF a.ws # "Unconnected" THEN EndOfA!OneMore(a.disconnects) ELSE a.disconnects
<1>1. EndOfA!TcpUnconnected(a) =
        [a EXCEPT !.tcp = "Unconnected", !.ws = "Unconnected",
                  !.sent = FALSE, !.received = FALSE, !.disconnects = n]
  BY DEF EndOfA!TcpUnconnected
<1>2. n \in 0 .. 3 /\ n = Once(a.disconnects, a.ws = "Unconnected")
  <2>1. (a.ws = "Unconnected") \in BOOLEAN /\ a.disconnects \in 0 .. 3
    BY DEF ViewType
  <2>2. n = Once(a.disconnects, a.ws = "Unconnected")
    BY DEF Once
  <2> QED BY <2>1, <2>2, OnceType
<1> HIDE DEF n
<1> QED
  BY <1>1, <1>2 DEF ViewType, States

\* A view that looks like the result of its close() is the result.
LEMMA ClosedAlike ==
  ASSUME NEW a, NEW b, NEW ws, NEW tcp, NEW sent \in BOOLEAN, NEW received \in BOOLEAN, NEW c, NEW d,
         Viewed(a, ws, tcp, sent, received, c, d), ws # "Unconnected",
         Viewed(b, IF received THEN "Unconnected" ELSE "Closing", IF received THEN "Closing" ELSE tcp,
                TRUE, received, Once(c, sent), IF received THEN Once(d, FALSE) ELSE d)
  PROVE  b = EndOfA!Close(a)
<1> DEFINE e == EndOfA!Close(a)
<1>1. a \in ViewType
  BY DEF Viewed
<1>2. /\ e \in ViewType
      /\ e.ws = IF received THEN "Unconnected" ELSE "Closing"
      /\ e.tcp = IF received THEN "Closing" ELSE tcp
      /\ e.sent = TRUE /\ e.received = received
      /\ e.closeFrames = Once(c, sent)
      /\ e.disconnects = IF received THEN Once(d, FALSE) ELSE d
  BY <1>1, ViewClosed, ZenonT(60) DEF Viewed
<1> HIDE DEF e
<1>3. b = e
  BY <1>2, ViewEqual DEF Viewed
<1> QED
  BY <1>3 DEF e

\* The same of the end of the TCP connection.
LEMMA UnconnectedAlike ==
  ASSUME NEW a, NEW b, NEW ws, NEW tcp, NEW sent, NEW received, NEW c, NEW d,
         Viewed(a, ws, tcp, sent, received, c, d),
         Viewed(b, "Unconnected", "Unconnected", FALSE, FALSE, c, Once(d, ws = "Unconnected"))
  PROVE  b = EndOfA!TcpUnconnected(a)
<1> DEFINE e == EndOfA!TcpUnconnected(a)
<1>1. a \in ViewType
  BY DEF Viewed
<1>2. /\ e \in ViewType
      /\ e.ws = "Unconnected" /\ e.tcp = "Unconnected" /\ e.sent = FALSE /\ e.received = FALSE
      /\ e.closeFrames = c /\ e.disconnects = Once(d, ws = "Unconnected")
  BY <1>1, ViewUnconnected DEF Viewed
<1> HIDE DEF e
<1>3. b = e
  BY <1>2, ViewEqual DEF Viewed
<1> QED
  BY <1>3 DEF e

----------------------------------------------------------------------------
(* The invariant of one socket.                                            *)

\* Flags, states and counters fit together.  t: the Close frame of the other has
\* been read.
Life(s, t) ==
  /\ s.received => t /\ s.sent /\ s.ws = "Unconnected"
  /\ s.sent => s.ws # "Connected"
  /\ s.ws # "Unconnected" => s.disconnects = 0 /\ (s.sent \/ s.closeFrames = 0)
  /\ s.closeFrames <= 1 /\ s.disconnects <= 1
  /\ s.tcp = "Connected" => ~t /\ s.ws # "Unconnected"
  /\ s.tcp = "Unconnected" => s.ws = "Unconnected" /\ ~s.sent /\ ~s.received

\* The reader runs on a connection that is over only to find nothing, or behind
\* the Close frame; and it stands in front of a header when a slot runs.
Turn(s) ==
  /\ s.running /\ s.tcp = "Closing" => s.received
  /\ s.running /\ s.tcp = "Unconnected" => s.buffer = <<>> /\ s.readingState = "HeaderPending"
  /\ s.slot => s.running /\ s.readingState = "HeaderPending"

\* A socket is all right.
PeerOK(s, t) ==
  s \in SocketType /\ s.version = 13 /\ t \in BOOLEAN /\ Life(s, t) /\ Turn(s)

\* What WsConnection sees of a socket.
Shown(s) ==
  [ws |-> s.ws, tcp |-> s.tcp, sent |-> s.sent, received |-> s.received,
   closeFrames |-> s.closeFrames, disconnects |-> s.disconnects,
   response |-> "none", misread |-> FALSE, alive |-> TRUE,
   greeted |-> FALSE, refused |-> FALSE]

\* The steps of WsConnection, between two views.
Lives(s, t, s2, t2) ==
  LET a == Shown(s)
      b == Shown(s2)
  IN  \/ b = a /\ t2 = t
      \/ b = EndOfA!Close(a) /\ t2 = t
      \/ b = EndOfA!TcpAborted(EndOfA!Close(a)) /\ t2 = t
      \/ a.tcp = "Connected" /\ b = EndOfA!TcpClosing(a) /\ t2 = t
      \/ a.tcp \in {"Connected", "Closing"} /\ b = EndOfA!TcpUnconnected(a) /\ t2 = t
      \/ /\ a.tcp = "Connected" /\ a.ws # "Connecting" /\ ~t /\ t2 = TRUE
         /\ b = EndOfA!Close([a EXCEPT !.received = TRUE])

Goes(s, t, s2, t2) == PeerOK(s2, t2) /\ Lives(s, t, s2, t2)

\* What is seen of a socket that is all right.
LEMMA ShownViewed ==
  ASSUME NEW s, NEW t, PeerOK(s, t)
  PROVE  Viewed(Shown(s), s.ws, s.tcp, s.sent, s.received, s.closeFrames, s.disconnects)
<1>1. s.closeFrames \in 0 .. 2 /\ s.disconnects \in 0 .. 2
  BY DEF PeerOK, Life, SocketType
<1>2. s.ws \in States /\ s.tcp \in States /\ s.sent \in BOOLEAN /\ s.received \in BOOLEAN
  BY DEF PeerOK, SocketType
<1> QED
  BY <1>1, <1>2 DEF Viewed, ViewType, Shown

\* A step that does nothing to connection and reader is a stutter.
LEMMA Quietly ==
  ASSUME NEW s, NEW t, PeerOK(s, t), NEW u \in SocketType, SameLife(s, u), SameReading(s, u), u.slot = s.slot
  PROVE  Goes(s, t, u, t)
<1>1. PeerOK(u, t)
  BY DEF PeerOK, SameLife, SameReading, Life, Turn
<1>2. Shown(u) = Shown(s)
  BY DEF SameLife, Shown
<1> QED
  BY <1>1, <1>2 DEF Goes, Lives

\* disconnectFromHost() of the user is DisconnectFromHost.
LEMMA CloseGoes ==
  ASSUME NEW s, NEW t, PeerOK(s, t), UserRuns(s)
  PROVE  Goes(s, t, Close(s, NoCloseStatusCode), t)
<1> DEFINE u == Close(s, NoCloseStatusCode)
<1> SUFFICES Goes(s, t, u, t)
  OBVIOUS
<1>0. s \in SocketType /\ NoCloseStatusCode \in Nat
  BY DEF PeerOK, NoCloseStatusCode
<1>1. /\ u \in SocketType /\ ClosedLife(s, u) /\ SameReading(s, u)
      /\ ~s.received => u.slot = s.slot
      /\ s.ws = "Unconnected" => u = s
  BY <1>0, CloseStep
<1> HIDE DEF u
<1>2. CASE s.ws = "Unconnected"
  BY <1>1, <1>2 DEF Goes, Lives
<1>3. CASE s.ws # "Unconnected"
  <2>1. ~s.received /\ s.closeFrames \in Nat /\ s.closeFrames <= 1 /\ (s.sent \/ s.closeFrames = 0)
    BY <1>3 DEF PeerOK, Life, SocketType
  <2>2. PeerOK(u, t)
    BY <1>1, <1>3, <2>1 DEF PeerOK, ClosedLife, SameReading, Life, Turn
  <2>3. Shown(u) = EndOfA!Close(Shown(s))
    <3>1. Viewed(Shown(s), s.ws, s.tcp, s.sent, s.received, s.closeFrames, s.disconnects)
      BY ShownViewed
    <3>2. Viewed(Shown(u), u.ws, u.tcp, u.sent, u.received, u.closeFrames, u.disconnects)
      BY <2>2, ShownViewed
    <3>3. Once(s.closeFrames, s.sent) = IF s.sent THEN s.closeFrames ELSE 1
      BY <2>1, ZeroOneMore DEF Once
    <3> DEFINE once == Once(s.closeFrames, s.sent)
    <3>4. Viewed(Shown(u), IF s.received THEN "Unconnected" ELSE "Closing",
                 IF s.received THEN "Closing" ELSE s.tcp, TRUE, s.received,
                 once, IF s.received THEN Once(s.disconnects, FALSE) ELSE s.disconnects)
      <4>1. u.closeFrames = once /\ u.disconnects = s.disconnects /\ u.sent = TRUE
            /\ u.ws = "Closing" /\ u.tcp = s.tcp /\ u.received = s.received
        BY <1>1, <1>3, <2>1, <3>3 DEF ClosedLife
      <4> HIDE DEF once
      <4> QED BY <2>1, <3>2, <4>1
    <3>5. s.sent \in BOOLEAN /\ s.received \in BOOLEAN
      BY <1>0 DEF SocketType
    <3> QED BY <1>3, <3>1, <3>4, <3>5, ClosedAlike
  <2> QED BY <2>2, <2>3 DEF Goes, Lives
<1> QED
  BY <1>2, <1>3

\* The end of the TCP connection is TcpBreaks.
LEMMA TcpUnconnectedGoes ==
  ASSUME NEW s, NEW t, PeerOK(s, t), s.tcp # "Unconnected", ~s.running
  PROVE  Goes(s, t, TcpUnconnected(s), t)
<1> DEFINE u == TcpUnconnected(s)
<1> SUFFICES Goes(s, t, u, t)
  OBVIOUS
<1>1. /\ u \in SocketType /\ SameReading(s, u) /\ u.slot = s.slot
      /\ u.version = s.version /\ u.ws = "Unconnected" /\ u.tcp = "Unconnected"
      /\ u.sent = FALSE /\ u.received = FALSE /\ u.closeFrames = s.closeFrames
      /\ u.disconnects = IF s.ws # "Unconnected" THEN s.disconnects + 1 ELSE s.disconnects
  BY TcpUnconnectedStep DEF PeerOK
<1> HIDE DEF u
<1>2. s.disconnects \in Nat /\ s.tcp \in {"Connected", "Closing"}
  BY DEF PeerOK, SocketType, States
<1>3. PeerOK(u, t)
  BY <1>1, <1>2 DEF PeerOK, SameReading, Life, Turn
<1>4. Shown(u) = EndOfA!TcpUnconnected(Shown(s))
  <2>1. Viewed(Shown(s), s.ws, s.tcp, s.sent, s.received, s.closeFrames, s.disconnects)
    BY ShownViewed
  <2>2. Viewed(Shown(u), u.ws, u.tcp, u.sent, u.received, u.closeFrames, u.disconnects)
    BY <1>3, ShownViewed
  <2>3. Once(s.disconnects, s.ws = "Unconnected") = u.disconnects
    BY <1>1, ZeroOneMore DEF PeerOK, Life, Once
  <2>4. Viewed(Shown(u), "Unconnected", "Unconnected", FALSE, FALSE,
               s.closeFrames, Once(s.disconnects, s.ws = "Unconnected"))
    BY <1>1, <2>2, <2>3
  <2> QED BY <2>1, <2>4, UnconnectedAlike
<1>5. Shown(s).tcp = s.tcp
  BY DEF Shown
<1> QED BY <1>2, <1>3, <1>4, <1>5 DEF Goes, Lives

\* The other end gone is TcpHangsUp.
LEMMA TcpClosingGoes ==
  ASSUME NEW s, NEW t, PeerOK(s, t), s.tcp = "Connected", ~s.running
  PROVE  Goes(s, t, TcpClosing(s), t)
<1> DEFINE e == [s EXCEPT !.tcp = "Closing"]
           c == Close(e, CloseGoingAway)
           u == TcpClosing(s)
<1> SUFFICES Goes(s, t, u, t)
  OBVIOUS
<1>1. /\ s \in SocketType /\ s.ws # "Unconnected" /\ ~s.received /\ CloseGoingAway \in Nat
      /\ s.closeFrames \in Nat /\ s.closeFrames <= 1 /\ (s.sent \/ s.closeFrames = 0)
  BY DEF PeerOK, Life, SocketType, CloseGoingAway
<1>2. /\ e \in SocketType /\ e.tcp = "Closing" /\ e.version = s.version /\ e.ws = s.ws
      /\ e.sent = s.sent /\ e.received = s.received /\ e.running = s.running /\ e.slot = s.slot
      /\ e.readingState = s.readingState /\ e.buffer = s.buffer
      /\ e.closeFrames = s.closeFrames /\ e.disconnects = s.disconnects
  BY <1>1 DEF SocketType, States
<1>3. u = IF s.ws = "Connected" THEN [c EXCEPT !.ws = "Closing"] ELSE e
  BY DEF TcpClosing
<1> HIDE DEF e
<1>4. c \in SocketType /\ ClosedLife(e, c) /\ SameReading(e, c) /\ c.slot = e.slot
  BY <1>1, <1>2, CloseStep
<1>5. c.ws = "Closing"
  BY <1>1, <1>2, <1>4 DEF ClosedLife
<1> HIDE DEF c
<1>6. [c EXCEPT !.ws = "Closing"] = c
  BY <1>4, <1>5 DEF SocketType
<1>7. u = IF s.ws = "Connected" THEN c ELSE e
  BY <1>3, <1>6
<1> HIDE DEF u
<1>8. CASE s.ws = "Connected"
  <2>1. PeerOK(c, t)
    BY <1>1, <1>2, <1>4, <1>8 DEF PeerOK, ClosedLife, SameReading, Life, Turn
  <2>2. Shown(c) = EndOfA!TcpClosing(Shown(s))
    <3> DEFINE a == Shown(s)
               b == [a EXCEPT !.tcp = "Closing"]
               d == EndOfA!Close(b)
               once == Once(s.closeFrames, s.sent)
    <3>1. Viewed(a, s.ws, s.tcp, s.sent, s.received, s.closeFrames, s.disconnects)
      BY ShownViewed
    <3>2. EndOfA!TcpClosing(a) = IF a.ws = "Connected" THEN [d EXCEPT !.ws = "Closing"] ELSE b
      BY Zenon DEF EndOfA!TcpClosing
    <3> HIDE DEF a
    <3>3. Viewed(b, s.ws, "Closing", s.sent, s.received, s.closeFrames, s.disconnects)
      BY <3>1 DEF Viewed, ViewType, States
    <3>4. Viewed(Shown(c), c.ws, c.tcp, c.sent, c.received, c.closeFrames, c.disconnects)
      BY <2>1, ShownViewed
    <3>5. Viewed(Shown(c), IF s.received THEN "Unconnected" ELSE "Closing",
                 IF s.received THEN "Closing" ELSE "Closing", TRUE, s.received,
                 once, IF s.received THEN Once(s.disconnects, FALSE) ELSE s.disconnects)
      <4>1. once = IF s.sent THEN s.closeFrames ELSE 1
        BY <1>1, ZeroOneMore DEF Once
      <4>2. c.closeFrames = once /\ c.disconnects = s.disconnects /\ c.sent = TRUE
            /\ c.tcp = "Closing" /\ c.received = s.received
        BY <1>1, <1>2, <1>4, <1>8, <4>1 DEF ClosedLife
      <4> HIDE DEF once
      <4> QED BY <1>1, <1>5, <3>4, <4>2
    <3>6. s.sent \in BOOLEAN /\ s.received \in BOOLEAN
      BY <1>1 DEF SocketType
    <3> HIDE DEF b
    <3>7. Shown(c) = d
      BY <1>1, <3>3, <3>5, <3>6, ClosedAlike DEF once
    <3> HIDE DEF d
    <3>8. d \in ViewType /\ d.ws = "Closing"
      BY <1>1, <3>5, <3>7 DEF Viewed
    <3>9. [d EXCEPT !.ws = "Closing"] = d
      <4> DEFINE f == [d EXCEPT !.ws = "Closing"]
      <4>1. /\ f \in ViewType /\ f.ws = d.ws /\ f.tcp = d.tcp /\ f.sent = d.sent
            /\ f.received = d.received
            /\ f.closeFrames = d.closeFrames /\ f.disconnects = d.disconnects
        BY <3>8 DEF ViewType, States
      <4> HIDE DEF f
      <4>2. f = d
        BY <3>8, <4>1, ViewEqual
      <4> QED BY <4>2 DEF f
    <3>10. EndOfA!TcpClosing(a) = d
      BY <1>8, <3>1, <3>2, <3>9 DEF Viewed
    <3> QED BY <3>7, <3>10 DEF a
  <2>3. Shown(s).tcp = "Connected"
    BY DEF Shown
  <2> QED BY <1>7, <1>8, <2>1, <2>2, <2>3 DEF Goes, Lives
<1>9. CASE s.ws # "Connected"
  <2>1. PeerOK(e, t)
    BY <1>1, <1>2, <1>9 DEF PeerOK, Life, Turn
  <2>2. Shown(e) = EndOfA!TcpClosing(Shown(s))
    <3> DEFINE a == Shown(s)
               b == [a EXCEPT !.tcp = "Closing"]
    <3>1. Viewed(a, s.ws, s.tcp, s.sent, s.received, s.closeFrames, s.disconnects)
      BY ShownViewed
    <3>2. EndOfA!TcpClosing(a) =
            IF a.ws = "Connected" THEN [EndOfA!Close(b) EXCEPT !.ws = "Closing"] ELSE b
      BY Zenon DEF EndOfA!TcpClosing
    <3> HIDE DEF a
    <3>3. Viewed(b, s.ws, "Closing", s.sent, s.received, s.closeFrames, s.disconnects)
      BY <3>1 DEF Viewed, ViewType, States
    <3>4. Viewed(Shown(e), e.ws, e.tcp, e.sent, e.received, e.closeFrames, e.disconnects)
      BY <2>1, ShownViewed
    <3> HIDE DEF b
    <3>5. Shown(e) = b
      BY <1>2, <3>3, <3>4, ViewEqual DEF Viewed
    <3> QED BY <1>9, <3>1, <3>2, <3>5 DEF Viewed, a
  <2>3. Shown(s).tcp = "Connected"
    BY DEF Shown
  <2> QED BY <1>7, <1>9, <2>1, <2>2, <2>3 DEF Goes, Lives
<1> QED
  BY <1>8, <1>9

\* abort() of the user is Abort.
LEMMA AbortGoes ==
  ASSUME NEW s, NEW t, PeerOK(s, t), UserRuns(s)
  PROVE  Goes(s, t, Abort(s), t)
<1> DEFINE c == Close(s, CloseAbnormalDisconnection)
           u == Abort(s)
<1> SUFFICES Goes(s, t, u, t)
  OBVIOUS
<1>1. s \in SocketType /\ CloseAbnormalDisconnection \in Nat
  BY DEF PeerOK, CloseAbnormalDisconnection
<1>2. /\ c \in SocketType /\ ClosedLife(s, c) /\ SameReading(s, c)
      /\ ~s.received => c.slot = s.slot
      /\ s.ws = "Unconnected" => c = s
  BY <1>1, CloseStep
<1>3. /\ s.tcp = "Unconnected" => u = c
      /\ s.tcp # "Unconnected" =>
           /\ u \in SocketType /\ u.running = s.running /\ u.readingState = s.readingState
           /\ u.version = s.version /\ u.ws = "Unconnected" /\ u.tcp = "Unconnected"
           /\ u.sent = FALSE /\ u.received = FALSE /\ u.closeFrames = c.closeFrames
           /\ u.disconnects = IF c.ws # "Unconnected" THEN c.disconnects + 1 ELSE c.disconnects
           /\ u.buffer = <<>> /\ u.slot = c.slot
  BY <1>1, AbortStep
<1> HIDE DEF c, u
<1>4. CASE s.tcp = "Unconnected"
  <2>1. u = s
    BY <1>2, <1>3, <1>4 DEF PeerOK, Life
  <2> QED BY <2>1 DEF Goes, Lives
<1>5. CASE s.tcp # "Unconnected"
  <2>1. c.slot = s.slot
    BY <1>2 DEF PeerOK, Life
  <2>2. /\ s.closeFrames \in Nat /\ s.disconnects \in Nat /\ s.closeFrames <= 1 /\ s.disconnects <= 1
        /\ s.ws # "Unconnected" => ~s.received /\ (s.sent \/ s.closeFrames = 0) /\ s.disconnects = 0
    BY DEF PeerOK, Life, SocketType
  <2>3. /\ c.closeFrames = IF s.ws = "Unconnected" \/ s.sent THEN s.closeFrames ELSE 1
        /\ u.disconnects = IF s.ws = "Unconnected" THEN s.disconnects ELSE 1
    BY <1>2, <1>3, <1>5, <2>2 DEF ClosedLife
  <2>4. PeerOK(u, t)
    BY <1>3, <1>5, <2>1, <2>2, <2>3 DEF PeerOK, Life, Turn, UserRuns
  <2>5. Shown(u) = EndOfA!TcpAborted(EndOfA!Close(Shown(s)))
    <3> DEFINE a == Shown(s)
               d == EndOfA!Close(a)
    <3>1. Viewed(a, s.ws, s.tcp, s.sent, s.received, s.closeFrames, s.disconnects)
      BY ShownViewed
    <3>2. Viewed(Shown(u), u.ws, u.tcp, u.sent, u.received, u.closeFrames, u.disconnects)
      BY <2>4, ShownViewed
    <3> HIDE DEF a
    <3>3. /\ d \in ViewType /\ d.tcp = s.tcp
          /\ d.closeFrames = IF s.ws = "Unconnected" THEN s.closeFrames ELSE Once(s.closeFrames, s.sent)
          /\ d.disconnects = s.disconnects /\ (d.ws = "Unconnected" <=> s.ws = "Unconnected")
      BY <2>2, <3>1, ViewClosed DEF Viewed
    <3> HIDE DEF d
    <3>4. EndOfA!TcpAborted(d) = EndOfA!TcpUnconnected(d)
      BY <1>5, <3>3 DEF EndOfA!TcpAborted
    <3>5. u.closeFrames = d.closeFrames
      BY <1>3, <1>5, <2>2, <2>3, <3>3, ZeroOneMore DEF Once
    <3>6. u.disconnects = Once(d.disconnects, d.ws = "Unconnected")
      BY <1>3, <1>5, <2>2, <2>3, <3>3, ZeroOneMore DEF Once
    <3>7. Viewed(d, d.ws, d.tcp, d.sent, d.received, d.closeFrames, d.disconnects)
      BY <3>3 DEF Viewed
    <3>8. Viewed(Shown(u), "Unconnected", "Unconnected", FALSE, FALSE,
                 d.closeFrames, Once(d.disconnects, d.ws = "Unconnected"))
      BY <1>3, <1>5, <3>2, <3>5, <3>6
    <3>9. Shown(u) = EndOfA!TcpUnconnected(d)
      BY <3>7, <3>8, UnconnectedAlike
    <3> QED BY <3>4, <3>9 DEF a, d
  <2> QED BY <2>4, <2>5 DEF Goes, Lives
<1> QED
  BY <1>4, <1>5

\* An iteration of the reader is CloseFrameArrives, or a stutter: a Close frame
\* is taken once, while TCP is connected.
LEMMA IterateGoes ==
  ASSUME NEW s, NEW t, PeerOK(s, t), s.running
  PROVE  Goes(s, t, Iterate(s), t \/ Iterate(s).received)
<1> DEFINE u == Iterate(s)
           heard == t \/ u.received
<1> SUFFICES Goes(s, t, u, heard)
  OBVIOUS
<1>1. s \in SocketType /\ s.version # 0 /\ s.running = TRUE
  BY DEF PeerOK, SocketType
<1>2. /\ Iterated(s, u)
      /\ s.buffer = <<>> /\ s.readingState = "HeaderPending" => u.running = FALSE /\ SameLife(s, u)
  BY <1>1, IterateStep
<1> HIDE DEF u
<1>3. u \in SocketType /\ (u.slot => u.running /\ u.readingState = "HeaderPending")
  BY <1>2 DEF Iterated
<1>4. CASE SameLife(s, u)
  <2>1. heard = t
    BY <1>4, <1>3 DEF PeerOK, Life, SameLife, SocketType
  <2>2. s.tcp = "Unconnected" => u.running = FALSE
    BY <1>2 DEF PeerOK, Turn
  <2>3. PeerOK(u, t)
    BY <1>3, <1>4, <2>2 DEF PeerOK, Life, Turn, SameLife
  <2>4. Shown(u) = Shown(s)
    BY <1>4 DEF SameLife, Shown
  <2> HIDE DEF heard
  <2> QED BY <2>1, <2>3, <2>4 DEF Goes, Lives
<1>5. CASE ~SameLife(s, u)
  <2>1. PICK c \in SocketType : /\ u.received = TRUE /\ SameLife([s EXCEPT !.received = TRUE], c)
                                /\ ClosedLife(c, u)
    BY <1>2, <1>5 DEF Iterated, ReadLife
  <2>2. /\ c.version = s.version /\ c.ws = s.ws /\ c.tcp = s.tcp
        /\ c.sent = s.sent /\ c.received = TRUE
        /\ c.closeFrames = s.closeFrames /\ c.disconnects = s.disconnects
    BY <1>1, <2>1 DEF SameLife, SocketType
  <2>3. s.tcp # "Unconnected"
    BY <1>2, <1>5 DEF PeerOK, Turn
  <2>4. s.ws # "Unconnected"
    <3>1. SUFFICES ASSUME s.ws = "Unconnected" PROVE FALSE
      OBVIOUS
    <3>2. s.tcp = "Closing"
      BY <2>3, <3>1 DEF PeerOK, Life, SocketType, States
    <3>3. s.received = TRUE
      BY <1>1, <3>2 DEF PeerOK, Turn, SocketType
    <3>4. SameLife(c, u)
      BY <2>1, <2>2, <3>1 DEF ClosedLife
    <3> QED BY <1>5, <2>2, <3>3, <3>4 DEF SameLife
  <2>5. s.tcp = "Connected" /\ ~t /\ ~s.received /\ s.ws # "Connecting"
    BY <1>1, <2>3, <2>4 DEF PeerOK, Life, Turn, SocketType, States
  <2>6. /\ u.version = s.version /\ u.received = TRUE /\ u.sent = TRUE /\ u.ws = "Unconnected" /\ u.tcp = "Closing"
        /\ u.closeFrames = IF s.sent THEN s.closeFrames ELSE s.closeFrames + 1
        /\ u.disconnects = s.disconnects + 1
    BY <2>1, <2>2, <2>4, <2>5 DEF ClosedLife
  <2>7. heard = TRUE
    BY <2>6
  <2>8. /\ s.closeFrames \in Nat /\ s.closeFrames <= 1 /\ s.disconnects = 0 /\ (s.sent \/ s.closeFrames = 0)
    BY <2>4 DEF PeerOK, Life, SocketType
  <2>9. PeerOK(u, TRUE)
    BY <1>3, <2>6, <2>8 DEF PeerOK, Life, Turn
  <2>10. Shown(u) = EndOfA!Close([Shown(s) EXCEPT !.received = TRUE])
    <3> DEFINE a == Shown(s)
               b == [a EXCEPT !.received = TRUE]
    <3>1. Viewed(a, s.ws, s.tcp, s.sent, s.received, s.closeFrames, s.disconnects)
      BY ShownViewed
    <3> HIDE DEF a
    <3>2. Viewed(b, s.ws, s.tcp, s.sent, TRUE, s.closeFrames, s.disconnects)
      BY <3>1 DEF Viewed, ViewType
    <3>3. Viewed(Shown(u), u.ws, u.tcp, u.sent, u.received, u.closeFrames, u.disconnects)
      BY <2>9, ShownViewed
    <3>4. Once(s.closeFrames, s.sent) = u.closeFrames /\ Once(s.disconnects, FALSE) = u.disconnects
      BY <2>6, <2>8, ZeroOneMore DEF Once
    <3>5. Viewed(Shown(u), IF TRUE THEN "Unconnected" ELSE "Closing",
                 IF TRUE THEN "Closing" ELSE s.tcp, TRUE, TRUE,
                 Once(s.closeFrames, s.sent), IF TRUE THEN Once(s.disconnects, FALSE) ELSE s.disconnects)
      BY <2>6, <3>3, <3>4
    <3>6. s.sent \in BOOLEAN /\ TRUE \in BOOLEAN
      BY <1>1 DEF SocketType
    <3> HIDE DEF b
    <3>7. Shown(u) = EndOfA!Close(b)
      BY <2>4, <3>2, <3>5, <3>6, ClosedAlike
    <3> QED BY <3>7 DEF a, b
  <2>11. Shown(s).tcp = "Connected" /\ Shown(s).ws # "Connecting"
    BY <2>5 DEF Shown
  <2> HIDE DEF heard
  <2> QED BY <2>5, <2>7, <2>9, <2>10, <2>11 DEF Goes, Lives
<1> QED
  BY <1>4, <1>5

----------------------------------------------------------------------------
(* The two.                                                                *)

PeersOK ==
  /\ socks \in [Peer -> SocketType] /\ told \in [Peer -> BOOLEAN] /\ calls \in 0 .. MaxCalls
  /\ \A p \in Peer : PeerOK(socks[p], told[p])

\* What a step of the two does to each.
Going ==
  /\ socks' \in [Peer -> SocketType] /\ told' \in [Peer -> BOOLEAN] /\ calls' \in 0 .. MaxCalls
  /\ \A p \in Peer : Goes(socks[p], told[p], socks'[p], told'[p])

\* So is no step at all.
LEMMA NothingGoes ==
  ASSUME NEW s, NEW t, PeerOK(s, t)
  PROVE  Goes(s, t, s, t)
BY DEF Goes, Lives

\* A step of one socket leaves the other as it is.
LEMMA OneGoes ==
  ASSUME PeersOK, NEW p \in Peer, NEW s \in SocketType, NEW t \in BOOLEAN,
         Goes(socks[p], told[p], s, t),
         socks' = [socks EXCEPT ![p] = s], told' = [told EXCEPT ![p] = t], calls' \in 0 .. MaxCalls
  PROVE  Going
<1>1. socks' \in [Peer -> SocketType] /\ told' \in [Peer -> BOOLEAN]
  BY DEF PeersOK
<1>2. ASSUME NEW q \in Peer
      PROVE  Goes(socks[q], told[q], socks'[q], told'[q])
  <2>1. CASE q = p
    BY <2>1 DEF PeersOK
  <2>2. CASE q # p
    <3>1. socks'[q] = socks[q] /\ told'[q] = told[q]
      BY <2>2 DEF PeersOK
    <3> QED BY <3>1, NothingGoes DEF PeersOK
  <2> QED BY <2>1, <2>2
<1> QED
  BY <1>1, <1>2 DEF Going

\* Two new sockets are all right.
LEMMA InitOK == Init => PeersOK
<1> SUFFICES ASSUME Init PROVE PeersOK
  OBVIOUS
<1> DEFINE s == NewSocket(13)
<1>1. s \in SocketType
  BY NewSocketType
<1>2. /\ s.version = 13 /\ s.ws = "Connected" /\ s.tcp = "Connected" /\ s.sent = FALSE
      /\ s.received = FALSE /\ s.running = FALSE /\ s.slot = FALSE
      /\ s.closeFrames = 0 /\ s.disconnects = 0
  BY DEF NewSocket
<1> HIDE DEF s
<1>3. PeerOK(s, FALSE)
  BY <1>1, <1>2 DEF PeerOK, Life, Turn
<1>4. \A p \in Peer : socks[p] = s /\ told[p] = FALSE
  BY DEF Init, s
<1>5. socks \in [Peer -> SocketType] /\ told \in [Peer -> BOOLEAN]
  BY <1>1 DEF Init, s
<1>6. calls \in 0 .. MaxCalls
  BY MaxCallsIsNat DEF Init
<1> QED
  BY <1>3, <1>4, <1>5, <1>6 DEF PeersOK

\* Every step of the two is one of WsConnection, or a stutter, at each end.
LEMMA StepGoes ==
  ASSUME PeersOK, [Next]_vars
  PROVE  Going
<1>1. ASSUME NEW p \in Peer
      PROVE  /\ PeerOK(socks[p], told[p]) /\ socks[p] \in SocketType
             /\ told[p] \in BOOLEAN /\ told = [told EXCEPT ![p] = told[p]]
  BY DEF PeersOK
<1>2. calls \in 0 .. MaxCalls /\ MaxCalls \in Nat
  BY MaxCallsIsNat DEF PeersOK
<1>3. ASSUME NEW p \in Peer, NEW s, Goes(socks[p], told[p], s, told[p]),
             socks' = [socks EXCEPT ![p] = s], told' = told, calls' \in 0 .. MaxCalls
      PROVE  Going
  <2>1. s \in SocketType
    BY <1>3 DEF Goes, PeerOK
  <2> QED BY <1>1, <1>3, <2>1, OneGoes
<1>4. ASSUME NEW p \in Peer, UserWrites(p)
      PROVE  Going
  <2>1. PICK message \in Message :
          socks' = [socks EXCEPT ![p] = Write(socks[p], message.data, message.asBinary)]
    BY <1>4 DEF UserWrites
  <2> DEFINE s == Write(socks[p], message.data, message.asBinary)
  <2>2. message.data \in Bytes /\ message.asBinary \in BOOLEAN
    BY MessagesAreBytes DEF Bytes
  <2>3. /\ s \in SocketType /\ SameLife(socks[p], s) /\ SameReading(socks[p], s)
        /\ s.slot = socks[p].slot
    BY <1>1, <2>2, WriteStep
  <2> HIDE DEF s
  <2>4. Goes(socks[p], told[p], s, told[p])
    BY <1>1, <2>3, Quietly
  <2>5. calls' \in 0 .. MaxCalls /\ told' = told
    BY <1>2, <1>4 DEF UserWrites
  <2>6. socks' = [socks EXCEPT ![p] = s]
    BY <2>1 DEF s
  <2> QED BY <1>3, <2>4, <2>5, <2>6
<1>5. ASSUME NEW p \in Peer, UserPings(p)
      PROVE  Going
  <2> DEFINE s == Ping(socks[p])
  <2>1. /\ s \in SocketType /\ SameLife(socks[p], s) /\ SameReading(socks[p], s)
        /\ s.slot = socks[p].slot
    BY <1>1, PingStep
  <2>2. socks' = [socks EXCEPT ![p] = s]
    BY <1>5 DEF UserPings
  <2> HIDE DEF s
  <2>3. Goes(socks[p], told[p], s, told[p])
    BY <1>1, <2>1, Quietly
  <2>4. calls' \in 0 .. MaxCalls /\ told' = told
    BY <1>2, <1>5 DEF UserPings
  <2> QED BY <1>3, <2>2, <2>3, <2>4
<1>6. ASSUME NEW p \in Peer, DisconnectFromHost(p)
      PROVE  Going
  <2>1. Goes(socks[p], told[p], Close(socks[p], NoCloseStatusCode), told[p])
    BY <1>1, <1>6, CloseGoes DEF DisconnectFromHost
  <2> QED BY <1>2, <1>3, <1>6, <2>1 DEF DisconnectFromHost
<1>7. ASSUME NEW p \in Peer, UserAborts(p)
      PROVE  Going
  <2>1. Goes(socks[p], told[p], Abort(socks[p]), told[p])
    BY <1>1, <1>7, AbortGoes DEF UserAborts
  <2> QED BY <1>2, <1>3, <1>7, <2>1 DEF UserAborts
<1>8. ASSUME NEW p \in Peer, Arrive(p)
      PROVE  Going
  <2> DEFINE o == Other(p)
             flight == socks[o].output
  <2>1. o \in Peer /\ o # p /\ \A q \in Peer : q = p \/ q = o
    BY DEF Other, Peer
  <2>2. PICK n \in 1 .. Len(flight) :
          socks' = [socks EXCEPT ![p] = Receive(socks[p], SubSeq(flight, 1, n)),
                                 ![o].output = Behind(flight, n)]
    BY <1>8 DEF Arrive
  <2>3. socks[p].tcp = "Connected" /\ ~socks[p].running /\ told' = told /\ calls' = calls
    BY <1>8 DEF Arrive
  <2> HIDE DEF o
  <2>4. socks[o] \in SocketType /\ flight \in Bytes /\ Len(flight) \in Nat
    BY <1>1, <2>1, LengthIsNat DEF SocketType
  <2> DEFINE segment == SubSeq(flight, 1, n)
             s == Receive(socks[p], segment)
             u == [socks[o] EXCEPT !.output = Behind(@, n)]
  <2>5. segment \in Bytes /\ n \in Nat
    <3>1. 1 \in Nat \ {0} /\ n \in Int /\ n <= Len(flight) /\ n \in Nat
      BY <2>4
    <3> QED BY <2>4, <3>1, BytesCut
  <2>6. /\ s \in SocketType /\ SameLife(socks[p], s)
        /\ s.running = TRUE /\ s.readingState = socks[p].readingState /\ s.slot = socks[p].slot
    BY <1>1, <2>5, ReceiveStep
  <2>7. /\ u \in SocketType /\ SameLife(socks[o], u) /\ SameReading(socks[o], u)
        /\ u.slot = socks[o].slot
    BY <2>4, <2>5, OutputTaken
  <2>8. socks'[p] = s /\ socks'[o] = u /\ socks' \in [Peer -> SocketType]
    BY <2>1, <2>2, <2>6, <2>7 DEF PeersOK
  <2> HIDE DEF segment, s, u, flight
  <2>9. Goes(socks[p], told[p], s, told[p])
    <3>1. PeerOK(s, told[p])
      BY <1>1, <2>3, <2>6 DEF PeerOK, SameLife, Life, Turn
    <3>2. Shown(s) = Shown(socks[p])
      BY <2>6 DEF SameLife, Shown
    <3> QED BY <3>1, <3>2 DEF Goes, Lives
  <2>10. Goes(socks[o], told[o], u, told[o])
    BY <1>1, <2>1, <2>7, Quietly
  <2>11. \A q \in Peer : Goes(socks[q], told[q], socks'[q], told'[q])
    BY <2>1, <2>3, <2>8, <2>9, <2>10
  <2> QED BY <1>2, <2>3, <2>8, <2>11 DEF Going, PeersOK
<1>9. ASSUME NEW p \in Peer, ProcessDataV4(p)
      PROVE  Going
  <2> DEFINE s == Iterate(socks[p])
             heard == told[p] \/ s.received
  <2>1. socks[p].running /\ socks' = [socks EXCEPT ![p] = s] /\ calls' = calls
    BY <1>9 DEF ProcessDataV4
  <2>2. Goes(socks[p], told[p], s, heard)
    BY <1>1, <2>1, IterateGoes
  <2>3. s \in SocketType
    BY <2>2 DEF Goes, PeerOK
  <2>4. socks'[p] = s
    BY <2>1 DEF PeersOK
  <2>5. told' = [told EXCEPT ![p] = heard]
    BY <1>9, <2>4 DEF ProcessDataV4
  <2>6. heard \in BOOLEAN
    BY <2>2 DEF Goes, PeerOK
  <2> HIDE DEF s, heard
  <2> QED BY <1>2, <2>1, <2>2, <2>3, <2>5, <2>6, OneGoes
<1>10. ASSUME NEW p \in Peer, TcpFlushed(p)
      PROVE  Going
  <2>1. Goes(socks[p], told[p], TcpUnconnected(socks[p]), told[p])
    BY <1>1, <1>10, TcpUnconnectedGoes DEF TcpFlushed
  <2> QED BY <1>2, <1>3, <1>10, <2>1 DEF TcpFlushed
<1>11. ASSUME NEW p \in Peer, TcpHangsUp(p)
      PROVE  Going
  <2>1. Goes(socks[p], told[p], TcpClosing(socks[p]), told[p])
    BY <1>1, <1>11, TcpClosingGoes DEF TcpHangsUp
  <2> QED BY <1>2, <1>3, <1>11, <2>1 DEF TcpHangsUp
<1>12. ASSUME NEW p \in Peer, TcpBreaks(p)
      PROVE  Going
  <2>1. Goes(socks[p], told[p], TcpUnconnected(socks[p]), told[p])
    BY <1>1, <1>12, TcpUnconnectedGoes DEF TcpBreaks
  <2> QED BY <1>2, <1>3, <1>12, <2>1 DEF TcpBreaks
<1>13. CASE UNCHANGED vars
  <2>1. socks' = socks /\ told' = told /\ calls' = calls
    BY <1>13 DEF vars
  <2>2. \A p \in Peer : Goes(socks[p], told[p], socks[p], told[p])
    BY <1>1, NothingGoes
  <2> QED BY <2>1, <2>2 DEF PeersOK, Going
<1> QED
  BY <1>4, <1>5, <1>6, <1>7, <1>8, <1>9, <1>10, <1>11, <1>12, <1>13 DEF Next

\* The inductive invariant holds: the flags of the closing handshake, the states
\* and the reader fit together at both ends (88-171, 351-501, 531-555).
THEOREM PeersStayOK == Spec => []PeersOK
<1>1. ASSUME PeersOK, [Next]_vars
      PROVE  PeersOK'
  <2>1. Going
    BY <1>1, StepGoes
  <2> QED BY <2>1 DEF Going, PeersOK, Goes
<1> QED
  BY InitOK, <1>1, PTL DEF Spec

\* Only bytes are read and written, a connection has one Close frame from each
\* side at most, and one disconnected() (88-155, 543-550).
THEOREM TypeCorrect == Spec => []TypeOK
<1>1. PeersOK => TypeOK
  BY DEF PeersOK, PeerOK, Life, SocketType, Bytes, TypeOK
<1> QED
  BY PeersStayOK, <1>1, PTL

\* Seen from one end, the other end and TCP behave as WsConnection has it, whatever
\* the bytes are: what that module leaves out changes nothing of the life of a
\* connection.
THEOREM ImplementsConnection == Spec => LivesAsConnection
<1>1. Init => EndOfA!Init
  <2> SUFFICES ASSUME Init PROVE EndOfA!Init
    OBVIOUS
  <2> DEFINE s == socks["a"]
  <2>1. /\ s.ws = "Connected" /\ s.tcp = "Connected" /\ s.sent = FALSE /\ s.received = FALSE
        /\ s.closeFrames = 0 /\ s.disconnects = 0 /\ told["a"] = FALSE
    BY DEF Init, NewSocket, Peer
  <2> HIDE DEF s
  <2>2. Shown(s) = EndOfA!NewSocket("Connected")
    BY <2>1 DEF Shown, EndOfA!NewSocket
  <2>3. [answer |-> "accepts", closed |-> told["a"]] = EndOfA!NewPeer("accepts")
    BY <2>1 DEF EndOfA!NewPeer
  <2> QED BY <2>2, <2>3 DEF s, Shown, EndOfA!Init
<1>2. ASSUME PeersOK, [Next]_vars
      PROVE  [EndOfA!Next]_(EndOfA!vars)
  <2> DEFINE a == Shown(socks["a"])
             b == Shown(socks'["a"])
             t == told["a"]
  <2>1. Lives(socks["a"], t, socks'["a"], told'["a"])
    BY <1>2, StepGoes DEF Going, Goes, Peer
  <2>2. a.alive = TRUE
    BY DEF Shown
  <2>3. CASE b = a /\ told'["a"] = t
    BY <2>3 DEF EndOfA!vars, Shown
  <2>4. CASE b = EndOfA!Close(a) /\ told'["a"] = t
    <3>1. EndOfA!DisconnectFromHost
      BY <2>4 DEF EndOfA!DisconnectFromHost, Shown
    <3> QED BY <3>1 DEF EndOfA!Next
  <2>5. CASE b = EndOfA!TcpAborted(EndOfA!Close(a)) /\ told'["a"] = t
    <3>1. EndOfA!Abort
      BY <2>5 DEF EndOfA!Abort, Shown
    <3> QED BY <3>1 DEF EndOfA!Next
  <2>6. CASE a.tcp = "Connected" /\ b = EndOfA!TcpClosing(a) /\ told'["a"] = t
    <3>1. EndOfA!TcpHangsUp
      BY <2>6 DEF EndOfA!TcpHangsUp, Shown
    <3> QED BY <3>1 DEF EndOfA!Next
  <2>7. CASE a.tcp \in {"Connected", "Closing"} /\ b = EndOfA!TcpUnconnected(a) /\ told'["a"] = t
    <3>1. EndOfA!TcpBreaks
      <4>1. a.tcp \in {"Connecting", "Connected", "Closing"}
        BY <2>7
      <4> QED BY <2>7, <4>1 DEF EndOfA!TcpBreaks, Shown
    <3> QED BY <3>1 DEF EndOfA!Next
  <2>8. CASE /\ a.tcp = "Connected" /\ a.ws # "Connecting" /\ ~t /\ told'["a"] = TRUE
             /\ b = EndOfA!Close([a EXCEPT !.received = TRUE])
    <3>1. EndOfA!CloseFrameArrives
      <4> DEFINE peer == [answer |-> "accepts", closed |-> t]
                 next == [answer |-> "accepts", closed |-> told'["a"]]
      <4>1. [peer EXCEPT !.closed = TRUE] = next
        <5> DEFINE both == [answer : {"accepts"}, closed : BOOLEAN]
                   heard == [peer EXCEPT !.closed = TRUE]
        <5>1. heard \in both /\ heard.answer = "accepts" /\ heard.closed = TRUE
          BY <1>2 DEF PeersOK, PeerOK, Peer
        <5>2. next \in both /\ next.answer = "accepts" /\ next.closed = TRUE
          BY <2>8
        <5> HIDE DEF heard, next
        <5> QED BY <5>1, <5>2
      <4>2. EndOfA!Listening /\ peer.answer = "accepts" /\ ~peer.closed
        BY <2>2, <2>8 DEF EndOfA!Listening, Shown
      <4> QED BY <2>8, <4>1, <4>2 DEF EndOfA!CloseFrameArrives, Shown
    <3> QED BY <3>1 DEF EndOfA!Next
  <2> QED BY <2>1, <2>3, <2>4, <2>5, <2>6, <2>7, <2>8 DEF Lives
<1> QED
  BY PeersStayOK, <1>1, <1>2, PTL DEF Spec, LivesAsConnection, EndOfA!Spec

----------------------------------------------------------------------------
(* The messages that are sent and received.                                *)

----------------------------------------------------------------------------
\* Only goes through the messages as a fold.
LEMMA OnlySteps ==
  ASSUME NEW wanted
  PROVE  /\ \E h : /\ \A r \in Reports, m \in Report :
                        h[<<r, m>>] = IF m \in wanted THEN Append(r, m) ELSE r
                   /\ h \in [Reports \X Report -> Reports]
                   /\ \A messages \in Reports :
                        \E F : /\ Runs(F, Reports, <<>>, messages, h)
                              /\ Only(messages, wanted) = F[Len(messages)]
         /\ Only(<<>>, wanted) = <<>>
<1> DEFINE h == [p \in Reports \X Report |-> IF p[2] \in wanted THEN Append(p[1], p[2]) ELSE p[1]]
<1>1. /\ \A r \in Reports, m \in Report : h[<<r, m>>] = IF m \in wanted THEN Append(r, m) ELSE r
      /\ h \in [Reports \X Report -> Reports]
  BY ReportsGrow
<1> HIDE DEF h
<1>2. ASSUME NEW messages \in Reports
      PROVE  \E F : Runs(F, Reports, <<>>, messages, h) /\ Only(messages, wanted) = F[Len(messages)]
  <2> DEFINE n == Len(messages)
             none == <<>>
             Is(it) == it = [s \in SUBSET (DOMAIN messages) |->
                               IF s = {} THEN none
                               ELSE LET x == Max(s)
                                    IN  IF messages[x] \in wanted THEN Append(it[s \ {x}], messages[x])
                                        ELSE it[s \ {x}]]
             it == CHOOSE f : Is(f)
  <2>1. n \in Nat /\ DOMAIN messages = 1 .. n /\ \A i \in 1 .. n : messages[i] \in Report
    BY DEF Reports
  <2>2. Only(messages, wanted) = it[DOMAIN messages]
    BY Zenon DEF FoldLeft, MapThenFoldSet, Only
  <2>3. IsFold(Reports, Report, none, messages, h)
    BY <1>1 DEF IsFold, Reports
  <2> HIDE DEF none
  <2>4. PICK f : Folds(f, Reports, none, messages, h)
    BY <2>3, FoldExists
  <2>5. Is(f)
    <3>1. f \in [SUBSET (1 .. n) -> Reports] /\ \A s \in SUBSET (1 .. n) : s = {} => f[s] = none
      BY <2>4 DEF Folds
    <3>2. ASSUME NEW s \in SUBSET (1 .. n), s # {}
          PROVE  f[s] = IF messages[Max(s)] \in wanted THEN Append(f[s \ {Max(s)}], messages[Max(s)])
                        ELSE f[s \ {Max(s)}]
      <4>1. Max(s) \in 1 .. n
        BY <2>1, <3>2, GreatestMember
      <4>2. f[s \ {Max(s)}] \in Reports /\ messages[Max(s)] \in Report
        BY <2>1, <3>1, <4>1
      <4>3. f[s] = h[<<f[s \ {Max(s)}], messages[Max(s)]>>]
        BY <2>4, <3>2 DEF Folds
      <4> QED BY <1>1, <4>2, <4>3
    <3> QED BY <2>1, <3>1, <3>2, Zenon
  <2>6. Is(it)
    <3> HIDE DEF Is
    <3> QED BY <2>5
  <2> HIDE DEF it
  <2>7. Loops(it, Reports, none, messages, h)
    <3>1. it[{}] = none
      BY <2>6
    <3>2. ASSUME NEW s \in SUBSET (1 .. n), s # {}, it[s \ {Max(s)}] \in Reports
          PROVE  it[s] = h[<<it[s \ {Max(s)}], messages[Max(s)]>>]
      <4>1. it[s] = IF messages[Max(s)] \in wanted THEN Append(it[s \ {Max(s)}], messages[Max(s)])
                    ELSE it[s \ {Max(s)}]
        BY <2>1, <2>6, <3>2, Zenon
      <4>2. messages[Max(s)] \in Report
        BY <2>1, <3>2, GreatestMember
      <4> QED BY <1>1, <3>2, <4>1, <4>2
    <3> QED BY <3>1, <3>2 DEF Loops
  <2>8. PICK F : Runs(F, Reports, none, messages, h) /\ F[n] = it[1 .. n]
    BY <2>3, <2>7, FoldRuns
  <2> QED BY <2>1, <2>2, <2>8 DEF none
<1>3. Only(<<>>, wanted) = <<>>
  <2>1. <<>> \in Reports /\ Len(<<>>) = 0
    BY DEF Reports
  <2> QED BY <1>2, <2>1 DEF Runs
<1> QED
  BY <1>1, <1>2, <1>3

\* None are none, and a message more is one more of those that are wanted, or none more.
LEMMA OnlyAppend ==
  ASSUME NEW messages \in Reports, NEW m \in Report, NEW wanted
  PROVE  /\ Only(<<>>, wanted) = <<>>
         /\ Only(messages, wanted) \in Reports
         /\ Only(Append(messages, m), wanted) =
              IF m \in wanted THEN Append(Only(messages, wanted), m) ELSE Only(messages, wanted)
<1> DEFINE all == Append(messages, m)
           none == <<>>
<1>1. all \in Reports /\ Len(all) = Len(messages) + 1 /\ none \in Reports
  BY ReportsGrow DEF Reports
<1>2. PICK h : /\ \A r \in Reports, e \in Report :
                    h[<<r, e>>] = IF e \in wanted THEN Append(r, e) ELSE r
               /\ h \in [Reports \X Report -> Reports]
               /\ \A ms \in Reports :
                    \E F : Runs(F, Reports, none, ms, h) /\ Only(ms, wanted) = F[Len(ms)]
  BY OnlySteps
<1>3. PICK F : Runs(F, Reports, none, messages, h) /\ Only(messages, wanted) = F[Len(messages)]
  BY <1>2
<1>4. PICK G : Runs(G, Reports, none, all, h) /\ Only(all, wanted) = G[Len(all)]
  BY <1>1, <1>2
<1>5. IsFold(Reports, Report, none, messages, h)
  BY <1>1, <1>2 DEF IsFold, Reports
<1>6. F[Len(messages)] \in Reports /\ G[Len(messages) + 1] = h[<<F[Len(messages)], m>>]
  <2> HIDE DEF none
  <2> QED BY <1>3, <1>4, <1>5, FoldAppend
<1>7. Only(<<>>, wanted) = <<>>
  BY OnlySteps
<1> QED
  BY <1>1, <1>2, <1>3, <1>4, <1>6, <1>7

----------------------------------------------------------------------------
(* What is under way from one socket to the other: frames.                 *)

\* A frame as composeHeader() begins it, without a mask; a Close frame without
\* a status code.
Frames ==
  {f \in [final : BOOLEAN, opcode : {OpContinue, OpText, OpBinary, OpClose, OpPing}, body : Bytes] :
     /\ Len(f.body) <= MaxInt
     /\ f.opcode \in {OpClose, OpPing} => f.final
     /\ f.opcode = OpClose => f.body = <<>>}

\* The bytes of a frame.
Encode(f) == ComposeHeader(f.final, f.opcode, Len(f.body), <<>>) \o f.body

\* The part of a frame the reader has still to read in a state.
Left(state, f) ==
  IF state = "PayloadLengthPending" THEN SerializeInt(Len(f.body), 2) \o f.body
  ELSE IF state = "BigPayloadLenghPending"
  THEN <<0, 0, 0, 0>> \o (SerializeInt(Len(f.body), 4) \o f.body)
  ELSE f.body

\* The state behind the first two bytes of a frame, for a length.
Announced(n) ==
  IF n <= 125 THEN "MaskPending"
  ELSE IF n <= 65535 THEN "PayloadLengthPending" ELSE "BigPayloadLenghPending"

\* Bytes, and bytes behind them, one by one.
LEMMA BytesConcat ==
  ASSUME NEW a \in Bytes, NEW b \in Bytes
  PROVE  /\ a \o b \in Bytes /\ Len(a \o b) = Len(a) + Len(b)
         /\ \A i \in 1 .. Len(a) + Len(b) : (a \o b)[i] = IF i <= Len(a) THEN a[i] ELSE b[i - Len(a)]
<1>1. a \in Seq(Byte) /\ b \in Seq(Byte)
  BY DEF Bytes
<1> QED
  BY <1>1, ConcatProperties, Zenon DEF Bytes

\* Bytes that begin two sequences begin what is behind them as well.
LEMMA TakenOff ==
  ASSUME NEW b \in Bytes, NEW a \in Bytes, NEW x \in Bytes, NEW y \in Bytes,
         b \o a = x \o y, Len(x) <= Len(b)
  PROVE  /\ SubSeq(b, 1, Len(x)) = x /\ \A i \in 1 .. Len(x) : b[i] = x[i]
         /\ Behind(b, Len(x)) \o a = y
<1>1. TwoWays(Byte, b, a, x, y)
  BY DEF Bytes, TwoWays
<1>2. /\ SubSeq(b, 1, Len(x)) = x /\ \A i \in 1 .. Len(x) : b[i] = x[i]
      /\ SubSeq(b, Len(x) + 1, Len(b)) \o a = y
  BY <1>1, TwoCuts
<1> QED BY <1>2 DEF Behind

\* What is sent behind bytes is behind their rest.
LEMMA JoinedAgain ==
  ASSUME NEW a \in Bytes, NEW b \in Bytes, NEW c \in Bytes
  PROVE  (a \o b) \o c = a \o (b \o c)
BY DEF Bytes

\* No bytes change nothing.
LEMMA NoneJoined ==
  ASSUME NEW a \in Bytes
  PROVE  a \o <<>> = a /\ <<>> \o a = a
BY DEF Bytes

\* One byte behind another.
LEMMA BytesInRow ==
  ASSUME NEW a \in Byte, NEW b \in Byte
  PROVE  /\ <<a>> \in Bytes /\ <<a, b>> \in Bytes /\ <<a>> \o <<b>> = <<a, b>>
         /\ (<<a>> \o <<b>>) \o <<>> = <<a, b>>
         /\ \A c \in Bytes : (<<a>> \o (<<b>> \o c)) \o <<>> = <<a, b>> \o c
<1>1. <<a>> \in Bytes /\ <<b>> \in Bytes /\ <<a, b>> \in Bytes
  BY DEF Bytes
<1>2. <<a>> \o <<b>> = <<a, b>>
  <2> DEFINE d == <<a>>
             e == <<b>>
             f == <<a, b>>
             g == d \o e
  <2>1. d \in Seq(Byte) /\ Len(d) = 1 /\ d[1] = a /\ e \in Seq(Byte) /\ Len(e) = 1 /\ e[1] = b
        /\ f \in Seq(Byte) /\ Len(f) = 2 /\ f[1] = a /\ f[2] = b
    OBVIOUS
  <2> HIDE DEF d, e, f
  <2>2. g \in Seq(Byte) /\ Len(g) = 2 /\ g[1] = a /\ g[2] = b
    <3>1. g \in Seq(Byte) /\ Len(g) = Len(d) + Len(e)
          /\ \A i \in 1 .. Len(d) + Len(e) : g[i] = IF i <= Len(d) THEN d[i] ELSE e[i - Len(d)]
      BY <2>1, ConcatProperties
    <3> HIDE DEF g
    <3> QED BY <2>1, <3>1
  <2> HIDE DEF g
  <2>3. \A i \in 1 .. Len(g) : g[i] = f[i]
    BY <2>1, <2>2
  <2>4. g = f
    BY <2>1, <2>2, <2>3, SeqEqual
  <2> QED BY <2>4 DEF d, e, f, g
<1>3. <<a, b>> \o <<>> = <<a, b>>
  BY <1>1, NoneJoined
<1>4. ASSUME NEW c \in Bytes
      PROVE  (<<a>> \o (<<b>> \o c)) \o <<>> = <<a, b>> \o c
  <2> DEFINE d == <<a>>
             e == <<b>>
             f == <<a, b>>
  <2>1. d \in Bytes /\ e \in Bytes /\ f = d \o e
    BY <1>1, <1>2
  <2> HIDE DEF d, e, f
  <2>2. d \o (e \o c) = f \o c /\ d \o (e \o c) \in Bytes
    BY <2>1, JoinedAgain, BytesJoined
  <2>3. (d \o (e \o c)) \o <<>> = f \o c
    BY <2>2, NoneJoined
  <2> QED BY <2>3 DEF d, e, f
<1> QED
  BY <1>1, <1>2, <1>3, <1>4

\* Bytes that headers begin with.
LEMMA SmallBytes == 0 \in Byte /\ 126 \in Byte /\ 127 \in Byte
BY DEF Byte

\* The parts of a frame.
LEMMA FrameParts ==
  ASSUME NEW f \in Frames
  PROVE  /\ f.final \in BOOLEAN /\ f.opcode \in 0 .. 15 /\ f.body \in Bytes
         /\ Len(f.body) \in 0 .. MaxInt
         /\ f.opcode = OpClose => f.body = <<>>
         /\ f.opcode \in {OpClose, OpPing} => f.final
         /\ f.opcode \in {OpContinue, OpText, OpBinary, OpClose, OpPing}
<1>1. f.body \in Bytes
  BY DEF Frames
<1>2. Len(f.body) \in Nat
  BY <1>1, LengthIsNat
<1> QED
  BY <1>1, <1>2 DEF Frames, OpContinue, OpText, OpBinary, OpClose, OpPing

\* The lengths that serializeInt() writes.
LEMMA SerializeLength ==
  ASSUME NEW number \in Nat, NEW n \in 1 .. 4
  PROVE  /\ Len(SerializeInt(number, n)) = n
         /\ \A i \in 1 .. n : SerializeInt(number, n)[i] = (number \div Weight[n - i + 1]) % 256
<1>1. n \in Nat
  OBVIOUS
<1> QED
  BY <1>1, SerializeType DEF SerializeInt, Bytes

\* What is left of a frame consists of bytes.
LEMMA LeftType ==
  ASSUME NEW f \in Frames
  PROVE  \A state \in ReadingStates : Left(state, f) \in Bytes
<1> DEFINE n == Len(f.body)
           two == SerializeInt(n, 2)
           four == SerializeInt(n, 4)
           zeros == <<0, 0, 0, 0>>
           body == f.body
<1>1. body \in Bytes /\ n \in Nat
  BY FrameParts, LengthIsNat
<1>2. two \in Bytes /\ four \in Bytes /\ zeros \in Bytes
  <2>1. 2 \in 1 .. 4 /\ 4 \in 1 .. 4
    OBVIOUS
  <2>2. zeros \in Bytes
    BY DEF Byte, Bytes
  <2> QED BY <1>1, <2>1, <2>2, SerializeType
<1>3. two \o body \in Bytes /\ zeros \o (four \o body) \in Bytes
  <2> HIDE DEF two, four, zeros, body
  <2> QED BY <1>1, <1>2, BytesJoined
<1> QED
  BY <1>1, <1>3 DEF Left

\* A frame begins with its opcode and the width of its length.
LEMMA FrameBegins ==
  ASSUME NEW f \in Frames
  PROVE  LET n == Len(f.body)
         IN  Encode(f) =
               <<(IF f.final THEN 128 ELSE 0) + f.opcode,
                 IF n <= 125 THEN n ELSE IF n <= 65535 THEN 126 ELSE 127>> \o Left(Announced(n), f)
<1> DEFINE n == Len(f.body)
           first == (IF f.final THEN 128 ELSE 0) + f.opcode
           two == SerializeInt(n, 2)
           four == SerializeInt(n, 4)
           zeros == <<0, 0, 0, 0>>
           body == f.body
<1>1. /\ f.final \in BOOLEAN /\ f.opcode \in 0 .. 15 /\ body \in Bytes /\ n \in 0 .. MaxInt
  BY FrameParts
<1>2. two \in Bytes /\ four \in Bytes /\ zeros \in Bytes
  <2>1. 2 \in 1 .. 4 /\ 4 \in 1 .. 4 /\ n \in Nat
    BY <1>1
  <2>2. zeros \in Bytes
    BY DEF Byte, Bytes
  <2> QED BY <2>1, <2>2, SerializeType
<1> DEFINE short == <<0 + n>>
           middle == <<0 + 126>> \o two
           long == <<0 + 127, 0, 0, 0, 0>> \o four
<1>4. ComposeHeader(f.final, f.opcode, n, <<>>) =
        (<<first>> \o (IF n <= 125 THEN short ELSE IF n <= 65535 THEN middle ELSE long)) \o <<>>
  <2>1. Len(<<>>) # 4
    OBVIOUS
  <2> QED BY <2>1 DEF ComposeHeader
<1>9. short = <<0 + n>> /\ middle = <<0 + 126>> \o two /\ long = <<0 + 127, 0, 0, 0, 0>> \o four
  OBVIOUS
<1>5. first \in Byte
  <2> DEFINE end == f.final
             op == f.opcode
  <2>1. end \in BOOLEAN /\ op \in 0 .. 15
    BY <1>1
  <2> HIDE DEF end, op
  <2>2. (IF end THEN 128 ELSE 0) + op \in Byte
    BY <2>1 DEF Byte
  <2> QED BY <2>2 DEF end, op
<1>0. n \in Nat
  BY <1>1
<1> HIDE DEF first, two, four, n, body, zeros, short, middle, long
<1>6. CASE n <= 125
  <2>1. Left(Announced(n), f) = body
    BY <1>6 DEF Left, Announced, body
  <2>2. n \in Byte /\ 0 + n = n
    BY <1>0, <1>6 DEF Byte
  <2>3. (<<first>> \o <<n>>) \o <<>> = <<first, n>>
    BY <1>5, <2>2, BytesInRow
  <2>4. ComposeHeader(f.final, f.opcode, n, <<>>) = <<first, n>>
    BY <1>4, <1>6, <1>9, <2>2, <2>3
  <2>5. Encode(f) = <<first, n>> \o body
    BY <2>4 DEF Encode, n, body
  <2>6. Encode(f) = <<first, IF n <= 125 THEN n ELSE IF n <= 65535 THEN 126 ELSE 127>> \o Left(Announced(n), f)
    BY <1>6, <2>1, <2>5
  <2> QED BY <2>6 DEF first, n
<1>7. CASE n > 125 /\ n <= 65535
  <2>0. ~(n <= 125) /\ 0 + 126 = 126
    BY <1>0, <1>7
  <2>1. Left(Announced(n), f) = two \o body
    <3>1. Announced(n) = "PayloadLengthPending"
      BY <1>7, <2>0 DEF Announced
    <3> QED BY <3>1 DEF Left, body, two, n
  <2>2. (<<first>> \o (<<126>> \o two)) \o <<>> = <<first, 126>> \o two
    BY <1>2, <1>5, BytesInRow, SmallBytes
  <2>3. ComposeHeader(f.final, f.opcode, n, <<>>) = <<first, 126>> \o two
    <3>1. middle = <<126>> \o two
      BY <1>9, <2>0
    <3>2. ComposeHeader(f.final, f.opcode, n, <<>>) = (<<first>> \o middle) \o <<>>
      BY <1>4, <1>7, <2>0
    <3> QED BY <2>2, <3>1, <3>2
  <2>4. (<<first, 126>> \o two) \o body = <<first, 126>> \o (two \o body)
    BY <1>1, <1>2, <1>5, BytesInRow, SmallBytes, JoinedAgain
  <2>5. Encode(f) = <<first, 126>> \o (two \o body)
    BY <2>3, <2>4 DEF Encode, n, body
  <2>6. Encode(f) = <<first, IF n <= 125 THEN n ELSE IF n <= 65535 THEN 126 ELSE 127>> \o Left(Announced(n), f)
    BY <1>7, <2>0, <2>1, <2>5
  <2> QED BY <2>6 DEF first, n
<1>8. CASE n > 65535
  <2>0. ~(n <= 125) /\ ~(n <= 65535) /\ 0 + 127 = 127
    BY <1>0, <1>8
  <2>1. Left(Announced(n), f) = zeros \o (four \o body)
    <3>1. Announced(n) = "BigPayloadLenghPending"
      BY <2>0 DEF Announced
    <3>2. Left("BigPayloadLenghPending", f) = <<0, 0, 0, 0>> \o (SerializeInt(Len(f.body), 4) \o f.body)
      BY DEF Left
    <3> QED BY <3>1, <3>2 DEF body, four, n, zeros
  <2> DEFINE start == <<first, 127>>
  <2>2. start \in Bytes /\ <<first>> \in Bytes /\ <<127>> \in Bytes /\ start = <<first>> \o <<127>>
    BY <1>5, BytesInRow, SmallBytes
  <2>3. <<127, 0, 0, 0, 0>> = <<127>> \o zeros
    BY DEF zeros
  <2>4. (<<first>> \o (<<127, 0, 0, 0, 0>> \o four)) \o <<>> = start \o (zeros \o four)
    <3> DEFINE a == <<first>>
               b == <<127>>
    <3> HIDE DEF a, b, start
    <3>1. a \in Bytes /\ b \in Bytes /\ start = a \o b
      BY <2>2 DEF a, b
    <3>2. (b \o zeros) \o four = b \o (zeros \o four)
      BY <1>2, <3>1, JoinedAgain
    <3>3. zeros \o four \in Bytes
      BY <1>2, BytesJoined
    <3>4. a \o (b \o (zeros \o four)) = (a \o b) \o (zeros \o four)
      BY <3>1, <3>3, JoinedAgain
    <3>5. (a \o b) \o (zeros \o four) \in Bytes
      BY <3>1, <3>3, BytesJoined
    <3>6. (a \o ((b \o zeros) \o four)) \o <<>> = start \o (zeros \o four)
      BY <3>1, <3>2, <3>4, <3>5, NoneJoined
    <3> QED BY <2>3, <3>6 DEF a, b
  <2>5. ComposeHeader(f.final, f.opcode, n, <<>>) = start \o (zeros \o four)
    <3> DEFINE begin == <<127, 0, 0, 0, 0>>
    <3>1. <<0 + 127, 0, 0, 0, 0>> = begin
      BY <2>0
    <3>2. (<<first>> \o (begin \o four)) \o <<>> = start \o (zeros \o four)
      BY <2>4
    <3> HIDE DEF start, begin
    <3>3. ComposeHeader(f.final, f.opcode, n, <<>>) = (<<first>> \o long) \o <<>>
      BY <1>4, <2>0
    <3> QED BY <1>9, <3>1, <3>2, <3>3
  <2> HIDE DEF start
  <2>6. (start \o (zeros \o four)) \o body = start \o (zeros \o (four \o body))
    <3>1. zeros \o four \in Bytes
      BY <1>2, BytesJoined
    <3>2. (zeros \o four) \o body = zeros \o (four \o body)
      BY <1>1, <1>2, JoinedAgain
    <3> QED BY <1>1, <2>2, <3>1, <3>2, JoinedAgain
  <2>7. Encode(f) = start \o Left(Announced(n), f)
    BY <2>1, <2>5, <2>6 DEF Encode, n, body
  <2>8. Encode(f) = <<first, IF n <= 125 THEN n ELSE IF n <= 65535 THEN 126 ELSE 127>> \o Left(Announced(n), f)
    BY <2>0, <2>7 DEF start
  <2> QED BY <2>8 DEF first, n
<1> QED
  BY <1>0, <1>6, <1>7, <1>8

----------------------------------------------------------------------------
(* Streams of frames.                                                      *)

\* Bytes that have been written and not been read, from the beginning of a
\* frame on: the messages the reader will report of them, whether they begin in
\* the middle of a message, and whether there is a Close frame among them.
Stream == [bytes : Bytes, messages : Reports, open : BOOLEAN, closes : BOOLEAN]

\* The stream without bytes.
Nothing == [bytes |-> <<>>, messages |-> <<>>, open |-> FALSE, closes |-> FALSE]

\* What is reported of a frame: a message that fits into it.
Due(f) ==
  IF f.final /\ f.opcode = OpText THEN <<[kind |-> "text", data |-> f.body]>>
  ELSE IF f.final /\ f.opcode = OpBinary THEN <<[kind |-> "binary", data |-> f.body]>>
  ELSE <<>>

\* r is f and t behind it; strictly, there is nothing behind a Close frame.
Leads(strict, r, f, t) ==
  /\ r.messages = Due(f) \o t.messages
  /\ r.open = (f.opcode = OpContinue) /\ t.open = ~f.final
  /\ strict => r.closes = (f.opcode = OpClose \/ t.closes) /\ (f.opcode = OpClose => t = Nothing)

\* Of each stream in R, what is behind its first frame is in R.
Sound(strict, R) ==
  /\ R \subseteq Stream
  /\ \A r \in R :
       r = Nothing \/ \E f \in Frames, t \in R : r.bytes = Encode(f) \o t.bytes /\ Leads(strict, r, f, t)

\* A stream of whole frames, as long as it may be: there is a set of such streams
\* with it.
Flows(strict, r) == \E R : Sound(strict, R) /\ r \in R

\* One stream behind another.
Joined(r, x) ==
  [bytes |-> r.bytes \o x.bytes, messages |-> r.messages \o x.messages,
   open |-> r.open, closes |-> r.closes \/ x.closes]

\* Nothing is a stream.
LEMMA NothingFlows == Nothing \in Stream /\ \A strict : Flows(strict, Nothing)
<1>1. Nothing \in Stream
  BY NoByte DEF Nothing, Stream, Reports
<1>2. \A strict : Sound(strict, {Nothing})
  BY <1>1 DEF Sound
<1> QED
  BY <1>1, <1>2 DEF Flows

\* A stream is nothing, or begins with a frame.
LEMMA FirstFrame ==
  ASSUME NEW strict, NEW r, Flows(strict, r)
  PROVE  /\ r \in Stream
         /\ r = Nothing \/ \E f \in Frames, t \in Stream :
              Flows(strict, t) /\ r.bytes = Encode(f) \o t.bytes /\ Leads(strict, r, f, t)
<1>1. PICK R : Sound(strict, R) /\ r \in R
  BY DEF Flows
<1>2. \A t \in R : t \in Stream /\ Flows(strict, t)
  BY <1>1 DEF Sound, Flows
<1> QED
  BY <1>1, <1>2 DEF Sound

\* A frame in front of a stream makes a stream.
LEMMA FrameInFront ==
  ASSUME NEW strict, NEW t, Flows(strict, t), NEW f \in Frames, NEW r \in Stream,
         r.bytes = Encode(f) \o t.bytes, Leads(strict, r, f, t)
  PROVE  Flows(strict, r)
<1>1. PICK R : Sound(strict, R) /\ t \in R
  BY DEF Flows
<1> DEFINE Q == R \cup {r}
<1>2. Q \subseteq Stream
  BY <1>1 DEF Sound
<1>3. ASSUME NEW q \in Q
      PROVE  q = Nothing \/ \E g \in Frames, u \in Q : q.bytes = Encode(g) \o u.bytes /\ Leads(strict, q, g, u)
  <2>1. CASE q \in R
    <3>1. q = Nothing \/ \E g \in Frames, u \in R : q.bytes = Encode(g) \o u.bytes /\ Leads(strict, q, g, u)
      BY <1>1, <2>1 DEF Sound
    <3> QED BY <3>1
  <2>2. CASE q = r
    BY <1>1, <2>2
  <2> QED BY <2>1, <2>2
<1>4. Sound(strict, Q)
  BY <1>2, <1>3 DEF Sound
<1> QED
  BY <1>4 DEF Flows

\* A stream is one less strictly as well.
LEMMA LessStrict ==
  ASSUME NEW r, Flows(TRUE, r), NEW strict
  PROVE  Flows(strict, r)
<1>1. PICK R : Sound(TRUE, R) /\ r \in R
  BY DEF Flows
<1>2. ASSUME NEW q, NEW f, NEW t, Leads(TRUE, q, f, t)
      PROVE  Leads(strict, q, f, t)
  BY <1>2 DEF Leads
<1>3. Sound(strict, R)
  BY <1>1, <1>2 DEF Sound
<1> QED
  BY <1>1, <1>3 DEF Flows

\* Sequences of messages, one behind the other.
LEMMA ReportsJoined ==
  /\ <<>> \in Reports
  /\ \A a, b \in Reports : a \o b \in Reports
  /\ \A a, b, c \in Reports : (a \o b) \o c = a \o (b \o c)
  /\ \A a \in Reports : a \o <<>> = a /\ <<>> \o a = a
BY DEF Reports

\* What is reported of a frame is one message at most.
LEMMA DueType ==
  ASSUME NEW f \in Frames
  PROVE  /\ Due(f) \in Reports
         /\ Due(f) = <<>> \/ \E m \in Report : m \in Reported /\ Due(f) = <<m>>
<1> DEFINE a == [kind |-> "text", data |-> f.body]
           b == [kind |-> "binary", data |-> f.body]
<1>1. f.body \in Bytes
  BY FrameParts
<1>2. a \in Report /\ b \in Report /\ a \in Reported /\ b \in Reported
  BY <1>1 DEF Report, Reported, Bytes
<1>3. \A m \in Report : <<m>> \in Reports
  BY DEF Reports
<1>4. Due(f) = <<>> \/ Due(f) = <<a>> \/ Due(f) = <<b>>
  BY DEF Due
<1> HIDE DEF a, b
<1> QED
  BY <1>2, <1>3, <1>4, ReportsJoined

\* A frame consists of bytes.
LEMMA EncodeType ==
  ASSUME NEW f \in Frames
  PROVE  Encode(f) \in Bytes
<1>1. /\ f.final \in BOOLEAN /\ f.opcode \in 0 .. 15 /\ f.body \in Bytes /\ Len(f.body) \in Nat
      /\ <<>> \in Bytes
  BY FrameParts, LengthIsNat, NoByte
<1>2. ComposeHeader(f.final, f.opcode, Len(f.body), <<>>) \in Bytes
  <2> DEFINE end == f.final
             op == f.opcode
             n == Len(f.body)
             key == <<>>
  <2>1. end \in BOOLEAN /\ op \in 0 .. 15 /\ n \in Nat /\ key \in Bytes
    BY <1>1
  <2> HIDE DEF end, op, n, key
  <2>2. ComposeHeader(end, op, n, key) \in Bytes
    BY <2>1, HeaderType
  <2> QED BY <2>2 DEF end, op, n, key
<1> QED
  BY <1>1, <1>2, BytesJoined DEF Encode

\* The fields of a stream.
LEMMA StreamParts ==
  ASSUME NEW r \in Stream
  PROVE  r.bytes \in Bytes /\ r.messages \in Reports /\ r.open \in BOOLEAN /\ r.closes \in BOOLEAN
BY DEF Stream

\* The fields of two streams, one behind the other.
LEMMA JoinedParts ==
  ASSUME NEW r \in Stream, NEW x \in Stream
  PROVE  LET j == Joined(r, x)
         IN  /\ j \in Stream
             /\ j.bytes = r.bytes \o x.bytes /\ j.messages = r.messages \o x.messages
             /\ j.open = r.open /\ j.closes = (r.closes \/ x.closes)
<1> DEFINE b == r.bytes \o x.bytes
           m == r.messages \o x.messages
           c == r.closes \/ x.closes
<1>1. b \in Bytes /\ m \in Reports /\ c \in BOOLEAN /\ r.open \in BOOLEAN
  BY StreamParts, BytesJoined, ReportsJoined
<1>2. Joined(r, x) = [bytes |-> b, messages |-> m, open |-> r.open, closes |-> c]
  BY DEF Joined
<1> HIDE DEF b, m, c
<1>3. LET j == [bytes |-> b, messages |-> m, open |-> r.open, closes |-> c]
      IN  j \in Stream /\ j.bytes = b /\ j.messages = m /\ j.open = r.open /\ j.closes = c
  BY <1>1 DEF Stream
<1> QED
  BY <1>2, <1>3 DEF b, m, c

\* What leads to t leads to t and something behind it, if that is no Close frame.
LEMMA LeadsOn ==
  ASSUME NEW strict, NEW r \in Stream, NEW t \in Stream, NEW f \in Frames, NEW x \in Stream,
         Leads(strict, r, f, t), strict => ~r.closes
  PROVE  Leads(strict, Joined(r, x), f, Joined(t, x)) /\ (strict => ~t.closes)
<1> DEFINE j == Joined(r, x)
           k == Joined(t, x)
<1>1. /\ j.messages = r.messages \o x.messages /\ j.open = r.open /\ j.closes = (r.closes \/ x.closes)
      /\ k.messages = t.messages \o x.messages /\ k.open = t.open /\ k.closes = (t.closes \/ x.closes)
  BY JoinedParts
<1>2. j.messages = Due(f) \o k.messages
  <2>1. Due(f) \in Reports /\ t.messages \in Reports /\ x.messages \in Reports
    BY DueType, StreamParts
  <2>2. (Due(f) \o t.messages) \o x.messages = Due(f) \o (t.messages \o x.messages)
    BY <2>1, ReportsJoined
  <2> QED BY <1>1, <2>2 DEF Leads
<1> HIDE DEF j, k
<1>3. Leads(strict, j, f, k) /\ (strict => ~t.closes)
  BY <1>1, <1>2, StreamParts DEF Leads
<1> QED
  BY <1>3 DEF j, k

\* A stream behind another is a stream, if there is no Close frame between.
LEMMA FlowOn ==
  ASSUME NEW strict, NEW r, Flows(strict, r), NEW x, Flows(strict, x), ~x.open, strict => ~r.closes
  PROVE  Flows(strict, Joined(r, x))
<1>1. PICK R : Sound(strict, R) /\ r \in R
  BY DEF Flows
<1>2. PICK X : Sound(strict, X) /\ x \in X
  BY DEF Flows
<1> DEFINE Calm == {q \in R : strict => ~q.closes}
           Q == {Joined(q, x) : q \in Calm} \cup X
<1>3. x \in Stream /\ R \subseteq Stream /\ X \subseteq Stream
  BY <1>1, <1>2 DEF Sound
<1>4. Q \subseteq Stream
  BY <1>3, JoinedParts
<1>5. ASSUME NEW q \in Calm
      PROVE  \/ Joined(q, x) \in X
             \/ \E f \in Frames, t \in Calm :
                  Joined(q, x).bytes = Encode(f) \o Joined(t, x).bytes /\ Leads(strict, Joined(q, x), f, Joined(t, x))
  <2>1. q \in Stream /\ q \in R /\ (strict => ~q.closes)
    BY <1>3
  <2>2. CASE q = Nothing
    <3>1. <<>> \o x.bytes = x.bytes /\ <<>> \o x.messages = x.messages
      BY <1>3, StreamParts, NoneJoined, ReportsJoined
    <3>2. Joined(q, x) = [bytes |-> x.bytes, messages |-> x.messages, open |-> FALSE, closes |-> x.closes]
      BY <1>3, <2>2, <3>1, StreamParts DEF Joined, Nothing
    <3>3. Joined(q, x) = x
      BY <1>3, <3>2 DEF Stream
    <3> QED BY <1>2, <3>3
  <2>3. CASE q # Nothing
    <3>1. PICK f \in Frames, t \in R : q.bytes = Encode(f) \o t.bytes /\ Leads(strict, q, f, t)
      BY <1>1, <2>1, <2>3 DEF Sound
    <3>2. t \in Stream
      BY <1>3
    <3>3. Leads(strict, Joined(q, x), f, Joined(t, x)) /\ (strict => ~t.closes)
      BY <1>3, <2>1, <3>1, <3>2, LeadsOn
    <3>4. Joined(q, x).bytes = Encode(f) \o Joined(t, x).bytes
      <4>1. Joined(q, x).bytes = q.bytes \o x.bytes /\ Joined(t, x).bytes = t.bytes \o x.bytes
        BY <1>3, <2>1, <3>2, JoinedParts
      <4>2. Encode(f) \in Bytes /\ t.bytes \in Bytes /\ x.bytes \in Bytes
        BY <1>3, <3>2, EncodeType, StreamParts
      <4>3. (Encode(f) \o t.bytes) \o x.bytes = Encode(f) \o (t.bytes \o x.bytes)
        BY <4>2, JoinedAgain
      <4> QED BY <3>1, <4>1, <4>3
    <3> QED BY <3>3, <3>4
  <2> QED BY <2>2, <2>3
<1>6. ASSUME NEW q \in Q
      PROVE  q = Nothing \/ \E f \in Frames, t \in Q : q.bytes = Encode(f) \o t.bytes /\ Leads(strict, q, f, t)
  <2>1. CASE q \in X
    <3>1. q = Nothing \/ \E f \in Frames, t \in X : q.bytes = Encode(f) \o t.bytes /\ Leads(strict, q, f, t)
      BY <1>2, <2>1 DEF Sound
    <3> QED BY <3>1
  <2>2. CASE q \notin X
    <3>1. PICK u \in Calm : q = Joined(u, x)
      BY <2>2
    <3>2. PICK f \in Frames, t \in Calm :
            Joined(u, x).bytes = Encode(f) \o Joined(t, x).bytes /\ Leads(strict, Joined(u, x), f, Joined(t, x))
      BY <1>5, <2>2, <3>1
    <3>3. Joined(t, x) \in Q
      OBVIOUS
    <3> QED BY <3>1, <3>2, <3>3
  <2> QED BY <2>1, <2>2
<1>7. Sound(strict, Q) /\ Joined(r, x) \in Q
  BY <1>1, <1>4, <1>6 DEF Sound
<1> QED
  BY <1>7 DEF Flows

\* A frame alone makes a stream.
LEMMA OneFrame ==
  ASSUME NEW f \in Frames, f.opcode # OpContinue, f.final
  PROVE  LET r == [bytes |-> Encode(f), messages |-> Due(f), open |-> FALSE, closes |-> f.opcode = OpClose]
         IN  r \in Stream /\ Flows(TRUE, r)
<1> DEFINE r == [bytes |-> Encode(f), messages |-> Due(f), open |-> FALSE, closes |-> f.opcode = OpClose]
<1>1. Encode(f) \in Bytes /\ Due(f) \in Reports
  BY EncodeType, DueType
<1>2. r \in Stream
  BY <1>1 DEF Stream
<1>3. r.bytes = Encode(f) \o Nothing.bytes
  BY <1>1, NoneJoined DEF Nothing
<1>4. Leads(TRUE, r, f, Nothing)
  <2>1. r.messages = Due(f) \o Nothing.messages
    BY <1>1, ReportsJoined DEF Nothing
  <2>2. Nothing.open = FALSE /\ Nothing.closes = FALSE
    BY DEF Nothing
  <2>3. f.final = TRUE
    BY FrameParts
  <2> QED BY <2>1, <2>2, <2>3 DEF Leads
<1> HIDE DEF r
<1>5. Flows(TRUE, r)
  BY <1>2, <1>3, <1>4, NothingFlows, FrameInFront
<1> QED
  BY <1>2, <1>5 DEF r

\* The last frame of a message is not full, the others are just so.
LEMMA Pieces ==
  ASSUME NEW size \in Nat
  PROVE  LET n == FramesOf(size)
         IN  /\ n \in Nat \ {0}
             /\ size - (n - 1) * MaxBytesPerFrame < MaxBytesPerFrame
             /\ \A i \in 1 .. n :
                  /\ (i - 1) * MaxBytesPerFrame \in Nat /\ (i - 1) * MaxBytesPerFrame <= size
                  /\ i # n => i * MaxBytesPerFrame <= size
             /\ n = 1 <=> size < MaxBytesPerFrame
<1> DEFINE m == MaxBytesPerFrame
           q == size \div m
           n == FramesOf(size)
<1>1. m \in Nat \ {0}
  BY MaxBytesArePositive
<1>2. q \in Nat /\ size < (q + 1) * m /\ q * m <= size /\ (q = 0 <=> size < m)
  <2> HIDE DEF m
  <2>1. q \in Nat /\ q * m <= size /\ size < (q + 1) * m
    BY <1>1
  <2>2. q = 0 => size < m
    BY <1>1, <2>1
  <2>3. size < m => q = 0
    BY <1>1
  <2> QED BY <2>1, <2>2, <2>3
<1>3. n = q + 1
  BY DEF FramesOf
<1> HIDE DEF q, n, m
<1>4. n \in Nat \ {0} /\ n - 1 = q /\ (n = 1 <=> q = 0)
  BY <1>2, <1>3
<1>5. size - (n - 1) * m < m
  <2> DEFINE v == q * m
  <2>1. v \in Nat /\ (q + 1) * m = v + m
    BY <1>1, <1>2
  <2>2. size < v + m /\ (n - 1) * m = v
    BY <1>2, <1>4, <2>1
  <2> HIDE DEF v
  <2> QED BY <1>1, <2>1, <2>2
<1>6. ASSUME NEW i \in 1 .. n
      PROVE  (i - 1) * m \in Nat /\ (i - 1) * m <= size /\ (i # n => i * m <= size)
  <2>1. i - 1 \in Nat /\ i - 1 <= q /\ i \in Nat /\ (i # n => i <= q)
    BY <1>2, <1>3
  <2>2. \A k \in Nat : k <= q => k * m \in Nat /\ k * m <= size
    <3> TAKE k \in Nat
    <3> HAVE k <= q
    <3>1. k * m <= size
      BY <1>1, DivBound DEF q
    <3>2. k * m \in Nat
      BY <1>1
    <3> QED BY <3>1, <3>2
  <2> QED BY <2>1, <2>2
<1> QED
  BY <1>2, <1>4, <1>5, <1>6 DEF n, m

\* What write() is given, as it is reported when it fits into a frame.
Letter(message, asBinary) == [kind |-> IF asBinary THEN "binary" ELSE "text", data |-> message]

\* The frames of a message make a stream, with the message if it fits into one.
LEMMA FramesFlow ==
  ASSUME NEW message \in Bytes, NEW asBinary \in BOOLEAN
  PROVE  \E x \in Stream :
           /\ Flows(TRUE, x) /\ x.bytes = FlattenSeq(ComposeFrames(message, asBinary))
           /\ ~x.open /\ ~x.closes
           /\ x.messages = IF Letter(message, asBinary) \in Fitting
                           THEN <<Letter(message, asBinary)>> ELSE <<>>
<1> DEFINE size == Len(message)
           n == FramesOf(size)
           m == MaxBytesPerFrame
           from(i) == (i - 1) * m + 1
           to(i) == IF i = n THEN size ELSE i * m
           Data(i) == SubSeq(message, from(i), to(i))
           opcode(i) == IF i > 1 THEN OpContinue ELSE IF asBinary THEN OpBinary ELSE OpText
           Frame(i) == [final |-> i = n, opcode |-> opcode(i), body |-> Data(i)]
           all == ComposeFrames(message, asBinary)
           letter == Letter(message, asBinary)
           whole == IF letter \in Fitting THEN <<letter>> ELSE <<>>
<1>1. size \in Nat /\ m \in Nat \ {0}
  BY LengthIsNat, MaxBytesArePositive
<1>2. /\ n \in Nat \ {0} /\ size - (n - 1) * m < m
      /\ \A i \in 1 .. n : (i - 1) * m \in Nat /\ (i - 1) * m <= size /\ (i # n => i * m <= size)
      /\ (n = 1 <=> size < m)
  BY <1>1, Pieces
<1>3. ASSUME NEW i \in 1 .. n
      PROVE  Data(i) \in Bytes /\ Len(Data(i)) <= MaxInt
  <2> DEFINE b == (i - 1) * m
             e == to(i)
  <2>1. b \in Nat /\ b <= size /\ from(i) = b + 1
    BY <1>2
  <2>2. e \in Nat /\ e <= size /\ e - b <= m /\ b <= e
    <3>1. CASE i = n
      BY <1>1, <1>2, <2>1, <3>1
    <3>2. CASE i # n
      <4>1. i * m = b + m
        BY <1>1, <1>2
      <4>2. e = i * m /\ i * m <= size
        BY <1>2, <3>2
      <4> HIDE DEF e
      <4> QED BY <1>1, <2>1, <4>1, <4>2
    <3> QED BY <3>1, <3>2
  <2> HIDE DEF b, e
  <2>3. Data(i) = SubSeq(message, b + 1, e)
    BY <2>1 DEF e
  <2> HIDE DEF Data
  <2>4. Data(i) \in Bytes
    <3>1. b + 1 \in Nat \ {0} /\ e \in Int /\ e <= Len(message)
      BY <2>1, <2>2
    <3> QED BY <2>3, <3>1, BytesCut
  <2>5. Len(Data(i)) = e - b
    BY <1>1, <2>1, <2>2, <2>3 DEF Bytes
  <2>6. m <= MaxInt /\ MaxInt \in Nat
    BY SMT, MaxBytesAreInt DEF MaxInt
  <2> HIDE DEF m, size
  <2> QED BY <1>1, <2>1, <2>2, <2>4, <2>5, <2>6
<1>4. all = [i \in 1 .. n |-> ComposeHeader(i = n, opcode(i), Len(Data(i)), <<>>) \o Data(i)]
  BY DEF ComposeFrames
<1>5. n = 1 => Data(1) = message
  <2>1. n = 1 => from(1) = 1 /\ to(1) = size
    BY <1>1
  <2>2. SubSeq(message, 1, size) = message
    BY DEF Bytes
  <2> QED BY <2>1, <2>2
<1> HIDE DEF n, Data, opcode, size, m
<1>6. ASSUME NEW i \in 1 .. n
      PROVE  /\ Frame(i) \in Frames /\ Frame(i).final = (i = n)
             /\ Frame(i).opcode = opcode(i) /\ Frame(i).body = Data(i)
  <2>1. opcode(i) \in {OpContinue, OpText, OpBinary} /\ opcode(i) # OpClose /\ opcode(i) # OpPing
    BY DEF opcode, OpContinue, OpText, OpBinary, OpClose, OpPing
  <2> QED BY <1>3, <2>1 DEF Frames
<1> HIDE DEF Frame
<1>7. ASSUME NEW i \in 1 .. n
      PROVE  all[i] = Encode(Frame(i))
  BY <1>4, <1>6, ZenonT(60) DEF Encode
<1>8. all \in Seq(Bytes) /\ Len(all) = n
  <2> DEFINE E(i) == ComposeHeader(i = n, opcode(i), Len(Data(i)), <<>>) \o Data(i)
  <2>1. all = [i \in 1 .. n |-> E(i)]
    BY <1>4
  <2> HIDE DEF E
  <2>2. \A i \in 1 .. n : E(i) \in Bytes
    BY <1>6, <1>7, <2>1, EncodeType
  <2> HIDE DEF all
  <2> QED BY <1>2, <2>1, <2>2
<1> HIDE DEF all
<1>9. PICK H \in [0 .. n -> Bytes] :
        H[n] = <<>> /\ (\A i \in 1 .. n : H[i - 1] = all[i] \o H[i]) /\ FlattenSeq(all) = H[0]
  BY <1>8, FlattenedBack DEF Bytes
<1> DEFINE S(i) == [bytes |-> H[i], messages |-> IF i = 0 THEN whole ELSE <<>>,
                    open |-> 0 < i /\ i < n, closes |-> FALSE]
           R == {S(i) : i \in 0 .. n}
<1>10. whole \in Reports
  <2>1. letter \in Report
    BY DEF Letter, Report
  <2>2. <<letter>> \in Reports
    BY <2>1 DEF Reports
  <2> QED BY <2>2, ReportsJoined
<1>11. whole = IF n = 1 THEN <<letter>> ELSE <<>>
  <2>1. letter \in Fitting <=> size < m
    <3>1. letter \in Reported /\ letter.data = message
      BY DEF Letter, Reported, Bytes
    <3> QED BY <3>1 DEF Fitting, size, m
  <2> QED BY <1>2, <2>1
<1> HIDE DEF whole, letter
<1>12. \A i \in 0 .. n : S(i) \in Stream /\ S(i).bytes = H[i] /\ S(i).closes = FALSE
         /\ S(i).messages = (IF i = 0 THEN whole ELSE <<>>) /\ S(i).open = (0 < i /\ i < n)
  BY <1>2, <1>10, ReportsJoined DEF Stream
<1>13. S(n) = Nothing
  <2>1. n # 0 /\ (0 < n /\ n < n) = FALSE
    BY <1>2
  <2> QED BY <1>9, <2>1, Zenon DEF Nothing
<1> HIDE DEF S
<1>14. ASSUME NEW i \in 1 .. n
       PROVE  S(i - 1).bytes = Encode(Frame(i)) \o S(i).bytes /\ Leads(TRUE, S(i - 1), Frame(i), S(i))
  <2> DEFINE k == i - 1
             f == Frame(i)
  <2>1. k \in 0 .. n /\ i \in 0 .. n /\ i # 0 /\ (k = 0 <=> i = 1) /\ (0 < k /\ k < n <=> i > 1)
        /\ (0 < i /\ i < n <=> ~(i = n))
    BY <1>2
  <2>2. /\ f \in Frames /\ f.final = (i = n) /\ f.opcode = opcode(i) /\ f.body = Data(i)
    BY <1>6
  <2>3. S(k).bytes = Encode(f) \o S(i).bytes
    BY <1>7, <1>9, <1>12, <2>1
  <2> HIDE DEF k, f
  <2>4. S(i).messages = <<>> /\ S(k).messages = IF i = 1 THEN whole ELSE <<>>
    BY <1>12, <2>1
  <2>5. Due(f) = IF i = 1 THEN whole ELSE <<>>
    <3>1. CASE i = 1 /\ n = 1
      <4>1. f.body = message /\ f.final = TRUE
        BY <1>5, <2>2, <3>1
      <4>2. f.opcode = IF asBinary THEN OpBinary ELSE OpText
        BY <2>2, <3>1 DEF opcode
      <4> QED BY <1>11, <3>1, <4>1, <4>2 DEF Due, Letter, letter, OpText, OpBinary
    <3>2. CASE i = 1 /\ n # 1
      BY <1>11, <2>2, <3>2 DEF Due
    <3>3. CASE i # 1
      <4>1. f.opcode = OpContinue
        BY <2>1, <2>2, <3>3 DEF opcode
      <4> QED BY <3>3, <4>1 DEF Due, OpContinue, OpText, OpBinary
    <3> QED BY <3>1, <3>2, <3>3
  <2>6. (i > 1 <=> f.opcode = OpContinue) /\ f.opcode # OpClose
    BY <2>2 DEF opcode, OpContinue, OpText, OpBinary, OpClose
  <2>7. S(k).messages = Due(f) \o S(i).messages
    BY <1>10, <2>4, <2>5, ReportsJoined
  <2>8. Leads(TRUE, S(k), f, S(i))
    <3>1. S(k).open = (f.opcode = OpContinue) /\ S(i).open = ~f.final
      BY <1>12, <2>1, <2>2, <2>6
    <3>2. S(k).closes = FALSE /\ S(i).closes = FALSE
      BY <1>12, <2>1
    <3> QED BY <2>6, <2>7, <3>1, <3>2 DEF Leads
  <2> QED BY <2>3, <2>8 DEF k, f
<1>15. Sound(TRUE, R)
  <2>1. R \subseteq Stream
    BY <1>12
  <2>2. ASSUME NEW i \in 0 .. n
        PROVE  S(i) = Nothing
               \/ \E f \in Frames, t \in R : S(i).bytes = Encode(f) \o t.bytes /\ Leads(TRUE, S(i), f, t)
    <3>1. CASE i = n
      BY <1>13, <3>1
    <3>2. CASE i # n
      <4> DEFINE j == i + 1
      <4>1. j \in 1 .. n /\ j - 1 = i /\ j \in 0 .. n
        BY <1>2, <3>2
      <4> HIDE DEF j
      <4>2. S(i).bytes = Encode(Frame(j)) \o S(j).bytes /\ Leads(TRUE, S(i), Frame(j), S(j)) /\ Frame(j) \in Frames
        BY <1>6, <1>14, <4>1
      <4>3. S(j) \in R
        BY <4>1
      <4> QED BY <4>2, <4>3
    <3> QED BY <3>1, <3>2
  <2>3. \A q \in R : \E i \in 0 .. n : q = S(i)
    OBVIOUS
  <2> HIDE DEF R
  <2>4. ASSUME NEW q \in R
        PROVE  q = Nothing
               \/ \E f \in Frames, t \in R : q.bytes = Encode(f) \o t.bytes /\ Leads(TRUE, q, f, t)
    <3>1. PICK i \in 0 .. n : q = S(i)
      BY <2>3
    <3> QED BY <2>2, <3>1
  <2> QED BY <2>1, <2>4 DEF Sound
<1>16. 0 \in 0 .. n /\ S(0) \in R
  BY <1>2
<1>17. /\ S(0) \in Stream /\ Flows(TRUE, S(0)) /\ S(0).bytes = FlattenSeq(all)
       /\ ~S(0).open /\ ~S(0).closes /\ S(0).messages = whole
  <2>1. Flows(TRUE, S(0))
    <3> HIDE DEF R
    <3> QED BY <1>15, <1>16 DEF Flows
  <2>2. S(0).open = FALSE
    <3>1. (0 < 0 /\ 0 < n) = FALSE
      OBVIOUS
    <3>2. S(0).open = (0 < 0 /\ 0 < n)
      BY <1>12, <1>16
    <3> QED BY <3>1, <3>2, Zenon
  <2> QED BY <1>9, <1>12, <1>16, <2>1, <2>2
<1> QED
  BY <1>17 DEF all, whole, letter

----------------------------------------------------------------------------
(* The reader on a stream.                                                 *)

\* The reader has read the header of f, or its length as well.
Midway(s, f) ==
  /\ s.final = f.final /\ s.opcode = f.opcode /\ s.hasMask = FALSE
  /\ \/ s.readingState = "PayloadLengthPending" /\ Len(f.body) <= 65535
     \/ s.readingState = "BigPayloadLenghPending"
     \/ s.readingState \in {"MaskPending", "PayloadBodyPending"} /\ s.length = Short(Len(f.body))

\* From s to t no message is begun, ended or written.
SameMessages(s, t) ==
  /\ t.frame = s.frame /\ t.emitted = s.emitted
  /\ t.written = s.written /\ t.output = s.output /\ t.late = s.late

\* The two bytes of a header tell what they have been made of.
LEMMA HeaderTells ==
  ASSUME NEW final \in BOOLEAN, NEW opcode \in 0 .. 15, NEW two \in 0 .. 127
  PROVE  LET one == (IF final THEN 128 ELSE 0) + opcode
         IN  /\ one \in Byte /\ two \in Byte
             /\ (one >= 128) = final /\ one % 16 = opcode
             /\ (two >= 128) = FALSE /\ two % 128 = two
<1>1. two \in Byte /\ (two >= 128) = FALSE /\ two % 128 = two
  BY DEF Byte
<1>2. CASE final
  <2> DEFINE one == 128 + opcode
  <2>1. one \in Byte /\ (one >= 128) = TRUE /\ one % 16 = opcode
    BY DEF Byte
  <2> QED BY <1>1, <1>2, <2>1
<1>3. CASE ~final
  <2> DEFINE one == 0 + opcode
  <2>1. one \in Byte /\ (one >= 128) = FALSE /\ one % 16 = opcode
    BY DEF Byte
  <2> QED BY <1>1, <1>3, <2>1
<1> QED
  BY <1>2, <1>3

\* The bytes x are to be read from b, all that is read and under way being x,
\* left and y; and what there is then.
Reads(b, after, x, left, y) ==
  /\ b \in Bytes /\ after \in Bytes /\ x \in Bytes /\ left \in Bytes /\ y \in Bytes
  /\ b \o after = (x \o left) \o y /\ Len(x) <= Len(b)

\* What TakenOff says of it.
HasRead(b, after, x, left, y) ==
  /\ SubSeq(b, 1, Len(x)) = x /\ \A i \in 1 .. Len(x) : b[i] = x[i]
  /\ Behind(b, Len(x)) \o after = left \o y

\* What has been read is off, and so it is what has been written.
LEMMA ReadOff ==
  \A b, after, x, left, y : Reads(b, after, x, left, y) => HasRead(b, after, x, left, y)
<1> SUFFICES ASSUME NEW b, NEW after, NEW x, NEW left, NEW y, Reads(b, after, x, left, y)
             PROVE  HasRead(b, after, x, left, y)
  OBVIOUS
<1> DEFINE rest == left \o y
<1>0. /\ b \in Bytes /\ after \in Bytes /\ x \in Bytes /\ left \in Bytes /\ y \in Bytes
      /\ b \o after = (x \o left) \o y /\ Len(x) <= Len(b)
  BY DEF Reads
<1>1. rest \in Bytes
  BY <1>0, BytesJoined
<1>2. b \o after = x \o rest
  BY <1>0, JoinedAgain
<1> HIDE DEF rest
<1>3. /\ SubSeq(b, 1, Len(x)) = x /\ \A i \in 1 .. Len(x) : b[i] = x[i]
      /\ Behind(b, Len(x)) \o after = rest
  BY <1>0, <1>1, <1>2, TakenOff, Zenon
<1> QED
  BY <1>3, Zenon DEF rest, HasRead

\* The header of a frame is read as it has been written.
LEMMA HeaderRead ==
  ASSUME NEW s \in SocketType, NEW f \in Frames, NEW after \in Bytes, NEW y \in Bytes,
         Len(s.buffer) >= 2, s.buffer \o after = Encode(f) \o y
  PROVE  LET t == ReadHeader(s)
         IN  /\ Midway(t, f) /\ t.buffer \o after = Left(t.readingState, f) \o y
             /\ SameMessages(s, t)
<1> DEFINE n     == Len(f.body)
           one   == (IF f.final THEN 128 ELSE 0) + f.opcode
           two   == IF n <= 125 THEN n ELSE IF n <= 65535 THEN 126 ELSE 127
           x     == <<one, two>>
           left  == Left(Announced(n), f)
           b     == s.buffer
           behind == Behind(b, 2)
           size  == b[2] % 128
           length == IF size < 126 THEN Short(size) ELSE s.length
           state == CASE size = 126 -> "PayloadLengthPending"
                      [] size = 127 -> "BigPayloadLenghPending"
                      [] size < 126 -> "MaskPending"
           final == b[1] >= 128
           opcode == b[1] % 16
           mask  == b[2] >= 128
           t == [s EXCEPT !.final = final, !.opcode = opcode, !.hasMask = mask,
                          !.length = length, !.readingState = state, !.buffer = behind]
<1>1. f.final \in BOOLEAN /\ f.opcode \in 0 .. 15 /\ n \in Nat
  BY FrameParts, LengthIsNat
<1>2. two \in 0 .. 127
  <2> HIDE DEF n
  <2> QED BY <1>1
<1>3. Encode(f) = x \o left
  BY FrameBegins
<1>4. Announced(n) \in ReadingStates /\ Announced(n) = IF n <= 125 THEN "MaskPending"
        ELSE IF n <= 65535 THEN "PayloadLengthPending" ELSE "BigPayloadLenghPending"
  <2> HIDE DEF n
  <2> QED BY DEF Announced, ReadingStates
<1>5. left \in Bytes
  <2>1. \A st \in ReadingStates : Left(st, f) \in Bytes
    BY LeftType
  <2> HIDE DEF n
  <2> QED BY <1>4, <2>1
<1> HIDE DEF n, left
<1>6. one \in Byte /\ two \in Byte /\ (one >= 128) = f.final /\ one % 16 = f.opcode
      /\ (two >= 128) = FALSE /\ two % 128 = two
  <2> DEFINE fin == f.final
             op == f.opcode
             byte == (IF fin THEN 128 ELSE 0) + op
  <2>1. fin \in BOOLEAN /\ op \in 0 .. 15
    BY <1>1
  <2> HIDE DEF two, fin, op
  <2>2. byte \in Byte /\ two \in Byte
    BY <1>2, <2>1, HeaderTells, ZenonT(60)
  <2>3. (byte >= 128) = fin /\ byte % 16 = op
    BY <1>2, <2>1, HeaderTells, ZenonT(60)
  <2>4. (two >= 128) = FALSE /\ two % 128 = two
    BY <1>2, <2>1, HeaderTells
  <2>5. one = byte
    BY DEF fin, op
  <2> HIDE DEF byte
  <2> QED BY <2>2, <2>3, <2>4, <2>5 DEF fin, op
<1>7. two = IF n <= 125 THEN n ELSE IF n <= 65535 THEN 126 ELSE 127
  OBVIOUS
<1> HIDE DEF one, two
<1>8. x \in Bytes /\ Len(x) = 2 /\ x[1] = one /\ x[2] = two
  BY <1>6, BytesInRow
<1>9. b \in Bytes /\ Len(x) <= Len(b)
  BY <1>8 DEF SocketType
<1>20. b \o after = (x \o left) \o y
  BY <1>3
<1> HIDE DEF x, b
<1>10. b[1] = one /\ b[2] = two /\ behind \o after = left \o y
  <2>1. Reads(b, after, x, left, y)
    BY <1>5, <1>8, <1>9, <1>20, Zenon DEF Reads
  <2>3. HasRead(b, after, x, left, y)
    BY <2>1, ReadOff
  <2>2. (\A i \in 1 .. Len(x) : b[i] = x[i]) /\ Behind(b, Len(x)) \o after = left \o y
    BY <2>3 DEF HasRead
  <2> QED BY <1>8, <2>2
<1>11. ReadHeader(s) = t
  BY DEF ReadHeader, b
<1>12. size = two /\ final = f.final /\ opcode = f.opcode /\ mask = FALSE
  BY <1>6, <1>10
<1> HIDE DEF size, final, opcode, mask, behind
<1>13. n <= 125 => state = "MaskPending" /\ length = Short(n)
  <2> HAVE n <= 125
  <2>1. size = n /\ size < 126 /\ size # 126 /\ size # 127
    BY <1>1, <1>7, <1>12
  <2> QED BY <2>1
<1>14. ~(n <= 125) /\ n <= 65535 => state = "PayloadLengthPending"
  BY <1>7, <1>12
<1>15. ~(n <= 125) /\ ~(n <= 65535) => state = "BigPayloadLenghPending"
  BY <1>7, <1>12
<1>16. state = Announced(n)
  <2> HIDE DEF state
  <2> QED BY <1>4, <1>13, <1>14, <1>15
<1> HIDE DEF state, length
<1>17. /\ t.final = final /\ t.opcode = opcode /\ t.hasMask = mask
       /\ t.length = length /\ t.readingState = state /\ t.buffer = behind
       /\ SameMessages(s, t)
  BY DEF SocketType, SameMessages
<1> HIDE DEF t
<1>18. Midway(t, f)
  <2>1. t.final = f.final /\ t.opcode = f.opcode /\ t.hasMask = FALSE
    BY <1>12, <1>17
  <2>2. CASE n <= 125
    BY <1>13, <1>17, <2>1, <2>2 DEF Midway, n
  <2>3. CASE ~(n <= 125) /\ n <= 65535
    BY <1>14, <1>17, <2>1, <2>3 DEF Midway, n
  <2>4. CASE ~(n <= 125) /\ ~(n <= 65535)
    BY <1>15, <1>17, <2>1, <2>4 DEF Midway, n
  <2> QED BY <2>2, <2>3, <2>4
<1>19. t.buffer \o after = Left(t.readingState, f) \o y
  BY <1>10, <1>16, <1>17 DEF left
<1> QED
  BY <1>11, <1>17, <1>18, <1>19

\* So is a length of two bytes.
LEMMA LengthRead ==
  ASSUME NEW s \in SocketType, NEW f \in Frames, NEW after \in Bytes, NEW y \in Bytes,
         Midway(s, f), s.readingState = "PayloadLengthPending",
         Len(s.buffer) >= 2, s.buffer \o after = Left(s.readingState, f) \o y
  PROVE  LET t == ReadLength(s)
         IN  /\ Midway(t, f) /\ t.buffer \o after = Left(t.readingState, f) \o y
             /\ SameMessages(s, t)
<1> DEFINE n == Len(f.body)
           body == f.body
           x == SerializeInt(n, 2)
           b == s.buffer
           behind == Behind(b, 2)
           length == Short(256 * b[1] + b[2])
           t == [s EXCEPT !.length = length, !.readingState = "MaskPending", !.buffer = behind]
<1>1. n \in Nat /\ n <= 65535 /\ body \in Bytes
  BY FrameParts, LengthIsNat DEF Midway
<1> HIDE DEF n, body
<1>2. x \in Bytes /\ Len(x) = 2 /\ x[1] = (n \div 256) % 256 /\ x[2] = (n \div 1) % 256
  <2>1. 2 \in 1 .. 4
    OBVIOUS
  <2>2. x \in Bytes /\ Len(x) = 2 /\ \A i \in 1 .. 2 : x[i] = (n \div Weight[2 - i + 1]) % 256
    BY <1>1, <2>1, SerializeType, SerializeLength
  <2>3. Weight[1] = 1 /\ Weight[2] = 256 /\ 2 - 1 + 1 = 2 /\ 2 - 2 + 1 = 1 /\ 1 \in 1 .. 2 /\ 2 \in 1 .. 2
    BY DEF Weight
  <2> HIDE DEF x
  <2> QED BY <2>2, <2>3
<1> HIDE DEF x
<1>3. Left(s.readingState, f) = x \o body
  BY DEF Left, x, n, body
<1>4. b \in Bytes /\ Len(x) <= Len(b) /\ b \o after = (x \o body) \o y
  BY <1>2, <1>3 DEF SocketType
<1> HIDE DEF b
<1>5. b[1] = x[1] /\ b[2] = x[2] /\ behind \o after = body \o y
  <2>1. Reads(b, after, x, body, y)
    BY <1>1, <1>2, <1>4 DEF Reads
  <2>3. HasRead(b, after, x, body, y)
    BY <2>1, ReadOff
  <2>2. (\A i \in 1 .. Len(x) : b[i] = x[i]) /\ Behind(b, Len(x)) \o after = body \o y
    BY <2>3 DEF HasRead
  <2> QED BY <1>2, <2>2
<1>6. 256 * b[1] + b[2] = n
  <2>1. n \div 1 = n
    BY <1>1
  <2>2. (n \div 256) % 256 = n \div 256
    BY <1>1
  <2>3. 256 * (n \div 256) + (n % 256) = n
    BY <1>1
  <2> QED BY <1>2, <1>5, <2>1, <2>2, <2>3
<1>7. length = Short(n)
  <2> DEFINE v == 256 * b[1] + b[2]
  <2>1. v = n
    BY <1>6
  <2> HIDE DEF v
  <2>2. Short(v) = Short(n)
    BY <2>1
  <2> QED BY <2>2 DEF v
<1>8. ReadLength(s) = t
  BY DEF ReadLength, b
<1> HIDE DEF length, behind
<1>9. t.length = length /\ t.readingState = "MaskPending" /\ t.buffer = behind /\ SameMessages(s, t)
      /\ t.final = s.final /\ t.opcode = s.opcode /\ t.hasMask = s.hasMask
  BY DEF SocketType, SameMessages
<1> HIDE DEF t
<1>10. Midway(t, f)
  BY <1>7, <1>9 DEF Midway, n
<1>11. Left(t.readingState, f) = body
  BY <1>9 DEF Left, body
<1> QED
  BY <1>5, <1>8, <1>9, <1>10, <1>11

\* Four digits make up a number.
LEMMA FourDigits ==
  ASSUME NEW n \in Nat, n <= MaxInt
  PROVE  LET d1 == (n \div Weight[4]) % 256
             d2 == (n \div Weight[3]) % 256
             d3 == (n \div Weight[2]) % 256
             d4 == (n \div Weight[1]) % 256
         IN  /\ ((d1 + 128) % 256) - 128 = d1
             /\ ((d1 * 256 + d2) * 256 + d3) * 256 + d4 = n
<1>1. n < 2147483648
  BY SMT DEF MaxInt
<1> DEFINE a == n \div 256
           b == a \div 256
           c == b \div 256
<1>2. a \in Nat /\ n = 256 * a + (n % 256) /\ n % 256 \in Nat
  BY SMT
<1>3. b \in Nat /\ a = 256 * b + (a % 256) /\ a % 256 \in Nat
  <2> HIDE DEF a
  <2> QED BY <1>2, SMT
<1>4. c \in Nat /\ b = 256 * c + (b % 256) /\ b % 256 \in Nat
  <2> HIDE DEF b
  <2> QED BY <1>3, SMT
<1>5. n \div Weight[3] = b /\ n \div Weight[2] = a
  BY SMT DEF Weight
<1>6. n \div Weight[4] = c
  BY SMT DEF Weight
<1>7. c < 128
  BY <1>1, <1>6, SMT DEF Weight
<1>8. n \div Weight[1] = n
  BY SMT DEF Weight
<1> HIDE DEF a, b, c
<1>9. c % 256 = c /\ ((c + 128) % 256) - 128 = c
  BY <1>4, <1>7, SMT
<1>10. ((c * 256 + (b % 256)) * 256 + (a % 256)) * 256 + (n % 256) = n
  BY <1>2, <1>3, <1>4, SMT
<1> QED
  BY <1>5, <1>6, <1>8, <1>9, <1>10, ZenonT(60)

\* So is a length of eight bytes, of which four count.
LEMMA BigLengthRead ==
  ASSUME NEW s \in SocketType, NEW f \in Frames, NEW after \in Bytes, NEW y \in Bytes,
         Midway(s, f), s.readingState = "BigPayloadLenghPending",
         Len(s.buffer) >= 8, s.buffer \o after = Left(s.readingState, f) \o y
  PROVE  LET t == ReadBigLength(s)
         IN  /\ Midway(t, f) /\ t.buffer \o after = Left(t.readingState, f) \o y
             /\ SameMessages(s, t)
<1> DEFINE n == Len(f.body)
           body == f.body
           zeros == <<0, 0, 0, 0>>
           four == SerializeInt(n, 4)
           x == zeros \o four
           b == s.buffer
           behind == Behind(b, 8)
           high == Number(b[1] % 128, b)
           low == Number(((b[5] + 128) % 256) - 128, Behind(b, 4))
           length == [high |-> high, low |-> low]
           t == [s EXCEPT !.length = length, !.readingState = "MaskPending", !.buffer = behind]
<1>1. n \in Nat /\ n <= MaxInt /\ body \in Bytes
  BY FrameParts, LengthIsNat DEF Frames
<1>2. zeros \in Bytes /\ Len(zeros) = 4 /\ zeros[1] = 0 /\ zeros[2] = 0 /\ zeros[3] = 0 /\ zeros[4] = 0
  BY DEF Byte, Bytes
<1> HIDE DEF n, body, zeros
<1>3. four \in Bytes /\ Len(four) = 4
      /\ four[1] = (n \div Weight[4]) % 256 /\ four[2] = (n \div Weight[3]) % 256
      /\ four[3] = (n \div Weight[2]) % 256 /\ four[4] = (n \div Weight[1]) % 256
  <2>1. 4 \in 1 .. 4
    OBVIOUS
  <2>2. four \in Bytes /\ Len(four) = 4 /\ \A i \in 1 .. 4 : four[i] = (n \div Weight[4 - i + 1]) % 256
    BY <1>1, <2>1, SerializeType, SerializeLength
  <2>3. /\ 4 - 1 + 1 = 4 /\ 4 - 2 + 1 = 3 /\ 4 - 3 + 1 = 2 /\ 4 - 4 + 1 = 1
        /\ 1 \in 1 .. 4 /\ 2 \in 1 .. 4 /\ 3 \in 1 .. 4 /\ 4 \in 1 .. 4
    OBVIOUS
  <2> HIDE DEF four
  <2> QED BY <2>2, <2>3
<1> HIDE DEF four
<1>4. x \in Bytes /\ Len(x) = 8 /\ \A i \in 1 .. 4 : x[i] = zeros[i] /\ x[4 + i] = four[i]
  <2>1. x \in Bytes /\ Len(x) = Len(zeros) + Len(four)
        /\ \A i \in 1 .. Len(zeros) + Len(four) : x[i] = IF i <= Len(zeros) THEN zeros[i] ELSE four[i - Len(zeros)]
    BY <1>2, <1>3, BytesConcat, ZenonT(60)
  <2> HIDE DEF x
  <2>2. \A i \in 1 .. 8 : x[i] = IF i <= 4 THEN zeros[i] ELSE four[i - 4]
    BY <1>2, <1>3, <2>1
  <2>3. ASSUME NEW i \in 1 .. 4
        PROVE  x[i] = zeros[i] /\ x[4 + i] = four[i]
    <3> DEFINE j == 4 + i
    <3>1. j \in 1 .. 8 /\ ~(j <= 4) /\ j - 4 = i /\ i \in 1 .. 8 /\ i <= 4
      OBVIOUS
    <3> HIDE DEF j
    <3>2. x[j] = four[i] /\ x[i] = zeros[i]
      BY <2>2, <3>1
    <3> QED BY <3>2 DEF j
  <2> QED BY <1>2, <1>3, <2>1, <2>3
<1>5. Left(s.readingState, f) = x \o body
  <2>1. Left(s.readingState, f) = zeros \o (four \o body)
    BY DEF Left, n, body, zeros, four
  <2> QED BY <1>1, <1>2, <1>3, <2>1, JoinedAgain
<1> HIDE DEF x
<1>6. b \in Bytes /\ Len(b) \in Nat /\ Len(b) >= 8 /\ Len(x) <= Len(b) /\ b \o after = (x \o body) \o y
  BY <1>4, <1>5, LengthIsNat DEF SocketType
<1> HIDE DEF b
<1>7. (\A i \in 1 .. 8 : b[i] = x[i]) /\ behind \o after = body \o y
  <2>1. Reads(b, after, x, body, y)
    BY <1>1, <1>4, <1>6 DEF Reads
  <2>2. HasRead(b, after, x, body, y)
    BY <2>1, ReadOff
  <2>3. (\A i \in 1 .. Len(x) : b[i] = x[i]) /\ Behind(b, Len(x)) \o after = body \o y
    BY <2>2 DEF HasRead
  <2> QED BY <1>4, <2>3
<1>8. /\ b[1] = 0 /\ b[2] = 0 /\ b[3] = 0 /\ b[4] = 0
      /\ b[5] = four[1] /\ b[6] = four[2] /\ b[7] = four[3] /\ b[8] = four[4]
  <2>1. 1 \in 1 .. 4 /\ 2 \in 1 .. 4 /\ 3 \in 1 .. 4 /\ 4 \in 1 .. 4
        /\ 4 + 1 = 5 /\ 4 + 2 = 6 /\ 4 + 3 = 7 /\ 4 + 4 = 8
    OBVIOUS
  <2>2. \A i \in 1 .. 8 : i \in {1, 2, 3, 4, 5, 6, 7, 8}
    OBVIOUS
  <2>3. x[1] = 0 /\ x[2] = 0 /\ x[3] = 0 /\ x[4] = 0
    BY <1>2, <1>4, <2>1
  <2>4. x[5] = four[1] /\ x[6] = four[2] /\ x[7] = four[3] /\ x[8] = four[4]
    BY <1>4, <2>1
  <2> QED BY <1>7, <2>3, <2>4
<1>9. LET r == Behind(b, 4) IN r[2] = b[6] /\ r[3] = b[7] /\ r[4] = b[8]
  <2>1. \A i \in 1 .. Len(b) - 4 : Behind(b, 4)[i] = b[4 + i]
    BY <1>6 DEF Behind, Bytes
  <2>2. 2 \in 1 .. Len(b) - 4 /\ 3 \in 1 .. Len(b) - 4 /\ 4 \in 1 .. Len(b) - 4
        /\ 4 + 2 = 6 /\ 4 + 3 = 7 /\ 4 + 4 = 8
    BY <1>6
  <2>3. Behind(b, 4)[2] = b[6]
    BY <2>1, <2>2
  <2>4. Behind(b, 4)[3] = b[7]
    BY <2>1, <2>2
  <2>5. Behind(b, 4)[4] = b[8]
    BY <2>1, <2>2
  <2> QED BY <2>3, <2>4, <2>5
<1>10. high = 0
  BY <1>8 DEF Number
<1>11. low = n
  <2> DEFINE d == four[1]
  <2> DEFINE e1 == (n \div Weight[4]) % 256
             e2 == (n \div Weight[3]) % 256
             e3 == (n \div Weight[2]) % 256
             e4 == (n \div Weight[1]) % 256
  <2>0. ((e1 + 128) % 256) - 128 = e1 /\ ((e1 * 256 + e2) * 256 + e3) * 256 + e4 = n
    BY <1>1, FourDigits, Zenon
  <2>5. four[1] = e1 /\ four[2] = e2 /\ four[3] = e3 /\ four[4] = e4
    BY <1>3
  <2> HIDE DEF e1, e2, e3, e4
  <2>1. ((d + 128) % 256) - 128 = d
    BY <2>0, <2>5, Zenon
  <2>2. ((d * 256 + four[2]) * 256 + four[3]) * 256 + four[4] = n
    BY <2>0, <2>5, Zenon
  <2>3. low = Number(d, Behind(b, 4))
    BY <1>8, <2>1, Zenon
  <2>4. Number(d, Behind(b, 4)) = ((d * 256 + four[2]) * 256 + four[3]) * 256 + four[4]
    BY <1>8, <1>9, Zenon DEF Number
  <2> QED BY <2>2, <2>3, <2>4, Zenon
<1> HIDE DEF high, low
<1>12. length = Short(n)
  BY <1>10, <1>11 DEF Short
<1>13. ReadBigLength(s) = t
  BY DEF ReadBigLength, b, high, low
<1> HIDE DEF length, behind
<1>14. t.length = length /\ t.readingState = "MaskPending" /\ t.buffer = behind /\ SameMessages(s, t)
      /\ t.final = s.final /\ t.opcode = s.opcode /\ t.hasMask = s.hasMask
  BY DEF SocketType, SameMessages
<1> HIDE DEF t
<1>15. Midway(t, f)
  BY <1>12, <1>14 DEF Midway, n
<1>16. Left(t.readingState, f) = body
  BY <1>14 DEF Left, body
<1> QED
  BY <1>7, <1>13, <1>14, <1>15, <1>16

\* The reader has a frame to itself then, as far as it is there.
LEMMA BodyRead ==
  ASSUME NEW s \in SocketType, NEW f \in Frames, NEW after \in Bytes, NEW y \in Bytes,
         Midway(s, f), s.readingState = "PayloadBodyPending",
         Len(s.buffer) >= s.length.low, s.buffer \o after = f.body \o y
  PROVE  LET t == Payload(ReadStatusCode(s))
         IN  /\ t.final = f.final /\ t.opcode = f.opcode
             /\ t.frame = s.frame \o f.body /\ t.buffer \o after = y
             /\ f.opcode = OpClose => t.code = NoCloseStatusCode
             /\ t.emitted = s.emitted /\ t.written = s.written /\ t.output = s.output /\ t.late = s.late
<1> DEFINE n == Len(f.body)
           c == ReadStatusCode(s)
           code == IF s.opcode = OpClose THEN NoCloseStatusCode ELSE s.code
<1>1. /\ n \in Nat /\ f.body \in Bytes /\ (f.opcode = OpClose => f.body = <<>>)
      /\ s.length = Short(n) /\ s.final = f.final /\ s.opcode = f.opcode /\ s.hasMask = FALSE
  BY FrameParts, LengthIsNat DEF Midway
<1>2. c = [s EXCEPT !.code = code]
  <2>1. CASE s.opcode = OpClose
    <3>1. n = 0
      BY <1>1, <2>1
    <3>2. s.length = Short(0)
      BY <1>1, <3>1
    <3> QED BY <2>1, <3>2 DEF ReadStatusCode
  <2>2. CASE s.opcode # OpClose
    BY <2>2 DEF ReadStatusCode, SocketType
  <2> QED BY <2>1, <2>2
<1> HIDE DEF code
<1>3. /\ c.code = code /\ c.final = s.final /\ c.opcode = s.opcode /\ c.hasMask = s.hasMask
      /\ c.length = s.length /\ c.buffer = s.buffer /\ c.frame = s.frame
      /\ c.emitted = s.emitted /\ c.written = s.written /\ c.output = s.output /\ c.late = s.late
  BY <1>2 DEF SocketType
<1>4. c \in SocketType
  BY ReadStatusCodeStep DEF ReadOn
<1> HIDE DEF c, n
<1>5. TakenOf(c) = n
  <2>1. Len(s.buffer) \in Nat
    BY LengthIsNat DEF SocketType
  <2>2. s.length.high = 0 /\ s.length.low = n
    BY <1>1 DEF Short
  <2> QED BY <1>1, <1>3, <2>1, <2>2 DEF TakenOf
<1> DEFINE data == SubSeq(s.buffer, 1, n)
           behind == Behind(s.buffer, n)
           frame == s.frame \o data
           t == [c EXCEPT !.frame = frame, !.buffer = behind, !.readingState = "HeaderPending"]
<1>6. Payload(c) = t
  BY <1>1, <1>3, <1>5 DEF Payload
<1>7. data = f.body /\ behind \o after = y
  <2> DEFINE b == s.buffer
             body == f.body
  <2>1. b \in Bytes /\ body \in Bytes /\ Len(body) = n /\ n <= Len(b) /\ b \o after = body \o y
    <3>1. s.length.low = n
      BY <1>1 DEF Short
    <3>2. Len(s.buffer) \in Nat
      BY LengthIsNat DEF SocketType
    <3> QED BY <1>1, <3>1, <3>2 DEF SocketType, n
  <2> HIDE DEF b, body
  <2>2. <<>> \in Bytes /\ body \o <<>> = body /\ <<>> \o y = y
    BY <2>1, NoByte, NoneJoined
  <2>3. Reads(b, after, body, <<>>, y)
    BY <2>1, <2>2 DEF Reads
  <2>4. HasRead(b, after, body, <<>>, y)
    BY <2>3, ReadOff
  <2>5. SubSeq(b, 1, Len(body)) = body /\ Behind(b, Len(body)) \o after = y
    BY <2>2, <2>4 DEF HasRead
  <2> QED BY <2>1, <2>5 DEF b, body
<1> HIDE DEF frame, behind
<1>8. /\ t.code = c.code /\ t.final = c.final /\ t.opcode = c.opcode /\ t.frame = frame /\ t.buffer = behind
      /\ t.emitted = c.emitted /\ t.written = c.written /\ t.output = c.output /\ t.late = c.late
  BY <1>4 DEF SocketType
<1> HIDE DEF t
<1> QED
  BY <1>1, <1>3, <1>6, <1>7, <1>8 DEF c, frame, code

----------------------------------------------------------------------------
(* The writer of a stream.                                                 *)

\* From w to v a stream is put behind the output, of a message at most, and
\* what is put behind a Close frame counts as late.
Puts(w, v) ==
  \E x \in Stream :
    /\ Flows(TRUE, x) /\ x.open = FALSE
    /\ v.output = w.output \o x.bytes
    /\ Only(v.written, Fitting) = Only(w.written, Fitting) \o x.messages
    /\ x.messages = <<>> \/ \E m \in Report : x.messages = <<m>>
    /\ w.late => v.late
    /\ w.sent => v.sent /\ (x = Nothing \/ v.late)
    /\ x.closes => v.sent
    /\ (v.tcp = "Unconnected") = (w.tcp = "Unconnected")
    /\ w.tcp = "Unconnected" => x = Nothing

\* From w to v the connection ends, with a part of the output.
Drops(w, v) ==
  /\ v.tcp = "Unconnected" /\ v.written = w.written /\ v.late = w.late
  /\ v.output \in Bytes /\ \E gone \in Bytes : w.output = v.output \o gone

\* From s to t the reader does not move.
SameReader(s, t) ==
  /\ t.buffer = s.buffer /\ t.readingState = s.readingState /\ t.frame = s.frame
  /\ t.final = s.final /\ t.opcode = s.opcode /\ t.hasMask = s.hasMask /\ t.length = s.length
  /\ t.emitted = s.emitted /\ t.received = s.received
  /\ s.tcp = "Unconnected" => t.tcp = "Unconnected"

\* What is sent, is sent as MessageChannel has it.
LEMMA OnlyType ==
  ASSUME NEW messages \in Reports, NEW wanted
  PROVE  Only(messages, wanted) \in Reports
<1>1. PICK h : /\ \A r \in Reports, m \in Report :
                    h[<<r, m>>] = IF m \in wanted THEN Append(r, m) ELSE r
               /\ h \in [Reports \X Report -> Reports]
               /\ \A ms \in Reports :
                    \E F : Runs(F, Reports, <<>>, ms, h) /\ Only(ms, wanted) = F[Len(ms)]
  BY OnlySteps
<1>2. PICK F : Runs(F, Reports, <<>>, messages, h) /\ Only(messages, wanted) = F[Len(messages)]
  BY <1>1
<1>3. F \in [0 .. Len(messages) -> Reports] /\ Len(messages) \in 0 .. Len(messages)
  BY <1>2 DEF Runs, Reports
<1> QED
  BY <1>2, <1>3

\* One message more.
LEMMA OnlyMore ==
  \A wanted : \A messages \in Reports, m \in Report :
    Only(Append(messages, m), wanted) = Only(messages, wanted) \o (IF m \in wanted THEN <<m>> ELSE <<>>)
<1> TAKE wanted
<1> TAKE messages \in Reports, m \in Report
<1>1. Only(messages, wanted) \in Reports
  BY OnlyType
<1>2. Only(Append(messages, m), wanted) =
        IF m \in wanted THEN Append(Only(messages, wanted), m) ELSE Only(messages, wanted)
  BY OnlyAppend
<1>3. \A r \in Reports, e \in Report : Append(r, e) = r \o <<e>>
  BY DEF Reports
<1>4. Only(messages, wanted) \o <<>> = Only(messages, wanted)
  BY <1>1, ReportsJoined
<1> QED
  BY <1>1, <1>2, <1>3, <1>4

\* To write nothing is to put nothing behind the output.
LEMMA NothingPut ==
  ASSUME NEW w \in SocketType, NEW v, v.output = w.output, v.written = w.written, v.late = w.late,
         w.sent => v.sent, (v.tcp = "Unconnected") = (w.tcp = "Unconnected")
  PROVE  Puts(w, v)
<1>1. w.output \in Bytes /\ w.written \in Reports
  BY DEF SocketType
<1>2. w.output \o <<>> = w.output
  BY <1>1, NoneJoined
<1>3. Only(w.written, Fitting) \o <<>> = Only(w.written, Fitting)
  BY <1>1, OnlyType, ReportsJoined
<1>4. /\ Nothing.bytes = <<>> /\ Nothing.messages = <<>> /\ Nothing.open = FALSE /\ Nothing.closes = FALSE
      /\ Nothing \in Stream /\ Flows(TRUE, Nothing)
  BY NothingFlows DEF Nothing
<1> QED
  BY <1>2, <1>3, <1>4 DEF Puts

\* tcpSocket->write().
LEMMA SendSays ==
  ASSUME NEW w \in SocketType, NEW bytes \in Bytes
  PROVE  LET v == Send(w, bytes)
         IN  /\ SameReader(w, v) /\ v.written = w.written
             /\ w.tcp = "Unconnected" => v = w
             /\ w.tcp # "Unconnected" => v.output = w.output \o bytes /\ v.late = (w.late \/ w.sent)
<1> DEFINE output == w.output \o bytes
           late   == w.late \/ w.sent
           t      == [w EXCEPT !.output = output, !.late = late]
<1>1. Send(w, bytes) = IF w.tcp = "Unconnected" THEN w ELSE t
  BY DEF Send
<1>2. SameReader(w, w)
  BY DEF SameReader
<1> HIDE DEF output, late
<1>3. SameReader(w, t) /\ t.written = w.written /\ t.output = output /\ t.late = late
  BY DEF SocketType, SameReader
<1> HIDE DEF t
<1> QED
  BY <1>1, <1>2, <1>3 DEF output, late

\* write(), on a socket of version 4 or later.
LEMMA WritePuts ==
  ASSUME NEW w \in SocketType, w.version # 0, NEW message \in Bytes, NEW asBinary \in BOOLEAN
  PROVE  LET v == Write(w, message, asBinary)
         IN  Puts(w, v) /\ SameReader(w, v)
<1> DEFINE bytes == FlattenSeq(ComposeFrames(message, asBinary))
           letter == Letter(message, asBinary)
           u == Send(w, bytes)
           written == Append(u.written, letter)
           v == [u EXCEPT !.written = written]
<1>1. bytes \in Bytes
  BY FramesType
<1>2. CASE w.tcp = "Unconnected"
  <2>1. Write(w, message, asBinary) = w
    BY <1>2 DEF Write
  <2>2. Puts(w, w)
    BY NothingPut
  <2>3. SameReader(w, w)
    BY DEF SameReader
  <2> QED BY <2>1, <2>2, <2>3
<1>3. CASE w.tcp # "Unconnected"
  <2>1. Write(w, message, asBinary) = v
    BY <1>3 DEF Write, Letter
  <2>2. PICK x \in Stream :
           /\ Flows(TRUE, x) /\ x.bytes = bytes /\ ~x.open /\ ~x.closes
           /\ x.messages = IF letter \in Fitting THEN <<letter>> ELSE <<>>
    BY FramesFlow
  <2>3. letter \in Report /\ w.written \in Reports
    BY DEF Letter, Report, SocketType
  <2> HIDE DEF bytes, letter
  <2>4. /\ u \in SocketType /\ SameLife(w, u) /\ SameReader(w, u) /\ u.written = w.written
        /\ u.output = w.output \o bytes /\ u.late = (w.late \/ w.sent)
    BY <1>1, <1>3, SendStep, SendSays
  <2> HIDE DEF u
  <2>5. Only(written, Fitting) = Only(w.written, Fitting) \o x.messages
    <3>1. Only(Append(w.written, letter), Fitting) =
            Only(w.written, Fitting) \o (IF letter \in Fitting THEN <<letter>> ELSE <<>>)
      BY <2>3, OnlyMore
    <3> QED BY <2>2, <2>4, <3>1
  <2> HIDE DEF written
  <2>6. /\ v.output = u.output /\ v.late = u.late /\ v.written = written /\ v.sent = u.sent /\ v.tcp = u.tcp
        /\ SameReader(u, v)
    BY <2>4 DEF SocketType, SameReader
  <2> HIDE DEF v
  <2>7. SameReader(w, v)
    BY <2>4, <2>6 DEF SameReader
  <2>8. v.sent = w.sent /\ v.tcp = w.tcp
    BY <2>4, <2>6 DEF SameLife
  <2>9. x.messages = <<>> \/ \E m \in Report : x.messages = <<m>>
    BY <2>2, <2>3
  <2>10. w.late \in BOOLEAN /\ w.sent \in BOOLEAN /\ x.open \in BOOLEAN
    BY StreamParts DEF SocketType
  <2>11. Puts(w, v)
    BY <1>3, <2>2, <2>4, <2>5, <2>6, <2>8, <2>9, <2>10 DEF Puts
  <2> QED BY <2>1, <2>7, <2>11
<1> QED
  BY <1>2, <1>3

\* A frame that is no message, put behind the output.
LEMMA FramePut ==
  ASSUME NEW w \in SocketType, w.tcp # "Unconnected", NEW opcode \in {OpPing, OpClose}, NEW v,
         v.output = w.output \o ComposeHeader(TRUE, opcode, 0, <<>>),
         v.written = w.written, v.late = (w.late \/ w.sent), v.tcp # "Unconnected",
         w.sent => v.sent, opcode = OpClose => v.sent
  PROVE  Puts(w, v)
<1> DEFINE f == [final |-> TRUE, opcode |-> opcode, body |-> <<>>]
           none == <<>>
           r == [bytes |-> Encode(f), messages |-> Due(f), open |-> FALSE, closes |-> f.opcode = OpClose]
<1>1. f \in Frames
  <2>1. none \in Bytes /\ Len(none) = 0
    BY NoByte
  <2>2. 0 <= MaxInt
    BY SMT DEF MaxInt
  <2> HIDE DEF none
  <2>3. [final |-> TRUE, opcode |-> opcode, body |-> none] \in Frames
    <3>1. opcode \in {OpContinue, OpText, OpBinary, OpClose, OpPing}
      OBVIOUS
    <3>2. none = <<>>
      BY DEF none
    <3> QED BY <2>1, <2>2, <3>1, <3>2 DEF Frames
  <2> QED BY <2>3 DEF none
<1>2. f.opcode = opcode /\ f.final = TRUE /\ f.body = <<>>
  OBVIOUS
<1> HIDE DEF f
<1>3. opcode # OpContinue /\ Due(f) = <<>>
  BY <1>2 DEF Due, OpPing, OpClose, OpContinue, OpText, OpBinary
<1>4. r \in Stream /\ Flows(TRUE, r)
  BY <1>1, <1>2, <1>3, OneFrame
<1>5. ComposeHeader(TRUE, opcode, 0, <<>>) \in Bytes
  <2>1. TRUE \in BOOLEAN /\ opcode \in 0 .. 15 /\ 0 \in Nat /\ <<>> \in Bytes
    BY NoByte DEF OpPing, OpClose
  <2> QED BY <2>1, HeaderType
<1>6. Encode(f) = ComposeHeader(TRUE, opcode, 0, <<>>)
  <2>1. Len(<<>>) = 0
    OBVIOUS
  <2>2. Encode(f) = ComposeHeader(TRUE, opcode, 0, <<>>) \o <<>>
    BY <1>2, <2>1 DEF Encode
  <2> QED BY <1>5, <2>2, NoneJoined
<1>7. Only(w.written, Fitting) \o <<>> = Only(w.written, Fitting)
  <2>1. Only(w.written, Fitting) \in Reports
    BY OnlyType DEF SocketType
  <2> QED BY <2>1, ReportsJoined
<1>8. r.bytes = Encode(f) /\ r.messages = <<>> /\ r.open = FALSE /\ (r.closes = (opcode = OpClose))
  BY <1>2, <1>3
<1> HIDE DEF r
<1> QED
  BY <1>4, <1>6, <1>7, <1>8 DEF Puts

\* ping().
LEMMA PingPuts ==
  ASSUME NEW w \in SocketType
  PROVE  LET v == Ping(w)
         IN  Puts(w, v) /\ SameReader(w, v)
<1> DEFINE bytes == ComposeHeader(TRUE, OpPing, 0, <<>>)
           v == Send(w, bytes)
<1>1. bytes \in Bytes
  <2>1. TRUE \in BOOLEAN /\ OpPing \in 0 .. 15 /\ 0 \in Nat /\ <<>> \in Bytes
    BY NoByte DEF OpPing
  <2> QED BY <2>1, HeaderType
<1>2. Ping(w) = v
  BY DEF Ping
<1>3. bytes = ComposeHeader(TRUE, OpPing, 0, <<>>)
  OBVIOUS
<1> HIDE DEF bytes
<1>4. /\ SameReader(w, v) /\ v.written = w.written /\ SameLife(w, v)
      /\ w.tcp = "Unconnected" => v = w
      /\ w.tcp # "Unconnected" => v.output = w.output \o bytes /\ v.late = (w.late \/ w.sent)
  BY <1>1, SendStep, SendSays
<1> HIDE DEF v
<1>5. CASE w.tcp = "Unconnected"
  <2>1. Puts(w, w)
    BY NothingPut
  <2> QED BY <1>2, <1>4, <1>5, <2>1
<1>6. CASE w.tcp # "Unconnected"
  <2>1. v.sent = w.sent /\ v.tcp = w.tcp /\ OpPing # OpClose
    BY <1>4 DEF SameLife, OpPing, OpClose
  <2>2. Puts(w, v)
    BY <1>3, <1>4, <1>6, <2>1, FramePut
  <2> QED BY <1>2, <1>4, <2>2
<1> QED
  BY <1>5, <1>6

\* The Close frame of close(): nothing is late for it.
LEMMA SendCloseSays ==
  ASSUME NEW w \in SocketType, NEW code \in Nat
  PROVE  LET v == SendClose(w, code)
         IN  /\ SameReader(w, v) /\ v.written = w.written /\ v.late = w.late
             /\ (w.sent \/ w.tcp = "Unconnected") => v.output = w.output
             /\ (~w.sent /\ w.tcp # "Unconnected") => v.output = w.output \o CloseFrame(w.version, code)
<1> DEFINE frame == CloseFrame(w.version, code)
           u == Send(w, frame)
           n == u.closeFrames + 1
           v == [u EXCEPT !.sent = TRUE, !.closeFrames = n]
<1>1. CASE w.sent
  <2>1. SendClose(w, code) = w
    BY <1>1 DEF SendClose
  <2> QED BY <1>1, <2>1 DEF SameReader
<1>2. CASE ~w.sent
  <2>1. frame \in Bytes
    BY CloseFrameType DEF SocketType
  <2>2. SendClose(w, code) = v
    BY <1>2 DEF SendClose
  <2>3. frame = CloseFrame(w.version, code)
    OBVIOUS
  <2> HIDE DEF frame
  <2>4. /\ SameReader(w, u) /\ u.written = w.written /\ u \in SocketType
        /\ w.tcp = "Unconnected" => u = w
        /\ w.tcp # "Unconnected" => u.output = w.output \o frame /\ u.late = (w.late \/ w.sent)
    BY <2>1, SendStep, SendSays
  <2>5. u.late = w.late
    BY <1>2, <2>4 DEF SocketType
  <2> HIDE DEF u, n
  <2>6. SameReader(u, v) /\ v.written = u.written /\ v.late = u.late /\ v.output = u.output
    BY <2>4 DEF SocketType, SameReader
  <2> HIDE DEF v
  <2>7. SameReader(w, v)
    BY <2>4, <2>6 DEF SameReader
  <2> QED BY <1>2, <2>2, <2>3, <2>4, <2>5, <2>6, <2>7
<1> QED
  BY <1>1, <1>2

\* close().
LEMMA CloseSays ==
  ASSUME NEW w \in SocketType, NEW code \in Nat, w.ws # "Unconnected"
  PROVE  LET v == Close(w, code)
         IN  /\ SameReader(w, v) /\ v.written = w.written /\ v.late = w.late
             /\ (w.sent \/ w.tcp = "Unconnected") => v.output = w.output
             /\ (~w.sent /\ w.tcp # "Unconnected") => v.output = w.output \o CloseFrame(w.version, code)
<1> DEFINE b == SendClose(w, code)
           c == [b EXCEPT !.ws = "Closing"]
           n == c.disconnects + 1
           d == [c EXCEPT !.ws = "Unconnected", !.disconnects = n, !.slot = TRUE]
           tcp == IF d.tcp = "Connected" THEN "Closing" ELSE d.tcp
           e == [d EXCEPT !.tcp = tcp]
<1>1. Close(w, code) = IF c.received THEN e ELSE c
  BY DEF Close, Disconnect
<1>2. /\ SameReader(w, b) /\ b.written = w.written /\ b.late = w.late /\ b \in SocketType
      /\ (w.sent \/ w.tcp = "Unconnected") => b.output = w.output
      /\ (~w.sent /\ w.tcp # "Unconnected") => b.output = w.output \o CloseFrame(w.version, code)
  <2>1. /\ SameReader(w, b) /\ b.written = w.written /\ b.late = w.late
        /\ (w.sent \/ w.tcp = "Unconnected") => b.output = w.output
        /\ (~w.sent /\ w.tcp # "Unconnected") => b.output = w.output \o CloseFrame(w.version, code)
    BY SendCloseSays
  <2>2. b \in SocketType
    BY SendCloseStep
  <2> QED BY <2>1, <2>2
<1> HIDE DEF b
<1>3. c \in SocketType /\ SameReader(b, c) /\ c.written = b.written /\ c.late = b.late /\ c.output = b.output
  BY <1>2 DEF SocketType, SameReader, States
<1> HIDE DEF c
<1>4. n \in Nat
  BY <1>3 DEF SocketType
<1> HIDE DEF n
<1>5. d \in SocketType /\ SameReader(c, d) /\ d.written = c.written /\ d.late = c.late /\ d.output = c.output
  BY <1>3, <1>4 DEF SocketType, SameReader, States
<1> HIDE DEF d
<1>6. d.tcp = "Unconnected" => tcp = "Unconnected"
  OBVIOUS
<1> HIDE DEF tcp
<1>7. SameReader(d, e) /\ e.written = d.written /\ e.late = d.late /\ e.output = d.output
  BY <1>5, <1>6 DEF SocketType, SameReader
<1> HIDE DEF e
<1>8. SameReader(w, e) /\ SameReader(w, c)
  BY <1>2, <1>3, <1>5, <1>7 DEF SameReader
<1> QED
  BY <1>1, <1>2, <1>3, <1>5, <1>7, <1>8

\* The Close frame of disconnectFromHost() is in the stream.
LEMMA ClosePuts ==
  ASSUME NEW w \in SocketType, w.version # 0
  PROVE  LET v == Close(w, NoCloseStatusCode)
         IN  Puts(w, v) /\ SameReader(w, v)
<1> DEFINE code == NoCloseStatusCode
           v == Close(w, code)
<1>1. code \in Nat
  BY DEF NoCloseStatusCode
<1>2. CloseFrame(w.version, code) = ComposeHeader(TRUE, OpClose, 0, <<>>)
  BY DEF CloseFrame
<1> HIDE DEF code
<1>3. ClosedLife(w, v) /\ (w.ws = "Unconnected" => v = w)
  BY <1>1, CloseStep
<1>4. CASE w.ws = "Unconnected"
  <2>1. Puts(w, w)
    BY NothingPut
  <2>2. SameReader(w, w)
    BY DEF SameReader
  <2> QED BY <1>3, <1>4, <2>1, <2>2 DEF code
<1>5. CASE w.ws # "Unconnected"
  <2>1. /\ SameReader(w, v) /\ v.written = w.written /\ v.late = w.late
        /\ (w.sent \/ w.tcp = "Unconnected") => v.output = w.output
        /\ (~w.sent /\ w.tcp # "Unconnected") => v.output = w.output \o CloseFrame(w.version, code)
    BY <1>1, <1>5, CloseSays
  <2>2. v.sent = TRUE /\ v.tcp = IF w.received /\ w.tcp = "Connected" THEN "Closing" ELSE w.tcp
    BY <1>3, <1>5 DEF ClosedLife
  <2> HIDE DEF v
  <2>3. (v.tcp = "Unconnected") = (w.tcp = "Unconnected")
    BY <2>2
  <2>4. CASE w.sent \/ w.tcp = "Unconnected"
    <3>1. Puts(w, v)
      BY <2>1, <2>2, <2>3, <2>4, NothingPut
    <3> QED BY <2>1, <3>1 DEF v, code
  <2>5. CASE ~w.sent /\ w.tcp # "Unconnected"
    <3>1. OpClose \in {OpPing, OpClose}
      OBVIOUS
    <3>2. v.late = (w.late \/ w.sent)
      BY <2>1, <2>5 DEF SocketType
    <3>3. v.output = w.output \o ComposeHeader(TRUE, OpClose, 0, <<>>)
      BY <1>2, <2>1, <2>5
    <3>4. Puts(w, v)
      BY <2>1, <2>2, <2>3, <2>5, <3>1, <3>2, <3>3, FramePut
    <3> QED BY <2>1, <3>4 DEF v, code
  <2> QED BY <2>4, <2>5
<1> QED
  BY <1>4, <1>5

\* processTcpStateChanged(UnconnectedState): what has not been sent is gone.
LEMMA UnconnectedDrops ==
  ASSUME NEW w \in SocketType
  PROVE  LET v == TcpUnconnected(w)
         IN  Drops(w, v) /\ v.emitted = w.emitted
<1> DEFINE none == <<>>
           n == IF w.ws # "Unconnected" THEN w.disconnects + 1 ELSE w.disconnects
           v == [w EXCEPT !.tcp = "Unconnected", !.ws = "Unconnected",
                          !.sent = FALSE, !.received = FALSE, !.output = none, !.disconnects = n]
<1>1. TcpUnconnected(w) = v
  BY DEF TcpUnconnected, SocketType
<1>2. none \in Bytes /\ w.output \in Bytes /\ none \o w.output = w.output
  <2>1. none \in Bytes /\ w.output \in Bytes
    BY NoByte DEF SocketType
  <2> QED BY <2>1, NoneJoined
<1> HIDE DEF none, n
<1>3. /\ v.tcp = "Unconnected" /\ v.written = w.written /\ v.late = w.late /\ v.output = none
      /\ v.emitted = w.emitted
  BY DEF SocketType
<1> HIDE DEF v
<1>4. w.output = v.output \o w.output
  BY <1>2, <1>3
<1> QED
  BY <1>1, <1>2, <1>3, <1>4 DEF Drops

\* abort().
LEMMA AbortDrops ==
  ASSUME NEW w \in SocketType, w.tcp # "Unconnected"
  PROVE  LET v == Abort(w)
         IN  Drops(w, v) /\ v.emitted = w.emitted
<1> DEFINE code == CloseAbnormalDisconnection
           c == Close(w, code)
           u == TcpUnconnected(c)
           none == <<>>
           v == [u EXCEPT !.buffer = none]
           same == <<>>
<1>1. code \in Nat
  BY DEF CloseAbnormalDisconnection
<1>2. Abort(w) = v
  BY DEF Abort
<1> HIDE DEF code
<1>3. c \in SocketType /\ c.written = w.written /\ c.late = w.late /\ c.emitted = w.emitted
  <2>1. c \in SocketType /\ (w.ws = "Unconnected" => c = w)
    BY <1>1, CloseStep
  <2>2. CASE w.ws # "Unconnected"
    BY <1>1, <2>1, <2>2, CloseSays DEF SameReader
  <2> QED BY <2>1, <2>2
<1> HIDE DEF c
<1>4. u \in SocketType /\ Drops(c, u) /\ u.emitted = c.emitted
  BY <1>3, TcpUnconnectedStep, UnconnectedDrops
<1>5. u.output = none
  BY <1>3 DEF TcpUnconnected, SocketType
<1> HIDE DEF u
<1>6. /\ v.tcp = u.tcp /\ v.written = u.written /\ v.late = u.late /\ v.output = u.output
      /\ v.emitted = u.emitted
  BY <1>4 DEF SocketType
<1> HIDE DEF v
<1>7. w.output \in Bytes /\ none \in Bytes /\ w.output = none \o w.output
  <2>1. none \in Bytes /\ w.output \in Bytes
    BY NoByte DEF SocketType
  <2> QED BY <2>1, NoneJoined
<1> QED
  BY <1>2, <1>3, <1>4, <1>5, <1>6, <1>7 DEF Drops

----------------------------------------------------------------------------
(* From one socket to the other.                                           *)

\* The reader s stands somewhere in the stream e: what it has got and what comes
\* after that is e, or the rest of its first frame and what is behind.
Pending(strict, s, after, e) ==
  /\ e.open \/ s.frame = <<>>
  /\ \/ s.readingState = "HeaderPending" /\ Flows(strict, e) /\ s.buffer \o after = e.bytes
     \/ \E f \in Frames, t \in Stream :
          /\ Midway(s, f) /\ Flows(strict, t) /\ Leads(strict, e, f, t)
          /\ s.buffer \o after = Left(s.readingState, f) \o t.bytes

\* What is under way from w to s is a stream, that has lost its end if w is gone.
\* Of the messages that have been written, those that fit into a frame have been
\* reported, or are in the stream.  As long as nothing is late, nothing is under
\* way behind a Close frame.
Way(s, w, e, lost) ==
  /\ Only(w.written, Fitting) = Only(s.emitted, Reported) \o e.messages
  /\ s.tcp # "Unconnected" =>
       /\ Pending(~w.late, s, w.output \o lost, e)
       /\ w.tcp # "Unconnected" => lost = <<>>
       /\ w.late \/ ~s.received \/ (s.readingState = "HeaderPending" /\ e = Nothing)
       /\ w.late \/ w.tcp = "Unconnected" \/ w.sent \/ (~s.received /\ ~e.closes)

\* What is under way from w to s, whatever it is.
InFlight(s, w) == \E e \in Stream, lost \in Bytes : Way(s, w, e, lost)

\* A stream that is put behind is behind what is pending.
LEMMA PendingOn ==
  ASSUME NEW strict, NEW s \in SocketType, NEW after \in Bytes, NEW e \in Stream, Pending(strict, s, after, e),
         NEW x \in Stream, Flows(strict, x), x.open = FALSE, strict => ~e.closes
  PROVE  Pending(strict, s, after \o x.bytes, Joined(e, x))
<1> DEFINE j == Joined(e, x)
           all == after \o x.bytes
<1>1. /\ j.bytes = e.bytes \o x.bytes /\ j.open = e.open /\ s.buffer \in Bytes /\ x.bytes \in Bytes
  BY JoinedParts, StreamParts DEF SocketType
<1>2. s.buffer \o all = (s.buffer \o after) \o x.bytes
  BY <1>1, JoinedAgain
<1> HIDE DEF j, all
<1>3. CASE s.readingState = "HeaderPending" /\ Flows(strict, e) /\ s.buffer \o after = e.bytes
  <2>1. Flows(strict, j)
    BY <1>3, FlowOn DEF j
  <2>2. s.buffer \o all = j.bytes
    BY <1>1, <1>2, <1>3
  <2> QED BY <1>1, <1>3, <2>1, <2>2 DEF Pending, j, all
<1>4. CASE \E f \in Frames, t \in Stream :
             /\ Midway(s, f) /\ Flows(strict, t) /\ Leads(strict, e, f, t)
             /\ s.buffer \o after = Left(s.readingState, f) \o t.bytes
  <2>1. PICK f \in Frames, t \in Stream :
             /\ Midway(s, f) /\ Flows(strict, t) /\ Leads(strict, e, f, t)
             /\ s.buffer \o after = Left(s.readingState, f) \o t.bytes
    BY <1>4
  <2> DEFINE u == Joined(t, x)
             left == Left(s.readingState, f)
  <2>2. Leads(strict, j, f, u) /\ (strict => ~t.closes)
    BY <2>1, LeadsOn DEF j
  <2>3. Flows(strict, u)
    BY <2>1, <2>2, FlowOn
  <2>4. u \in Stream /\ u.bytes = t.bytes \o x.bytes /\ t.bytes \in Bytes
    BY JoinedParts, StreamParts
  <2>5. left \in Bytes
    <3>1. s.readingState \in ReadingStates
      BY DEF SocketType
    <3>2. \A st \in ReadingStates : Left(st, f) \in Bytes
      BY LeftType
    <3> QED BY <3>1, <3>2
  <2> HIDE DEF u, left
  <2>6. s.buffer \o all = left \o u.bytes
    <3>1. s.buffer \o after = left \o t.bytes
      BY <2>1 DEF left
    <3>2. (left \o t.bytes) \o x.bytes = left \o (t.bytes \o x.bytes)
      BY <1>1, <2>4, <2>5, JoinedAgain
    <3> QED BY <1>2, <2>4, <3>1, <3>2
  <2> QED BY <1>1, <2>1, <2>2, <2>3, <2>4, <2>6 DEF Pending, j, all, left
<1> QED
  BY <1>3, <1>4 DEF Pending

\* What is pending is pending less strictly as well.
LEMMA PendingLessStrict ==
  ASSUME NEW strict, NEW s, NEW after, NEW e, Pending(TRUE, s, after, e)
  PROVE  Pending(strict, s, after, e)
<1>1. \A f, t : Leads(TRUE, e, f, t) => Leads(strict, e, f, t)
  BY DEF Leads
<1>2. \A t : Flows(TRUE, t) => Flows(strict, t)
  BY LessStrict
<1> QED
  BY <1>1, <1>2 DEF Pending

\* Writing.
LEMMA PutsInFlight ==
  ASSUME NEW s \in SocketType, NEW w \in SocketType, NEW v \in SocketType, InFlight(s, w), Puts(w, v)
  PROVE  InFlight(s, v)
<1>1. PICK e \in Stream, lost \in Bytes : Way(s, w, e, lost)
  BY DEF InFlight
<1>2. PICK x \in Stream :
    /\ Flows(TRUE, x) /\ x.open = FALSE
    /\ v.output = w.output \o x.bytes
    /\ Only(v.written, Fitting) = Only(w.written, Fitting) \o x.messages
    /\ w.late => v.late
    /\ w.sent => v.sent /\ (x = Nothing \/ v.late)
    /\ x.closes => v.sent
    /\ (v.tcp = "Unconnected") = (w.tcp = "Unconnected")
    /\ w.tcp = "Unconnected" => x = Nothing
  BY DEF Puts
<1>3. Only(v.written, Fitting) = Only(s.emitted, Reported) \o (e.messages \o x.messages)
  <2>1. Only(s.emitted, Reported) \in Reports
    BY OnlyType DEF SocketType
  <2>2. e.messages \in Reports /\ x.messages \in Reports
    BY StreamParts
  <2> DEFINE a == Only(s.emitted, Reported)
             b == e.messages
             c == x.messages
  <2>3. a \in Reports /\ b \in Reports /\ c \in Reports
    BY <2>1, <2>2
  <2>4. Only(w.written, Fitting) = a \o b /\ Only(v.written, Fitting) = Only(w.written, Fitting) \o c
    BY <1>1, <1>2 DEF Way
  <2> HIDE DEF a, b, c
  <2>5. (a \o b) \o c = a \o (b \o c)
    BY <2>3, ReportsJoined
  <2>6. Only(v.written, Fitting) = a \o (b \o c)
    BY <2>4, <2>5
  <2> QED BY <2>6 DEF a, b, c
<1>4. CASE s.tcp = "Unconnected"
  <2>1. Joined(e, x) \in Stream /\ Joined(e, x).messages = e.messages \o x.messages
    BY JoinedParts
  <2>2. Way(s, v, Joined(e, x), lost)
    BY <1>3, <1>4, <2>1 DEF Way
  <2> QED BY <2>1, <2>2 DEF InFlight
<1>5. CASE s.tcp # "Unconnected"
  <2>0. w.late \in BOOLEAN /\ v.late \in BOOLEAN
    BY DEF SocketType
  <2>1. Pending(~v.late, s, w.output \o lost, e)
    <3>1. Pending(~w.late, s, w.output \o lost, e)
      BY <1>1, <1>5 DEF Way
    <3>2. CASE w.late
      BY <1>2, <2>0, <3>1, <3>2
    <3>3. CASE ~w.late
      <4>1. Pending(TRUE, s, w.output \o lost, e)
        BY <3>1, <3>3
      <4> QED BY <4>1, PendingLessStrict
    <3> QED BY <3>2, <3>3
  <2>2. CASE x = Nothing
    <3>1. v.output = w.output /\ Only(v.written, Fitting) = Only(s.emitted, Reported) \o e.messages
      <4>1. x.bytes = <<>> /\ x.messages = <<>>
        BY <2>2 DEF Nothing
      <4>2. w.output \o <<>> = w.output
        BY NoneJoined DEF SocketType
      <4>3. e.messages \o <<>> = e.messages
        BY StreamParts, ReportsJoined
      <4> QED BY <1>2, <1>3, <4>1, <4>2, <4>3
    <3>2. Way(s, v, e, lost)
      BY <1>1, <1>2, <1>5, <2>1, <3>1 DEF Way
    <3> QED BY <3>2 DEF InFlight
  <2>3. CASE x # Nothing
    <3> DEFINE j == Joined(e, x)
    <3>1. lost = <<>> /\ w.tcp # "Unconnected" /\ v.tcp # "Unconnected" /\ (w.sent => v.late)
      BY <1>1, <1>2, <1>5, <2>3 DEF Way
    <3>2. v.late \/ (~s.received /\ ~e.closes)
      BY <1>1, <1>2, <1>5, <3>1 DEF Way
    <3>3. w.output \in Bytes /\ w.output \o lost = w.output /\ v.output \o lost = v.output
      <4>1. w.output \in Bytes /\ v.output \in Bytes
        BY DEF SocketType
      <4> QED BY <3>1, <4>1, NoneJoined
    <3>4. Flows(~v.late, x)
      BY <1>2, LessStrict
    <3>5. Pending(~v.late, s, w.output \o x.bytes, j)
      <4> DEFINE strict == ~v.late
                 after == w.output
      <4>1. Pending(strict, s, after, e) /\ Flows(strict, x) /\ (strict => ~e.closes)
        BY <2>1, <3>2, <3>3, <3>4
      <4>2. after \in Bytes /\ x.open = FALSE
        BY <1>2, <3>3
      <4> HIDE DEF strict, after
      <4>3. Pending(strict, s, after \o x.bytes, j)
        BY <4>1, <4>2, PendingOn
      <4> QED BY <4>3 DEF strict, after
    <3>6. j \in Stream /\ j.messages = e.messages \o x.messages /\ j.closes = (e.closes \/ x.closes)
      BY JoinedParts
    <3> HIDE DEF j
    <3>7. v.late \/ v.sent \/ (~s.received /\ ~j.closes)
      BY <1>2, <3>2, <3>6
    <3>8. Way(s, v, j, lost)
      BY <1>2, <1>3, <1>5, <3>1, <3>2, <3>3, <3>5, <3>6, <3>7 DEF Way
    <3> QED BY <3>6, <3>8 DEF InFlight
  <2> QED BY <2>2, <2>3
<1> QED
  BY <1>4, <1>5

\* The end of the writer.
LEMMA DropsInFlight ==
  ASSUME NEW s \in SocketType, NEW w \in SocketType, NEW v, InFlight(s, w), Drops(w, v)
  PROVE  InFlight(s, v)
<1>1. PICK e \in Stream, lost \in Bytes : Way(s, w, e, lost)
  BY DEF InFlight
<1>2. PICK gone \in Bytes : w.output = v.output \o gone
  BY DEF Drops
<1> DEFINE all == gone \o lost
<1>3. v.tcp = "Unconnected" /\ v.written = w.written /\ v.late = w.late /\ v.output \in Bytes
  BY DEF Drops
<1>4. all \in Bytes /\ w.output \o lost = v.output \o all
  <2> DEFINE o == v.output
  <2>1. o \in Bytes /\ w.output = o \o gone
    BY <1>2, <1>3
  <2> HIDE DEF o
  <2>2. all \in Bytes
    BY BytesJoined
  <2>3. (o \o gone) \o lost = o \o all
    BY <2>1, JoinedAgain
  <2> QED BY <2>1, <2>2, <2>3 DEF o
<1> HIDE DEF all
<1>5. Way(s, v, e, all)
  BY <1>1, <1>3, <1>4 DEF Way
<1> QED
  BY <1>4, <1>5 DEF InFlight

\* What the writer does when the reader is gone.
LEMMA GoneInFlight ==
  ASSUME NEW s, NEW w, NEW v, InFlight(s, w), s.tcp = "Unconnected", v.written = w.written
  PROVE  InFlight(s, v)
BY DEF InFlight, Way

\* What the reader does when it does not read.
LEMMA SameInFlight ==
  ASSUME NEW s, NEW w, NEW t, InFlight(s, w), SameReader(s, t)
  PROVE  InFlight(t, w)
<1>1. PICK e \in Stream, lost \in Bytes : Way(s, w, e, lost)
  BY DEF InFlight
<1>2. ASSUME NEW strict, NEW after, Pending(strict, s, after, e)
      PROVE  Pending(strict, t, after, e)
  <2>1. \A f : Midway(s, f) => Midway(t, f)
    BY DEF Midway, SameReader
  <2> QED BY <1>2, <2>1 DEF Pending, SameReader
<1>3. Way(t, w, e, lost)
  BY <1>1, <1>2 DEF Way, SameReader
<1> QED
  BY <1>3 DEF InFlight

\* The end of the reader.
LEMMA EndInFlight ==
  ASSUME NEW s, NEW w, NEW t, InFlight(s, w), t.tcp = "Unconnected", t.emitted = s.emitted
  PROVE  InFlight(t, w)
BY DEF InFlight, Way

\* A segment that arrives.
LEMMA ArriveInFlight ==
  ASSUME NEW s \in SocketType, NEW w \in SocketType, InFlight(s, w), s.tcp # "Unconnected",
         NEW n \in 1 .. Len(w.output)
  PROVE  InFlight(Receive(s, SubSeq(w.output, 1, n)), [w EXCEPT !.output = Behind(w.output, n)])
<1> DEFINE piece == SubSeq(w.output, 1, n)
           rest == Behind(w.output, n)
           buffer == s.buffer \o piece
           t == [s EXCEPT !.buffer = buffer, !.running = TRUE]
           v == [w EXCEPT !.output = rest]
<1>1. PICK e \in Stream, lost \in Bytes : Way(s, w, e, lost)
  BY DEF InFlight
<1>2. s.buffer \in Bytes /\ w.output \in Bytes /\ Len(w.output) \in Nat
  BY LengthIsNat DEF SocketType
<1>3. piece \in Bytes /\ rest \in Bytes /\ piece \o rest = w.output
  <2> DEFINE o == w.output
             k == Len(o)
  <2>1. o \in Seq(Byte) /\ k \in Nat /\ n \in 1 .. k
    BY <1>2 DEF Bytes
  <2>2. n \in Nat /\ 1 \in Nat \ {0} /\ n \in Int /\ n <= k
    BY <2>1
  <2>3. piece \in Bytes /\ rest \in Bytes
    BY <1>2, <2>2, BytesCut, BytesBehind
  <2> HIDE DEF o
  <2> DEFINE p == SubSeq(o, 1, n)
             r == SubSeq(o, n + 1, Len(o))
             b == p \o r
  <2>4. p \in Seq(Byte) /\ Len(p) = n /\ \A i \in 1 .. n : p[i] = o[i]
    BY <2>1
  <2>5. r \in Seq(Byte) /\ Len(r) = k - n /\ \A i \in 1 .. k - n : r[i] = o[n + i]
    BY <2>1
  <2> HIDE DEF p, r, k
  <2>6. b \in Seq(Byte) /\ Len(b) = Len(p) + Len(r)
        /\ \A i \in 1 .. Len(p) + Len(r) : b[i] = IF i <= Len(p) THEN p[i] ELSE r[i - Len(p)]
    BY <2>4, <2>5, ConcatProperties
  <2> HIDE DEF b
  <2>7. Len(b) = k
    BY <2>1, <2>4, <2>5, <2>6
  <2>8. ASSUME NEW i \in 1 .. k
        PROVE  b[i] = o[i]
    <3>1. CASE i <= n
      BY <2>1, <2>4, <2>5, <2>6, <3>1
    <3>2. CASE i > n
      <4> DEFINE j == i - n
      <4>1. j \in 1 .. k - n /\ n + j = i /\ ~(i <= n) /\ i \in 1 .. n + (k - n)
        BY <2>1, <3>2
      <4> HIDE DEF j
      <4>2. b[i] = r[i - n]
        BY <2>4, <2>5, <2>6, <4>1
      <4>3. r[j] = o[i]
        BY <2>5, <4>1
      <4> QED BY <4>2, <4>3 DEF j
    <3> QED BY <2>1, <3>1, <3>2
  <2>9. b = o
    BY <2>1, <2>6, <2>7, <2>8, SeqEqual DEF k
  <2> QED BY <2>3, <2>9 DEF b, o, p, r, Behind
<1> HIDE DEF piece, rest
<1>4. Receive(s, piece) = t
  BY DEF Receive
<1>5. buffer \o (rest \o lost) = s.buffer \o (w.output \o lost)
  <2> DEFINE b == s.buffer
             more == rest \o lost
  <2>1. b \in Bytes
    BY <1>2
  <2>2. more \in Bytes
    BY <1>3, BytesJoined
  <2>3. piece \o more = (piece \o rest) \o lost
    BY <1>3, JoinedAgain
  <2> HIDE DEF b, more
  <2>4. (b \o piece) \o more = b \o (piece \o more)
    BY <1>3, <2>1, <2>2, JoinedAgain
  <2> QED BY <1>3, <2>3, <2>4 DEF b, more
<1> HIDE DEF buffer
<1>6. /\ t.buffer = buffer /\ t.readingState = s.readingState /\ t.frame = s.frame
      /\ t.final = s.final /\ t.opcode = s.opcode /\ t.hasMask = s.hasMask /\ t.length = s.length
      /\ t.emitted = s.emitted /\ t.received = s.received /\ t.tcp = s.tcp
  BY DEF SocketType
<1>7. v.output = rest /\ v.written = w.written /\ v.late = w.late /\ v.tcp = w.tcp /\ v.sent = w.sent
  BY DEF SocketType
<1> HIDE DEF t, v
<1>8. Pending(~w.late, t, rest \o lost, e)
  <2>1. \A f : Midway(s, f) => Midway(t, f)
    BY <1>6 DEF Midway
  <2>2. Pending(~w.late, s, w.output \o lost, e)
    BY <1>1 DEF Way
  <2> DEFINE strict == ~w.late
  <2> HIDE DEF strict
  <2>3. Pending(strict, s, w.output \o lost, e) => Pending(strict, t, rest \o lost, e)
    BY <1>5, <1>6, <2>1 DEF Pending
  <2> QED BY <2>2, <2>3 DEF strict
<1>9. Way(t, v, e, lost)
  BY <1>1, <1>6, <1>7, <1>8 DEF Way
<1> QED
  BY <1>4, <1>9 DEF InFlight, piece, rest, v

----------------------------------------------------------------------------
(* One iteration of the reader.                                            *)

\* What an iteration takes from the stream e: nothing, or the messages of one
\* frame.  Strictly, only a Close frame makes the socket receive one, and nothing
\* is read behind it.
Took(strict, s, after, e, t) ==
  \E r \in Stream :
    /\ Pending(strict, t, after, r)
    /\ \/ r.messages = e.messages /\ t.emitted = s.emitted
       \/ \E m \in Report :
            /\ e.messages = <<m>> \o r.messages
            /\ Only(t.emitted, Reported) = Only(s.emitted, Reported) \o <<m>>
    /\ strict /\ ~e.closes => ~r.closes /\ t.received = s.received
    /\ strict /\ t.received => s.received \/ (t.readingState = "HeaderPending" /\ r = Nothing)
    /\ s.readingState = "HeaderPending" /\ e = Nothing =>
         t.readingState = "HeaderPending" /\ r = Nothing /\ t.emitted = s.emitted

\* What Puts says depends on these parts of a socket only.
SameWriter(w, v) ==
  /\ v.output = w.output /\ v.written = w.written /\ v.late = w.late
  /\ v.sent = w.sent /\ v.tcp = w.tcp

\* What one of them puts, the other does.
LEMMA PutsSame ==
  ASSUME NEW w, NEW p, NEW q, NEW v, SameWriter(w, p), Puts(p, q), SameWriter(q, v)
  PROVE  Puts(w, v)
BY DEF SameWriter, Puts

\* A socket on which the reader stands where it stood.
LEMMA PendingSame ==
  ASSUME NEW s, NEW t, t.buffer = s.buffer, t.readingState = s.readingState, t.frame = s.frame,
         t.final = s.final, t.opcode = s.opcode, t.hasMask = s.hasMask, t.length = s.length,
         NEW strict, NEW after, NEW e, Pending(strict, s, after, e)
  PROVE  Pending(strict, t, after, e)
<1>1. \A f : Midway(s, f) => Midway(t, f)
  BY DEF Midway
<1> QED
  BY <1>1 DEF Pending

\* An iteration that reports nothing and takes no frame.
LEMMA StillPending ==
  ASSUME NEW s, NEW t, NEW strict, NEW after, NEW e \in Stream, Pending(strict, t, after, e),
         t.emitted = s.emitted, t.received = s.received,
         s.readingState = "HeaderPending" /\ e = Nothing => t.readingState = "HeaderPending"
  PROVE  Took(strict, s, after, e, t)
BY DEF Took

\* An iteration that finds too little returns.
LEMMA ReturnTook ==
  ASSUME NEW s \in SocketType, NEW strict, NEW after, NEW e \in Stream, Pending(strict, s, after, e)
  PROVE  LET t == Return(s)
         IN  Took(strict, s, after, e, t) /\ Puts(s, t)
<1> DEFINE t == Return(s)
<1>1. /\ SameReader(s, t) /\ t.output = s.output /\ t.written = s.written /\ t.late = s.late
      /\ t.sent = s.sent /\ t.tcp = s.tcp
  BY DEF Return, SameReader, SocketType
<1> HIDE DEF t
<1>2. Pending(strict, t, after, e)
  BY <1>1, PendingSame DEF SameReader
<1>3. Took(strict, s, after, e, t)
  BY <1>1, <1>2, StillPending DEF SameReader
<1>4. Puts(s, t)
  BY <1>1, NothingPut
<1> QED
  BY <1>3, <1>4 DEF t

\* The parts of the header.
LEMMA HeaderTook ==
  ASSUME NEW s \in SocketType, NEW t, NEW strict, NEW after \in Bytes, NEW e \in Stream,
         Pending(strict, s, after, e), s.readingState # "HeaderPending" \/ e # Nothing,
         NEW f \in Frames, NEW y \in Stream, Flows(strict, y), Leads(strict, e, f, y),
         Midway(t, f), t.buffer \o after = Left(t.readingState, f) \o y.bytes,
         SameMessages(s, t), ReadOn(s, t)
  PROVE  Took(strict, s, after, e, t) /\ Puts(s, t)
<1>1. /\ t.frame = s.frame /\ t.emitted = s.emitted /\ t.received = s.received
      /\ t.output = s.output /\ t.written = s.written /\ t.late = s.late
      /\ t.sent = s.sent /\ t.tcp = s.tcp
  BY DEF SameMessages, ReadOn, SameLife
<1>2. Pending(strict, t, after, e)
  BY <1>1 DEF Pending
<1>3. Took(strict, s, after, e, t)
  BY <1>1, <1>2, StillPending
<1>4. Puts(s, t)
  BY <1>1, NothingPut
<1> QED
  BY <1>3, <1>4

\* Its first two bytes.
LEMMA FirstTook ==
  ASSUME NEW s \in SocketType, NEW strict, NEW after \in Bytes, NEW e \in Stream,
         Pending(strict, s, after, e), s.readingState = "HeaderPending", Len(s.buffer) >= 2
  PROVE  LET t == ReadHeader(s)
         IN  Took(strict, s, after, e, t) /\ Puts(s, t)
<1> DEFINE t == ReadHeader(s)
<1>1. Flows(strict, e) /\ s.buffer \o after = e.bytes
  BY DEF Pending, Midway
<1>2. e # Nothing
  <2> DEFINE b == s.buffer
  <2>1. b \in Bytes /\ Len(b) >= 2
    BY DEF SocketType
  <2> HIDE DEF b
  <2>2. Len(b \o after) = Len(b) + Len(after) /\ Len(b) \in Nat /\ Len(after) \in Nat
    BY <2>1, BytesConcat, LengthIsNat
  <2>3. Len(<<>>) = 0
    OBVIOUS
  <2>4. b \o after # <<>>
    BY <2>1, <2>2, <2>3
  <2> QED BY <1>1, <2>4 DEF b, Nothing
<1>3. PICK f \in Frames, y \in Stream :
        Flows(strict, y) /\ e.bytes = Encode(f) \o y.bytes /\ Leads(strict, e, f, y)
  BY <1>1, <1>2, FirstFrame
<1>4. y.bytes \in Bytes
  BY StreamParts
<1>5. Midway(t, f) /\ t.buffer \o after = Left(t.readingState, f) \o y.bytes /\ SameMessages(s, t)
  <2> DEFINE z == y.bytes
  <2>1. z \in Bytes /\ s.buffer \o after = Encode(f) \o z
    BY <1>1, <1>3, <1>4
  <2> HIDE DEF z
  <2>2. Midway(t, f) /\ t.buffer \o after = Left(t.readingState, f) \o z /\ SameMessages(s, t)
    BY <2>1, HeaderRead
  <2> QED BY <2>2 DEF z
<1>6. ReadOn(s, t)
  BY ReadHeaderStep
<1> HIDE DEF t
<1>7. Took(strict, s, after, e, t) /\ Puts(s, t)
  BY <1>2, <1>3, <1>5, <1>6, HeaderTook
<1> QED
  BY <1>7 DEF t

\* A length of two bytes.
LEMMA LengthTook ==
  ASSUME NEW s \in SocketType, NEW strict, NEW after \in Bytes, NEW e \in Stream,
         Pending(strict, s, after, e), s.readingState = "PayloadLengthPending", Len(s.buffer) >= 2
  PROVE  LET t == ReadLength(s)
         IN  Took(strict, s, after, e, t) /\ Puts(s, t)
<1> DEFINE t == ReadLength(s)
<1>0. s.readingState # "HeaderPending"
  OBVIOUS
<1>z. PICK f \in Frames, y \in Stream :
           /\ Midway(s, f) /\ Flows(strict, y) /\ Leads(strict, e, f, y)
           /\ s.buffer \o after = Left(s.readingState, f) \o y.bytes
  BY <1>0 DEF Pending
<1> DEFINE z == y.bytes
<1>1. /\ Midway(s, f) /\ Flows(strict, y) /\ Leads(strict, e, f, y) /\ z = y.bytes
      /\ s.buffer \o after = Left(s.readingState, f) \o z /\ z \in Bytes
  BY <1>z, StreamParts
<1> HIDE DEF z
<1>2. Midway(t, f) /\ t.buffer \o after = Left(t.readingState, f) \o z /\ SameMessages(s, t)
  BY <1>1, LengthRead
<1>3. ReadOn(s, t)
  BY ReadLengthStep
<1> HIDE DEF t
<1>4. Took(strict, s, after, e, t) /\ Puts(s, t)
  BY <1>1, <1>2, <1>3, HeaderTook
<1> QED
  BY <1>4 DEF t

\* A length of eight bytes.
LEMMA BigLengthTook ==
  ASSUME NEW s \in SocketType, NEW strict, NEW after \in Bytes, NEW e \in Stream,
         Pending(strict, s, after, e), s.readingState = "BigPayloadLenghPending", Len(s.buffer) >= 8
  PROVE  LET t == ReadBigLength(s)
         IN  Took(strict, s, after, e, t) /\ Puts(s, t)
<1> DEFINE t == ReadBigLength(s)
<1>0. s.readingState # "HeaderPending"
  OBVIOUS
<1>z. PICK f \in Frames, y \in Stream :
           /\ Midway(s, f) /\ Flows(strict, y) /\ Leads(strict, e, f, y)
           /\ s.buffer \o after = Left(s.readingState, f) \o y.bytes
  BY <1>0 DEF Pending
<1> DEFINE z == y.bytes
<1>1. /\ Midway(s, f) /\ Flows(strict, y) /\ Leads(strict, e, f, y) /\ z = y.bytes
      /\ s.buffer \o after = Left(s.readingState, f) \o z /\ z \in Bytes
  BY <1>z, StreamParts
<1> HIDE DEF z
<1>2. Midway(t, f) /\ t.buffer \o after = Left(t.readingState, f) \o z /\ SameMessages(s, t)
  BY <1>1, BigLengthRead
<1>3. ReadOn(s, t)
  BY ReadBigLengthStep
<1> HIDE DEF t
<1>4. Took(strict, s, after, e, t) /\ Puts(s, t)
  BY <1>1, <1>2, <1>3, HeaderTook
<1> QED
  BY <1>4 DEF t

\* No frame of a socket has a mask.
LEMMA MaskTook ==
  ASSUME NEW s \in SocketType, NEW strict, NEW after \in Bytes, NEW e \in Stream,
         Pending(strict, s, after, e), s.readingState = "MaskPending"
  PROVE  LET t == [s EXCEPT !.readingState = "PayloadBodyPending"]
         IN  s.hasMask = FALSE /\ Took(strict, s, after, e, t) /\ Puts(s, t)
<1> DEFINE t == [s EXCEPT !.readingState = "PayloadBodyPending"]
<1>0. s.readingState # "HeaderPending"
  OBVIOUS
<1>z. PICK f \in Frames, y \in Stream :
           /\ Midway(s, f) /\ Flows(strict, y) /\ Leads(strict, e, f, y)
           /\ s.buffer \o after = Left(s.readingState, f) \o y.bytes
  BY <1>0 DEF Pending
<1> DEFINE z == y.bytes
<1>1. /\ Midway(s, f) /\ Flows(strict, y) /\ Leads(strict, e, f, y) /\ z = y.bytes
      /\ s.buffer \o after = Left(s.readingState, f) \o z /\ z \in Bytes
  BY <1>z, StreamParts
<1> HIDE DEF z
<1>2. t.readingState = "PayloadBodyPending" /\ t.buffer = s.buffer
  BY DEF SocketType
<1>3. /\ t.frame = s.frame /\ t.final = s.final /\ t.opcode = s.opcode
      /\ t.hasMask = s.hasMask /\ t.length = s.length
  BY DEF SocketType
<1>4. SameMessages(s, t)
  BY DEF SocketType, SameMessages
<1>5. ReadOn(s, t)
  <2>1. t \in SocketType
    BY DEF SocketType, ReadingStates
  <2>2. SameLife(s, t) /\ t.running = s.running /\ t.slot = s.slot
    BY DEF SocketType, SameLife
  <2> QED BY <2>1, <2>2 DEF ReadOn
<1> HIDE DEF t
<1>6. s.hasMask = FALSE /\ Midway(t, f)
  BY <1>1, <1>2, <1>3 DEF Midway
<1>7. t.buffer \o after = Left(t.readingState, f) \o y.bytes
  BY <1>1, <1>2 DEF Left
<1>8. Took(strict, s, after, e, t) /\ Puts(s, t)
  BY <1>1, <1>4, <1>5, <1>6, <1>7, HeaderTook
<1> QED
  BY <1>6, <1>8 DEF t

\* The message of a frame is reported when there is one.
Reporting(s, f, t) ==
  \/ Due(f) = <<>> /\ t.emitted = s.emitted
  \/ \E m \in Report : m \in Reported /\ Due(f) = <<m>> /\ t.emitted = Append(s.emitted, m)

\* A frame that has been read.
LEMMA FrameTook ==
  ASSUME NEW s \in SocketType, NEW t, NEW strict, NEW after, NEW e \in Stream,
         s.readingState # "HeaderPending",
         NEW f \in Frames, NEW y \in Stream, Flows(strict, y), Leads(strict, e, f, y),
         t.readingState = "HeaderPending", t.buffer \o after = y.bytes, y.open \/ t.frame = <<>>,
         Reporting(s, f, t), f.opcode # OpClose => t.received = s.received
  PROVE  Took(strict, s, after, e, t)
<1>1. Pending(strict, t, after, y)
  BY DEF Pending
<1>2. e.messages = Due(f) \o y.messages
  BY DEF Leads
<1>3. \/ y.messages = e.messages /\ t.emitted = s.emitted
      \/ \E m \in Report :
           /\ e.messages = <<m>> \o y.messages
           /\ Only(t.emitted, Reported) = Only(s.emitted, Reported) \o <<m>>
  <2>1. CASE Due(f) = <<>> /\ t.emitted = s.emitted
    <3> DEFINE z == y.messages
    <3>1. z \in Reports
      BY StreamParts
    <3> HIDE DEF z
    <3>2. <<>> \o z = z
      BY <3>1, ReportsJoined
    <3> QED BY <1>2, <2>1, <3>2 DEF z
  <2>2. CASE \E m \in Report : m \in Reported /\ Due(f) = <<m>> /\ t.emitted = Append(s.emitted, m)
    <3>1. PICK m \in Report : m \in Reported /\ Due(f) = <<m>> /\ t.emitted = Append(s.emitted, m)
      BY <2>2
    <3> DEFINE z == s.emitted
               wanted == Reported
    <3>2. z \in Reports
      BY DEF SocketType
    <3>3. m \in wanted
      BY <3>1
    <3> HIDE DEF z, wanted
    <3>4. Only(Append(z, m), wanted) = Only(z, wanted) \o <<m>>
      BY <3>2, <3>3, OnlyMore
    <3> QED BY <1>2, <3>1, <3>4 DEF z, wanted
  <2> QED BY <2>1, <2>2 DEF Reporting
<1>4. strict /\ ~e.closes => ~y.closes /\ t.received = s.received
  <2>1. strict => e.closes = (f.opcode = OpClose \/ y.closes)
    BY DEF Leads
  <2> QED BY <2>1
<1>5. strict /\ t.received => s.received \/ (t.readingState = "HeaderPending" /\ y = Nothing)
  <2>1. strict => (f.opcode = OpClose => y = Nothing)
    BY DEF Leads
  <2> QED BY <2>1
<1> QED
  BY <1>1, <1>3, <1>4, <1>5 DEF Took

\* What the body of a frame does.
LEMMA BodyTook ==
  ASSUME NEW s \in SocketType, s.version # 0, NEW strict, NEW after \in Bytes, NEW e \in Stream,
         Pending(strict, s, after, e), s.readingState = "PayloadBodyPending", Len(s.buffer) >= s.length.low
  PROVE  LET t == ReadBody(s)
         IN  Took(strict, s, after, e, t) /\ Puts(s, t)
<1> DEFINE t == ReadBody(s)
           p == Payload(ReadStatusCode(s))
           d == Dispatch(p)
<1>0. s.readingState # "HeaderPending"
  OBVIOUS
<1>1. PICK f \in Frames, y \in Stream :
           /\ Midway(s, f) /\ Flows(strict, y) /\ Leads(strict, e, f, y)
           /\ s.buffer \o after = Left(s.readingState, f) \o y.bytes
  BY <1>0 DEF Pending
<1>2. /\ f.final \in BOOLEAN /\ f.opcode \in {OpContinue, OpText, OpBinary, OpClose, OpPing}
      /\ f.opcode \in {OpClose, OpPing} => f.final
      /\ f.body \in Bytes
  BY FrameParts
<1>3. /\ p.final = f.final /\ p.opcode = f.opcode
      /\ p.frame = s.frame \o f.body /\ p.buffer \o after = y.bytes
      /\ f.opcode = OpClose => p.code = NoCloseStatusCode
      /\ p.emitted = s.emitted /\ p.written = s.written /\ p.output = s.output /\ p.late = s.late
  <2> DEFINE z == y.bytes
  <2>1. z \in Bytes /\ s.buffer \o after = f.body \o z
    BY <1>1, StreamParts DEF Left
  <2> HIDE DEF z
  <2>2. /\ p.final = f.final /\ p.opcode = f.opcode
        /\ p.frame = s.frame \o f.body /\ p.buffer \o after = z
        /\ f.opcode = OpClose => p.code = NoCloseStatusCode
        /\ p.emitted = s.emitted /\ p.written = s.written /\ p.output = s.output /\ p.late = s.late
    BY <1>1, <2>1, BodyRead
  <2> QED BY <2>2 DEF z
<1>4. p \in SocketType /\ SameLife(s, p) /\ p.readingState = "HeaderPending"
  <2>1. ReadOn(s, ReadStatusCode(s))
    BY ReadStatusCodeStep
  <2>2. ReadOn(ReadStatusCode(s), p) /\ p.readingState = "HeaderPending"
    BY <2>1, PayloadStep DEF ReadOn
  <2> QED BY <2>1, <2>2 DEF ReadOn, SameLife
<1>5. t = IF p.final THEN [d EXCEPT !.frame = <<>>] ELSE p
  BY DEF ReadBody
<1>6. d \in SocketType /\ SameReading(p, d)
  BY <1>4, DispatchStep
<1>7. d = CASE p.opcode = OpBinary -> Emit(p, "binary", p.frame)
            [] p.opcode = OpText   -> Emit(p, "text", p.frame)
            [] p.opcode = OpPing   -> [Write(p, ComposeHeader(TRUE, OpPong, 0, <<>>), TRUE) EXCEPT !.slot = TRUE]
            [] p.opcode = OpPong   -> Emit(p, "pong", <<>>)
            [] p.opcode = OpClose  -> Close([p EXCEPT !.received = TRUE], p.code)
            [] OTHER               -> p
  BY DEF Dispatch
<1>8. SameWriter(s, p) /\ p.received = s.received
  BY <1>3, <1>4 DEF SameWriter, SameLife
<1>9. y.open = ~f.final /\ e.open = (f.opcode = OpContinue) /\ (e.open \/ s.frame = <<>>)
  BY <1>1 DEF Leads, Pending
<1> HIDE DEF t, p, d
<1>10. CASE ~f.final
  <2>1. t = p
    BY <1>3, <1>5, <1>10
  <2>2. f.opcode # OpClose /\ Due(f) = <<>>
    BY <1>2, <1>10 DEF Due
  <2>3. Reporting(s, f, t)
    BY <1>3, <2>1, <2>2 DEF Reporting
  <2>4. Took(strict, s, after, e, t)
    BY <1>0, <1>1, <1>3, <1>4, <1>8, <1>9, <1>10, <2>1, <2>3, FrameTook
  <2>5. Puts(s, t)
    BY <1>8, <2>1, NothingPut DEF SameWriter
  <2> QED BY <2>4, <2>5 DEF t
<1>11. CASE f.final
  <2>1. /\ t.frame = <<>> /\ t.buffer = d.buffer /\ t.readingState = d.readingState
        /\ t.emitted = d.emitted /\ t.received = d.received /\ SameWriter(d, t)
    <3>1. t = [d EXCEPT !.frame = <<>>]
      BY <1>3, <1>5, <1>11
    <3> QED BY <1>6, <3>1 DEF SocketType, SameWriter
  <2>2. t.buffer \o after = y.bytes /\ t.readingState = "HeaderPending"
    BY <1>3, <1>4, <1>6, <2>1 DEF SameReading
  <2>3. SUFFICES Reporting(s, f, d) /\ (f.opcode # OpClose => d.received = s.received) /\ Puts(s, d)
    <3>1. Reporting(s, f, t) /\ (f.opcode # OpClose => t.received = s.received)
      BY <2>1, <2>3 DEF Reporting
    <3>2. Took(strict, s, after, e, t)
      BY <1>0, <1>1, <2>1, <2>2, <3>1, FrameTook
    <3>3. Puts(s, t)
      <4>1. SameWriter(s, s)
        BY DEF SameWriter
      <4> QED BY <2>1, <2>3, <4>1, PutsSame
    <3> QED BY <3>2, <3>3 DEF t
  <2>4. ASSUME f.opcode # OpContinue
        PROVE  p.frame = f.body
    <3> DEFINE b == f.body
    <3>1. b \in Bytes /\ s.frame = <<>>
      BY <1>2, <1>9, <2>4
    <3> HIDE DEF b
    <3>2. <<>> \o b = b
      BY <3>1, NoneJoined
    <3> QED BY <1>3, <3>1, <3>2 DEF b
  <2>5. ASSUME NEW signal \in {"text", "binary"}, d = Emit(p, signal, p.frame),
               Due(f) = <<[kind |-> signal, data |-> f.body]>>, f.opcode # OpContinue
        PROVE  Reporting(s, f, d) /\ (f.opcode # OpClose => d.received = s.received) /\ Puts(s, d)
    <3> DEFINE m == [kind |-> signal, data |-> f.body]
    <3>1. m \in Report /\ m \in Reported
      BY <1>2 DEF Report, Reported, Bytes
    <3>2. d.emitted = Append(p.emitted, [kind |-> signal, data |-> p.frame]) /\ d.received = p.received
      BY <1>4, <2>5 DEF Emit, SocketType
    <3>3. SameWriter(p, d)
      BY <1>4, <2>5 DEF Emit, SocketType, SameWriter
    <3>4. d.emitted = Append(s.emitted, m)
      BY <1>3, <2>4, <2>5, <3>2
    <3> HIDE DEF m
    <3>5. Due(f) = <<m>>
      BY <2>5 DEF m
    <3>6. Reporting(s, f, d)
      BY <3>1, <3>4, <3>5 DEF Reporting
    <3>7. Puts(s, d)
      BY <1>8, <3>3, NothingPut DEF SameWriter
    <3> QED BY <1>8, <3>2, <3>6, <3>7
  <2>6. CASE f.opcode = OpBinary
    <3>1. d = Emit(p, "binary", p.frame) /\ f.opcode # OpContinue
      BY <1>3, <1>7, <2>6 DEF OpBinary, OpText, OpPing, OpPong, OpClose, OpContinue
    <3>2. Due(f) = <<[kind |-> "binary", data |-> f.body]>>
      BY <1>11, <2>6 DEF Due, OpBinary, OpText
    <3> QED BY <2>5, <3>1, <3>2
  <2>7. CASE f.opcode = OpText
    <3>1. d = Emit(p, "text", p.frame) /\ f.opcode # OpContinue
      BY <1>3, <1>7, <2>7 DEF OpBinary, OpText, OpPing, OpPong, OpClose, OpContinue
    <3>2. Due(f) = <<[kind |-> "text", data |-> f.body]>>
      BY <1>11, <2>7 DEF Due, OpBinary, OpText
    <3> QED BY <2>5, <3>1, <3>2
  <2>8. CASE f.opcode = OpContinue
    <3>1. d = p
      BY <1>3, <1>7, <2>8 DEF OpBinary, OpText, OpPing, OpPong, OpClose, OpContinue
    <3>2. Due(f) = <<>>
      BY <2>8 DEF Due, OpBinary, OpText, OpContinue
    <3>3. Puts(s, d)
      BY <1>8, <3>1, NothingPut DEF SameWriter
    <3> QED BY <1>3, <1>8, <3>1, <3>2, <3>3 DEF Reporting
  <2>9. CASE f.opcode = OpPing
    <3> DEFINE pong == ComposeHeader(TRUE, OpPong, 0, <<>>)
               v == Write(p, pong, TRUE)
    <3>1. d = [v EXCEPT !.slot = TRUE]
      BY <1>3, <1>7, <2>9 DEF OpBinary, OpText, OpPing, OpPong, OpClose, OpContinue
    <3>2. Due(f) = <<>>
      BY <2>9 DEF Due, OpBinary, OpText, OpPing
    <3>3. pong \in Bytes
      <4>1. TRUE \in BOOLEAN /\ OpPong \in 0 .. 15 /\ 0 \in Nat /\ <<>> \in Bytes
        BY NoByte DEF OpPong
      <4> QED BY <4>1, HeaderType
    <3>4. p.version # 0
      BY <1>4 DEF SameLife
    <3> HIDE DEF pong
    <3>5. Puts(p, v) /\ SameReader(p, v)
      BY <1>4, <3>3, <3>4, WritePuts
    <3>6. v \in SocketType
      BY <1>4, <3>3, WriteStep
    <3> HIDE DEF v
    <3>7. SameWriter(v, d) /\ d.emitted = v.emitted /\ d.received = v.received
      BY <3>1, <3>6 DEF SocketType, SameWriter
    <3>8. Puts(s, d)
      BY <1>8, <3>5, <3>7, PutsSame
    <3>9. d.emitted = s.emitted /\ d.received = s.received
      BY <1>3, <1>8, <3>5, <3>7 DEF SameReader
    <3> QED BY <3>2, <3>8, <3>9 DEF Reporting
  <2>10. CASE f.opcode = OpClose
    <3> DEFINE c == [p EXCEPT !.received = TRUE]
               v == Close(c, NoCloseStatusCode)
    <3>1. d = v
      BY <1>3, <1>7, <2>10 DEF OpBinary, OpText, OpPing, OpPong, OpClose, OpContinue
    <3>2. Due(f) = <<>>
      BY <2>10 DEF Due, OpBinary, OpText, OpClose
    <3>3. c \in SocketType /\ SameWriter(p, c) /\ c.emitted = p.emitted /\ c.version # 0
      <4>1. p.version # 0
        BY <1>4 DEF SameLife
      <4> QED BY <1>4, <4>1 DEF SocketType, SameWriter
    <3> HIDE DEF c
    <3>4. Puts(c, v) /\ SameReader(c, v)
      BY <3>3, ClosePuts
    <3> HIDE DEF v
    <3>5. SameWriter(s, c) /\ SameWriter(v, d)
      BY <1>8, <3>1, <3>3 DEF SameWriter
    <3>6. Puts(s, d)
      BY <3>4, <3>5, PutsSame
    <3>7. d.emitted = s.emitted
      BY <1>3, <3>1, <3>3, <3>4 DEF SameReader
    <3> QED BY <2>10, <3>2, <3>6, <3>7 DEF Reporting
  <2> QED BY <1>2, <2>6, <2>7, <2>8, <2>9, <2>10
<1> QED
  BY <1>2, <1>10, <1>11 DEF t

\* One iteration.
LEMMA IterationTook ==
  ASSUME NEW s \in SocketType, s.version # 0, NEW strict, NEW after \in Bytes, NEW e \in Stream,
         Pending(strict, s, after, e)
  PROVE  LET t == IterateV4(s)
         IN  Took(strict, s, after, e, t) /\ Puts(s, t)
<1> DEFINE t == IterateV4(s)
<1>1. Len(s.buffer) \in Nat
  BY LengthIsNat DEF SocketType
<1>2. s.readingState # "CloseDataPending"
  <2>1. s.readingState = "HeaderPending" \/ \E f \in Frames : Midway(s, f)
    BY DEF Pending
  <2>2. ASSUME NEW f, Midway(s, f)
        PROVE  s.readingState # "CloseDataPending"
    BY <2>2 DEF Midway
  <2>3. "HeaderPending" # "CloseDataPending"
    OBVIOUS
  <2> QED BY <2>1, <2>2, <2>3
<1>3. s.readingState \in ReadingStates
  BY DEF SocketType
<1>4. CASE Len(s.buffer) < Needed(s)
  <2>1. IterateV4(s) = Return(s)
    BY <1>4 DEF IterateV4
  <2> QED BY <2>1, ReturnTook
<1>5. CASE ~(Len(s.buffer) < Needed(s)) /\ s.readingState = "HeaderPending"
  <2>1. Needed(s) = 2 /\ IterateV4(s) = ReadHeader(s)
    BY <1>5 DEF Needed, IterateV4
  <2>2. Len(s.buffer) >= 2
    BY <1>1, <1>5, <2>1
  <2> QED BY <1>5, <2>1, <2>2, FirstTook
<1>6. CASE ~(Len(s.buffer) < Needed(s)) /\ s.readingState = "PayloadLengthPending"
  <2>1. Needed(s) = 2 /\ IterateV4(s) = ReadLength(s)
    BY <1>6 DEF Needed, IterateV4
  <2>2. Len(s.buffer) >= 2
    BY <1>1, <1>6, <2>1
  <2> QED BY <1>6, <2>1, <2>2, LengthTook
<1>7. CASE ~(Len(s.buffer) < Needed(s)) /\ s.readingState = "BigPayloadLenghPending"
  <2>1. Needed(s) = 8 /\ IterateV4(s) = ReadBigLength(s)
    BY <1>7 DEF Needed, IterateV4
  <2>2. Len(s.buffer) >= 8
    BY <1>1, <1>7, <2>1
  <2> QED BY <1>7, <2>1, <2>2, BigLengthTook
<1>8. CASE ~(Len(s.buffer) < Needed(s)) /\ s.readingState = "MaskPending"
  <2> DEFINE u == [s EXCEPT !.readingState = "PayloadBodyPending"]
  <2>1. s.hasMask = FALSE /\ Took(strict, s, after, e, u) /\ Puts(s, u)
    BY <1>8, MaskTook
  <2>2. t = u
    BY <1>8, <2>1 DEF IterateV4
  <2> HIDE DEF u
  <2> QED BY <2>1, <2>2
<1>9. CASE ~(Len(s.buffer) < Needed(s)) /\ s.readingState = "PayloadBodyPending"
  <2>1. Needed(s) = s.length.low /\ IterateV4(s) = ReadBody(s)
    BY <1>9 DEF Needed, IterateV4
  <2>2. s.length.low \in Int
    BY DEF SocketType
  <2>3. Len(s.buffer) >= s.length.low
    BY <1>1, <1>9, <2>1, <2>2
  <2> QED BY <1>9, <2>1, <2>3, BodyTook
<1> QED
  BY <1>2, <1>3, <1>4, <1>5, <1>6, <1>7, <1>8, <1>9 DEF ReadingStates

\* What is received grows by one message at most.
OneMore(s, t) ==
  \/ t.emitted = s.emitted
  \/ \E m \in Report : Only(t.emitted, Reported) = Only(s.emitted, Reported) \o <<m>>

\* What an iteration does to both ways.
LEMMA IterateInFlight ==
  ASSUME NEW s, NEW told1, PeerOK(s, told1), s.running, NEW w \in SocketType, InFlight(s, w)
  PROVE  LET t == Iterate(s)
         IN  /\ InFlight(t, w) /\ Puts(s, t) /\ OneMore(s, t)
             /\ s.ws = "Unconnected" /\ t.emitted # s.emitted => w.late
<1> DEFINE u == [s EXCEPT !.slot = FALSE]
           t == IterateV4(u)
<1>1. s \in SocketType /\ s.version = 13 /\ Life(s, told1) /\ Turn(s)
  BY DEF PeerOK
<1>2. u \in SocketType /\ SameReader(s, u) /\ SameWriter(s, u) /\ u.version = 13
  BY <1>1 DEF SocketType, SameReader, SameWriter
<1>3. Iterate(s) = t
  <2>1. u.version # 0
    BY <1>2
  <2> QED BY <2>1 DEF Iterate
<1>4. InFlight(u, w)
  BY <1>2, SameInFlight
<1>5. /\ u.emitted = s.emitted /\ u.buffer = s.buffer /\ u.readingState = s.readingState
      /\ u.tcp = s.tcp /\ u.received = s.received
  BY <1>2 DEF SameReader, SameWriter
<1> HIDE DEF u
<1>6. CASE s.tcp = "Unconnected"
  <2>1. u.buffer = <<>> /\ u.readingState = "HeaderPending"
    BY <1>1, <1>5, <1>6 DEF Turn
  <2>2. t = Return(u)
    <3>1. Needed(u) = 2 /\ Len(u.buffer) < 2
      BY <2>1 DEF Needed
    <3>2. Len(u.buffer) < Needed(u)
      BY <3>1
    <3> QED BY <3>2 DEF IterateV4
  <2>3. SameReader(u, t) /\ SameWriter(u, t)
    BY <1>2, <2>2 DEF Return, SameReader, SameWriter, SocketType
  <2> HIDE DEF t
  <2>4. InFlight(t, w)
    BY <1>4, <2>3, SameInFlight
  <2>5. t.emitted = s.emitted /\ SameWriter(s, t)
    BY <1>2, <2>3 DEF SameReader, SameWriter
  <2>6. Puts(s, t)
    BY <1>1, <2>5, NothingPut DEF SameWriter
  <2> QED BY <1>3, <2>4, <2>5, <2>6 DEF OneMore
<1>7. CASE s.tcp # "Unconnected"
  <2>1. PICK e \in Stream, lost \in Bytes : Way(u, w, e, lost)
    BY <1>4 DEF InFlight
  <2> DEFINE after == w.output \o lost
             strict == ~w.late
  <2>2. /\ Only(w.written, Fitting) = Only(u.emitted, Reported) \o e.messages
        /\ Pending(strict, u, after, e)
        /\ w.tcp # "Unconnected" => lost = <<>>
        /\ w.late \/ ~u.received \/ (u.readingState = "HeaderPending" /\ e = Nothing)
        /\ w.late \/ w.tcp = "Unconnected" \/ w.sent \/ (~u.received /\ ~e.closes)
    BY <1>5, <1>7, <2>1 DEF Way
  <2>3. after \in Bytes
    BY BytesJoined DEF SocketType
  <2> HIDE DEF after, strict, t
  <2>4. Took(strict, u, after, e, t) /\ Puts(u, t)
    <3>1. u.version # 0
      BY <1>2
    <3> QED BY <1>2, <2>2, <2>3, <3>1, IterationTook DEF t
  <2>5. PICK r \in Stream :
    /\ Pending(strict, t, after, r)
    /\ \/ r.messages = e.messages /\ t.emitted = u.emitted
       \/ \E m \in Report :
            /\ e.messages = <<m>> \o r.messages
            /\ Only(t.emitted, Reported) = Only(u.emitted, Reported) \o <<m>>
    /\ strict /\ ~e.closes => ~r.closes /\ t.received = u.received
    /\ strict /\ t.received => u.received \/ (t.readingState = "HeaderPending" /\ r = Nothing)
    /\ u.readingState = "HeaderPending" /\ e = Nothing =>
         t.readingState = "HeaderPending" /\ r = Nothing /\ t.emitted = u.emitted
    BY <2>4 DEF Took
  <2>6. Puts(s, t)
    <3>1. SameWriter(t, t)
      BY DEF SameWriter
    <3> QED BY <1>2, <2>4, <3>1, PutsSame
  <2>7. OneMore(s, t)
    BY <1>5, <2>5 DEF OneMore
  <2>8. s.ws = "Unconnected" /\ t.emitted # s.emitted => w.late
    <3>1. SUFFICES ASSUME s.ws = "Unconnected", ~w.late
                   PROVE  t.emitted = s.emitted
      OBVIOUS
    <3>2. s.tcp = "Closing" /\ s.received
      BY <1>1, <1>7, <3>1 DEF Life, Turn, SocketType, States
    <3>3. u.readingState = "HeaderPending" /\ e = Nothing
      BY <1>5, <2>2, <3>1, <3>2
    <3> QED BY <1>5, <2>5, <3>3
  <2>9. w.late \/ ~t.received \/ (t.readingState = "HeaderPending" /\ r = Nothing)
    BY <2>2, <2>5 DEF strict
  <2>10. w.late \/ w.tcp = "Unconnected" \/ w.sent \/ (~t.received /\ ~r.closes)
    BY <2>2, <2>5 DEF strict
  <2>11. Only(w.written, Fitting) = Only(t.emitted, Reported) \o r.messages
    <3>1. CASE r.messages = e.messages /\ t.emitted = u.emitted
      BY <2>2, <3>1
    <3>2. CASE \E m \in Report :
                 /\ e.messages = <<m>> \o r.messages
                 /\ Only(t.emitted, Reported) = Only(u.emitted, Reported) \o <<m>>
      <4>1. PICK m \in Report :
                 /\ e.messages = <<m>> \o r.messages
                 /\ Only(t.emitted, Reported) = Only(u.emitted, Reported) \o <<m>>
        BY <3>2
      <4> DEFINE a == Only(u.emitted, Reported)
                 c == r.messages
                 b == <<m>>
      <4>2. a \in Reports
        BY <1>2, OnlyType DEF SocketType
      <4>3. c \in Reports /\ b \in Reports
        BY StreamParts DEF Reports
      <4>4. Only(w.written, Fitting) = a \o (b \o c) /\ Only(t.emitted, Reported) = a \o b
        BY <2>2, <4>1
      <4> HIDE DEF a, b, c
      <4>5. (a \o b) \o c = a \o (b \o c)
        BY <4>2, <4>3, ReportsJoined
      <4>6. Only(w.written, Fitting) = Only(t.emitted, Reported) \o c
        BY <4>4, <4>5
      <4> QED BY <4>6 DEF c
    <3> QED BY <2>5, <3>1, <3>2
  <2>12. Way(t, w, r, lost)
    BY <2>2, <2>5, <2>9, <2>10, <2>11 DEF Way, after, strict
  <2>13. InFlight(t, w)
    BY <2>12 DEF InFlight
  <2> QED BY <1>3, <2>6, <2>7, <2>8, <2>13
<1> QED
  BY <1>6, <1>7 DEF t

----------------------------------------------------------------------------
(* Both ways, and the two sockets.                                         *)

\* What a step may do to the way from w to s: one message is sent, or one is
\* received, and none behind disconnected() unless something is late.
Carried(s, w, s2, w2) ==
  /\ InFlight(s2, w2)
  /\ \/ OneMore(s, s2) /\ w2.written = w.written
     \/ s2.emitted = s.emitted /\ Only(w2.written, Fitting) = Only(w.written, Fitting)
     \/ /\ s2.emitted = s.emitted
        /\ \E m \in Report : Only(w2.written, Fitting) = Only(w.written, Fitting) \o <<m>>
  /\ s.ws = "Unconnected" /\ s2.emitted # s.emitted => w.late

\* The socket s writes to o.
LEMMA PutsCarried ==
  ASSUME NEW s \in SocketType, NEW s2 \in SocketType, NEW o \in SocketType,
         InFlight(o, s), Puts(s, s2)
  PROVE  Carried(o, s, o, s2)
<1>1. InFlight(o, s2)
  BY PutsInFlight
<1>2. PICK x \in Stream :
    /\ Only(s2.written, Fitting) = Only(s.written, Fitting) \o x.messages
    /\ x.messages = <<>> \/ \E m \in Report : x.messages = <<m>>
  BY DEF Puts
<1> DEFINE a == Only(s.written, Fitting)
           b == Only(s2.written, Fitting)
<1>3. a \in Reports
  BY OnlyType DEF SocketType
<1>4. b = a \o x.messages
  BY <1>2
<1> HIDE DEF a, b
<1>5. a \o <<>> = a
  BY <1>3, ReportsJoined
<1>6. b = a \/ \E m \in Report : b = a \o <<m>>
  BY <1>2, <1>4, <1>5
<1> QED
  BY <1>1, <1>6 DEF Carried, a, b

\* The socket s does not read.
LEMMA SameCarried ==
  ASSUME NEW s, NEW s2, NEW w, InFlight(s, w), SameReader(s, s2)
  PROVE  Carried(s, w, s2, w)
<1>1. InFlight(s2, w) /\ s2.emitted = s.emitted
  BY SameInFlight DEF SameReader
<1> QED
  BY <1>1 DEF Carried

\* The socket s comes to its end.
LEMMA DropsCarried ==
  ASSUME NEW s \in SocketType, NEW s2, NEW o \in SocketType,
         InFlight(s, o), InFlight(o, s), Drops(s, s2), s2.emitted = s.emitted
  PROVE  Carried(s, o, s2, o) /\ Carried(o, s, o, s2)
<1>1. InFlight(o, s2)
  BY DropsInFlight
<1>2. InFlight(s2, o)
  BY EndInFlight DEF Drops
<1>3. s2.written = s.written
  BY DEF Drops
<1> QED
  BY <1>1, <1>2, <1>3 DEF Carried

\* The socket s closes, and o is gone.
LEMMA TcpClosingCarried ==
  ASSUME NEW s \in SocketType, s.tcp = "Connected", NEW o, o.tcp = "Unconnected",
         InFlight(s, o), InFlight(o, s)
  PROVE  LET t == TcpClosing(s)
         IN  Carried(s, o, t, o) /\ Carried(o, s, o, t)
<1> DEFINE u == [s EXCEPT !.tcp = "Closing"]
           c == Close(u, CloseGoingAway)
           t == TcpClosing(s)
<1>1. t = IF s.ws = "Connected" THEN [c EXCEPT !.ws = "Closing"] ELSE u
  BY DEF TcpClosing
<1>2. u \in SocketType /\ u.ws = s.ws
  BY DEF SocketType, States
<1>3. SameReader(s, u) /\ u.written = s.written
  BY DEF SocketType, SameReader
<1> HIDE DEF u, t
<1>4. SameReader(s, t) /\ t.written = s.written
  <2>1. CASE s.ws = "Connected"
    <3>1. CloseGoingAway \in Nat
      BY DEF CloseGoingAway
    <3>2. SameReader(u, c) /\ c.written = u.written
      <4>1. u.ws # "Unconnected"
        BY <1>2, <2>1
      <4> QED BY <1>2, <3>1, <4>1, CloseSays
    <3>3. c \in SocketType
      BY <1>2, <3>1, CloseStep
    <3> HIDE DEF c
    <3>4. t = [c EXCEPT !.ws = "Closing"]
      BY <1>1, <2>1
    <3>5. SameReader(c, t) /\ t.written = c.written
      BY <3>3, <3>4 DEF SocketType, SameReader
    <3>6. SameReader(s, t)
      BY <1>3, <3>2, <3>5 DEF SameReader
    <3> QED BY <1>3, <3>2, <3>5, <3>6
  <2>2. CASE s.ws # "Connected"
    BY <1>1, <1>3, <2>2
  <2> QED BY <2>1, <2>2
<1>5. Carried(s, o, t, o)
  BY <1>4, SameCarried
<1>6. InFlight(o, t)
  BY <1>4, GoneInFlight
<1>7. Carried(o, s, o, t)
  BY <1>4, <1>6 DEF Carried
<1> QED
  BY <1>5, <1>7 DEF t

\* An abort.
LEMMA AbortCarried ==
  ASSUME NEW s, NEW told1, PeerOK(s, told1), NEW o \in SocketType, InFlight(s, o), InFlight(o, s)
  PROVE  LET t == Abort(s)
         IN  Carried(s, o, t, o) /\ Carried(o, s, o, t)
<1>1. s \in SocketType /\ Life(s, told1)
  BY DEF PeerOK
<1>2. CASE s.tcp = "Unconnected"
  <2>1. Abort(s) = Close(s, CloseAbnormalDisconnection) /\ s.ws = "Unconnected"
    BY <1>1, <1>2 DEF Abort, Life
  <2>2. Abort(s) = s
    BY <2>1 DEF Close
  <2>3. Carried(s, o, s, o) /\ Carried(o, s, o, s)
    BY DEF Carried
  <2> QED BY <2>2, <2>3
<1>3. CASE s.tcp # "Unconnected"
  <2> DEFINE t == Abort(s)
  <2>1. Drops(s, t) /\ t.emitted = s.emitted
    BY <1>1, <1>3, AbortDrops
  <2> HIDE DEF t
  <2>2. Carried(s, o, t, o) /\ Carried(o, s, o, t)
    BY <1>1, <2>1, DropsCarried
  <2> QED BY <2>2 DEF t
<1> QED
  BY <1>2, <1>3

\* A segment that arrives at s from o.
LEMMA ArriveCarried ==
  ASSUME NEW s \in SocketType, NEW o \in SocketType, s.tcp = "Connected",
         NEW n \in 1 .. Len(o.output), InFlight(s, o), InFlight(o, s)
  PROVE  LET t == Receive(s, SubSeq(o.output, 1, n))
             v == [o EXCEPT !.output = Behind(o.output, n)]
         IN  Carried(s, o, t, v) /\ Carried(o, s, v, t)
<1> DEFINE segment == SubSeq(o.output, 1, n)
           t == Receive(s, segment)
           v == [o EXCEPT !.output = Behind(o.output, n)]
<1>1. InFlight(t, v)
  <2>1. s.tcp # "Unconnected"
    OBVIOUS
  <2> QED BY <2>1, ArriveInFlight
<1>2. t.emitted = s.emitted /\ v.written = o.written
  BY DEF Receive, SocketType
<1>3. SameReader(o, v)
  BY DEF SameReader, SocketType
<1>4. SameWriter(s, t)
  BY DEF SameWriter, Receive, SocketType
<1>5. segment \in Bytes
  <2> DEFINE b == o.output
  <2>1. b \in Bytes /\ Len(b) \in Nat
    BY LengthIsNat DEF SocketType
  <2>2. n \in Int /\ n <= Len(b)
    BY <2>1
  <2>3. 1 \in Nat \ {0}
    OBVIOUS
  <2> HIDE DEF b
  <2>4. SubSeq(b, 1, n) \in Bytes
    BY <2>1, <2>2, <2>3, BytesCut
  <2> QED BY <2>4 DEF b
<1> HIDE DEF segment
<1>6. t \in SocketType
  BY <1>5, ReceiveStep
<1> HIDE DEF t, v
<1>7. Carried(s, o, t, v)
  BY <1>1, <1>2 DEF Carried
<1>8. InFlight(o, t)
  <2>1. Puts(s, t)
    BY <1>4, NothingPut DEF SameWriter
  <2> QED BY <1>6, <2>1, PutsInFlight
<1>9. InFlight(v, t)
  BY <1>3, <1>8, SameInFlight
<1>10. Carried(o, s, v, t)
  BY <1>3, <1>4, <1>9 DEF Carried, SameReader, SameWriter
<1> QED
  BY <1>7, <1>10 DEF segment, t, v

\* What is under way, in both directions.
Flight == \A p \in Peer : InFlight(socks[p], socks[Other(p)])

\* A step of the two, in both directions.
Carrying == \A p \in Peer : Carried(socks[p], socks[Other(p)], socks'[p], socks'[Other(p)])

\* There are two.
LEMMA Others ==
  \A p \in Peer : /\ Other(p) \in Peer /\ Other(p) # p /\ Other(Other(p)) = p
                  /\ \A q \in Peer : q = p \/ q = Other(p)
BY DEF Other, Peer

\* Nothing is under way between two new sockets.
LEMMA InitFlies == Init => Flight
<1> SUFFICES ASSUME Init PROVE Flight
  OBVIOUS
<1> DEFINE s == NewSocket(13)
<1>1. \A p \in Peer : socks[p] = s
  BY DEF Init, s
<1>2. /\ s.output = <<>> /\ s.buffer = <<>> /\ s.frame = <<>> /\ s.emitted = <<>> /\ s.written = <<>>
      /\ s.received = FALSE /\ s.sent = FALSE /\ s.tcp = "Connected" /\ s.readingState = "HeaderPending"
  BY DEF NewSocket
<1> HIDE DEF s
<1>3. <<>> \in Bytes /\ <<>> \o <<>> = <<>>
  BY NoByte, NoneJoined
<1>4. Nothing \in Stream /\ \A strict : Flows(strict, Nothing)
  BY NothingFlows
<1>5. /\ Nothing.bytes = <<>> /\ Nothing.messages = <<>> /\ Nothing.open = FALSE /\ Nothing.closes = FALSE
  BY DEF Nothing
<1>6. Pending(~s.late, s, s.output \o <<>>, Nothing)
  <2> DEFINE strict == ~s.late
  <2>1. Flows(strict, Nothing)
    BY <1>4
  <2> HIDE DEF strict
  <2>2. Pending(strict, s, s.output \o <<>>, Nothing)
    BY <1>2, <1>3, <1>5, <2>1 DEF Pending
  <2> QED BY <2>2 DEF strict
<1>7. Only(s.written, Fitting) = Only(s.emitted, Reported) \o Nothing.messages
  <2>1. Only(<<>>, Fitting) = <<>> /\ Only(<<>>, Reported) = <<>>
    BY OnlySteps
  <2> QED BY <1>2, <1>3, <1>5, <2>1
<1>8. Way(s, s, Nothing, <<>>)
  BY <1>2, <1>5, <1>6, <1>7 DEF Way
<1>9. InFlight(s, s)
  BY <1>3, <1>4, <1>8 DEF InFlight
<1> QED
  BY <1>1, <1>9, Others DEF Flight

\* A step of one socket that leaves the other as it is.
LEMMA OneCarries ==
  ASSUME PeersOK, NEW p \in Peer, NEW s,
         socks' = [socks EXCEPT ![p] = s],
         Carried(socks[p], socks[Other(p)], s, socks[Other(p)]),
         Carried(socks[Other(p)], socks[p], socks[Other(p)], s)
  PROVE  Carrying
<1>1. socks'[p] = s /\ socks'[Other(p)] = socks[Other(p)]
  BY Others DEF PeersOK
<1>2. ASSUME NEW q \in Peer
      PROVE  Carried(socks[q], socks[Other(q)], socks'[q], socks'[Other(q)])
  <2>1. CASE q = p
    BY <1>1, <2>1
  <2>2. CASE q = Other(p)
    <3>1. Other(q) = p
      BY <2>2, Others
    <3> QED BY <1>1, <2>2, <3>1
  <2> QED BY <2>1, <2>2, Others
<1> QED
  BY <1>2 DEF Carrying

\* Every step sends one message at most, or receives the next, in each direction.
LEMMA StepCarries ==
  ASSUME PeersOK, Flight, [Next]_vars
  PROVE  Carrying
<1>1. ASSUME NEW p \in Peer
      PROVE  /\ PeerOK(socks[p], told[p]) /\ socks[p] \in SocketType
             /\ socks[p].version # 0
             /\ socks[Other(p)] \in SocketType
             /\ InFlight(socks[p], socks[Other(p)]) /\ InFlight(socks[Other(p)], socks[p])
             /\ socks'[p] \in SocketType
  <2>1. Other(p) \in Peer /\ Other(Other(p)) = p
    BY Others
  <2>2. PeerOK(socks[p], told[p]) /\ socks[p] \in SocketType /\ socks[Other(p)] \in SocketType
    BY <2>1 DEF PeersOK
  <2>3. InFlight(socks[p], socks[Other(p)]) /\ InFlight(socks[Other(p)], socks[Other(Other(p))])
    BY <2>1 DEF Flight
  <2>4. socks' \in [Peer -> SocketType]
    BY StepGoes DEF Going
  <2>5. socks[p].version # 0
    <3>1. socks[p].version = 13
      BY <2>2 DEF PeerOK
    <3> QED BY <3>1
  <2> QED BY <2>1, <2>2, <2>3, <2>4, <2>5
<1>2. ASSUME NEW p \in Peer, NEW s \in SocketType, socks' = [socks EXCEPT ![p] = s],
             Puts(socks[p], s), SameReader(socks[p], s)
      PROVE  Carrying
  <2>1. Carried(socks[p], socks[Other(p)], s, socks[Other(p)])
    BY <1>1, <1>2, SameCarried
  <2>2. Carried(socks[Other(p)], socks[p], socks[Other(p)], s)
    BY <1>1, <1>2, PutsCarried
  <2> QED BY <1>2, <2>1, <2>2, OneCarries
<1>3. ASSUME NEW p \in Peer, UserWrites(p)
      PROVE  Carrying
  <2>1. PICK message \in Message :
          socks' = [socks EXCEPT ![p] = Write(socks[p], message.data, message.asBinary)]
    BY <1>3 DEF UserWrites
  <2> DEFINE s == Write(socks[p], message.data, message.asBinary)
  <2>2. message.data \in Bytes /\ message.asBinary \in BOOLEAN
    BY MessagesAreBytes DEF Bytes
  <2>3. s \in SocketType
    BY <1>1, <2>2, WriteStep
  <2>4. Puts(socks[p], s) /\ SameReader(socks[p], s)
    BY <1>1, <2>2, WritePuts
  <2>5. socks' = [socks EXCEPT ![p] = s]
    BY <2>1
  <2> HIDE DEF s
  <2> QED BY <1>2, <2>3, <2>4, <2>5
<1>4. ASSUME NEW p \in Peer, UserPings(p)
      PROVE  Carrying
  <2> DEFINE s == Ping(socks[p])
  <2>1. s \in SocketType
    BY <1>1, PingStep
  <2>2. Puts(socks[p], s) /\ SameReader(socks[p], s)
    BY <1>1, PingPuts
  <2>3. socks' = [socks EXCEPT ![p] = s]
    BY <1>4 DEF UserPings
  <2> HIDE DEF s
  <2> QED BY <1>2, <2>1, <2>2, <2>3
<1>5. ASSUME NEW p \in Peer, DisconnectFromHost(p)
      PROVE  Carrying
  <2> DEFINE s == Close(socks[p], NoCloseStatusCode)
  <2>1. s \in SocketType
    <3>1. NoCloseStatusCode \in Nat
      BY DEF NoCloseStatusCode
    <3> QED BY <1>1, <3>1, CloseStep
  <2>2. Puts(socks[p], s) /\ SameReader(socks[p], s)
    BY <1>1, ClosePuts
  <2>3. socks' = [socks EXCEPT ![p] = s]
    BY <1>5 DEF DisconnectFromHost
  <2> HIDE DEF s
  <2> QED BY <1>2, <2>1, <2>2, <2>3
<1>6. ASSUME NEW p \in Peer, UserAborts(p)
      PROVE  Carrying
  <2> DEFINE s == Abort(socks[p])
  <2>1. Carried(socks[p], socks[Other(p)], s, socks[Other(p)]) /\ Carried(socks[Other(p)], socks[p], socks[Other(p)], s)
    BY <1>1, AbortCarried
  <2>2. socks' = [socks EXCEPT ![p] = s]
    BY <1>6 DEF UserAborts
  <2> HIDE DEF s
  <2> QED BY <2>1, <2>2, OneCarries
<1>7. ASSUME NEW p \in Peer, Arrive(p)
      PROVE  Carrying
  <2> DEFINE o == Other(p)
             flight == socks[o].output
  <2>1. o \in Peer /\ o # p /\ Other(o) = p /\ \A q \in Peer : q = p \/ q = o
    BY Others
  <2>2. PICK n \in 1 .. Len(flight) :
          socks' = [socks EXCEPT ![p] = Receive(socks[p], SubSeq(flight, 1, n)),
                                 ![o].output = Behind(flight, n)]
    BY <1>7 DEF Arrive
  <2>3. socks[p].tcp = "Connected"
    BY <1>7 DEF Arrive
  <2> DEFINE t == Receive(socks[p], SubSeq(flight, 1, n))
             v == [socks[o] EXCEPT !.output = Behind(flight, n)]
  <2>4. Carried(socks[p], socks[o], t, v) /\ Carried(socks[o], socks[p], v, t)
    <3>1. socks[p] \in SocketType /\ socks[o] \in SocketType
          /\ InFlight(socks[p], socks[o]) /\ InFlight(socks[o], socks[p])
      BY <1>1
    <3> QED BY <2>3, <3>1, ArriveCarried
  <2>5. socks'[p] = t /\ socks'[o] = v
    <3> HIDE DEF o
    <3>1. socks \in [Peer -> SocketType]
      BY DEF PeersOK
    <3> QED BY <2>1, <2>2, <3>1
  <2> HIDE DEF t, v
  <2>6. ASSUME NEW q \in Peer
        PROVE  Carried(socks[q], socks[Other(q)], socks'[q], socks'[Other(q)])
    <3>1. CASE q = p
      BY <2>4, <2>5, <3>1
    <3>2. CASE q = o
      <4>1. Other(q) = p
        BY <2>1, <3>2
      <4> QED BY <2>4, <2>5, <3>2, <4>1
    <3> QED BY <2>1, <3>1, <3>2
  <2> QED BY <2>6 DEF Carrying
<1>8. ASSUME NEW p \in Peer, ProcessDataV4(p)
      PROVE  Carrying
  <2> DEFINE s == Iterate(socks[p])
             o == socks[Other(p)]
  <2>1. socks[p].running /\ socks' = [socks EXCEPT ![p] = s]
    BY <1>8 DEF ProcessDataV4
  <2>2. InFlight(s, o) /\ Puts(socks[p], s) /\ OneMore(socks[p], s)
        /\ (socks[p].ws = "Unconnected" /\ s.emitted # socks[p].emitted => o.late)
    <3>1. PeerOK(socks[p], told[p]) /\ o \in SocketType /\ InFlight(socks[p], o)
      BY <1>1
    <3> HIDE DEF o
    <3> QED BY <2>1, <3>1, IterateInFlight
  <2>3. s \in SocketType
    <3>1. socks'[p] = s
      BY <2>1 DEF PeersOK
    <3> QED BY <1>1, <3>1
  <2> HIDE DEF s
  <2>4. Carried(socks[p], o, s, o)
    BY <2>2 DEF Carried
  <2>5. Carried(o, socks[p], o, s)
    BY <1>1, <2>2, <2>3, PutsCarried
  <2> QED BY <2>1, <2>4, <2>5, OneCarries
<1>9. ASSUME NEW p \in Peer, socks' = [socks EXCEPT ![p] = TcpUnconnected(socks[p])]
      PROVE  Carrying
  <2> DEFINE s == TcpUnconnected(socks[p])
  <2>1. Drops(socks[p], s) /\ s.emitted = socks[p].emitted
    BY <1>1, UnconnectedDrops
  <2>2. socks' = [socks EXCEPT ![p] = s]
    BY <1>9
  <2> HIDE DEF s
  <2>3. Carried(socks[p], socks[Other(p)], s, socks[Other(p)]) /\ Carried(socks[Other(p)], socks[p], socks[Other(p)], s)
    BY <1>1, <2>1, DropsCarried
  <2> QED BY <2>2, <2>3, OneCarries
<1>10. ASSUME NEW p \in Peer, TcpFlushed(p)
       PROVE  Carrying
  BY <1>9, <1>10 DEF TcpFlushed
<1>11. ASSUME NEW p \in Peer, TcpHangsUp(p)
       PROVE  Carrying
  <2> DEFINE s == TcpClosing(socks[p])
  <2>1. /\ socks[p].tcp = "Connected" /\ socks[Other(p)].tcp = "Unconnected"
        /\ socks' = [socks EXCEPT ![p] = s]
    BY <1>11 DEF TcpHangsUp
  <2>2. Carried(socks[p], socks[Other(p)], s, socks[Other(p)]) /\ Carried(socks[Other(p)], socks[p], socks[Other(p)], s)
    BY <1>1, <2>1, TcpClosingCarried
  <2> HIDE DEF s
  <2> QED BY <2>1, <2>2, OneCarries
<1>12. ASSUME NEW p \in Peer, TcpBreaks(p)
       PROVE  Carrying
  BY <1>9, <1>12 DEF TcpBreaks
<1>13. ASSUME UNCHANGED vars
       PROVE  Carrying
  <2>1. socks' = socks
    BY <1>13 DEF vars
  <2>2. ASSUME NEW p \in Peer
        PROVE  Carried(socks[p], socks[Other(p)], socks'[p], socks'[Other(p)])
    BY <1>1, <2>1 DEF Carried
  <2> QED BY <2>2 DEF Carrying
<1> QED
  BY <1>3, <1>4, <1>5, <1>6, <1>7, <1>8, <1>10, <1>11, <1>12, <1>13 DEF Next

\* Whatever is written, cut and dropped, what is under way in either direction is
\* a stream of frames that the reader has got to some point of, with the messages
\* that are still to be reported (173-201, 351-501).
THEOREM FlightLasts == Spec => [](PeersOK /\ Flight)
<1>1. Init => PeersOK /\ Flight
  BY InitOK, InitFlies
<1>2. ASSUME PeersOK /\ Flight, [Next]_vars
      PROVE  (PeersOK /\ Flight)'
  <2>1. PeersOK'
    <3>1. Going
      BY <1>2, StepGoes
    <3> QED BY <3>1 DEF Going, PeersOK, Goes
  <2>2. Flight'
    <3>1. Carrying
      BY <1>2, StepCarries
    <3> QED BY <3>1 DEF Carrying, Carried, Flight
  <2> QED BY <2>1, <2>2
<1> QED
  BY <1>1, <1>2, PTL DEF Spec

\* Nothing is reported behind disconnected(), unless the other side has written
\* behind its Close frame (480, 466, 173-201).
THEOREM NothingBehindDisconnected == Spec => NothingAfterDisconnected
<1>1. ASSUME PeersOK, Flight, [Next]_vars
      PROVE  [\A p \in Peer :
                socks[p].ws = "Unconnected" /\ socks[p]'.emitted # socks[p].emitted =>
                  socks[Other(p)].late]_vars
  <2>1. Carrying
    BY <1>1, StepCarries
  <2> QED BY <2>1 DEF Carrying, Carried
<1> QED
  BY FlightLasts, <1>1, PTL DEF Spec, NothingAfterDisconnected

\* What one way of a channel may do in a step.
Conveys(S, R, S2, R2) ==
  \/ S2 = S /\ R2 = R
  \/ R2 = R /\ Len(S2) = Len(S) + 1 /\ SubSeq(S2, 1, Len(S)) = S
  \/ S2 = S /\ Len(R) < Len(S) /\ R2 = Append(R, S[Len(R) + 1])

\* A message more is one that is sent.
LEMMA OneSent ==
  ASSUME NEW S \in Reports, NEW m \in Report, NEW T, T = S \o <<m>>
  PROVE  Len(T) = Len(S) + 1 /\ SubSeq(T, 1, Len(S)) = S
<1>1. T = Append(S, m)
  BY DEF Reports
<1> QED
  BY <1>1 DEF Reports

\* The first of what is still to come is the one that is received.
LEMMA NextReceived ==
  ASSUME NEW R \in Reports, NEW e \in Reports, NEW m \in Report, NEW S, S = (R \o <<m>>) \o e
  PROVE  Len(R) < Len(S) /\ R \o <<m>> = Append(R, S[Len(R) + 1])
<1> DEFINE n == Len(R)
           one == <<m>>
           a == R \o one
           b == a \o e
<1>1. n \in Nat /\ one \in Seq(Report) /\ Len(one) = 1 /\ one[1] = m /\ R \in Seq(Report) /\ e \in Seq(Report)
  BY DEF Reports
<1>2. a = Append(R, m)
  BY <1>1
<1> HIDE DEF one
<1>3. a \in Seq(Report) /\ Len(a) = n + 1 /\ a[n + 1] = m
  BY <1>1, <1>2
<1> HIDE DEF a
<1>4. Len(b) = Len(a) + Len(e) /\ \A i \in 1 .. Len(a) + Len(e) : b[i] = IF i <= Len(a) THEN a[i] ELSE e[i - Len(a)]
  BY <1>1, <1>3, ConcatProperties
<1>5. Len(e) \in Nat
  BY <1>1
<1>6. S = b
  BY DEF a, b, one
<1> HIDE DEF b, n
<1>7. n < Len(b)
  BY <1>1, <1>3, <1>4, <1>5
<1>8. b[n + 1] = a[n + 1]
  BY <1>1, <1>3, <1>4, <1>5
<1>9. S[n + 1] = m /\ n < Len(S)
  BY <1>3, <1>6, <1>7, <1>8
<1> QED
  BY <1>2, <1>9 DEF n, a, one

\* So a step keeps to the channel.
LEMMA CarriedConveys ==
  ASSUME NEW s \in SocketType, NEW w \in SocketType, NEW s2 \in SocketType, NEW w2 \in SocketType,
         Carried(s, w, s2, w2)
  PROVE  Conveys(Only(w.written, Fitting), Only(s.emitted, Reported),
                 Only(w2.written, Fitting), Only(s2.emitted, Reported))
<1> DEFINE S == Only(w.written, Fitting)
           S2 == Only(w2.written, Fitting)
           R == Only(s.emitted, Reported)
           R2 == Only(s2.emitted, Reported)
<1>1. S \in Reports /\ S2 \in Reports /\ R \in Reports /\ R2 \in Reports
  <2>1. /\ s.emitted \in Reports /\ s2.emitted \in Reports
        /\ w.written \in Reports /\ w2.written \in Reports
    BY DEF SocketType
  <2> QED BY <2>1, OnlyType
<1>2. \E e \in Reports : S2 = R2 \o e
  <2>1. PICK e \in Stream, lost \in Bytes : Way(s2, w2, e, lost)
    BY DEF Carried, InFlight
  <2>2. S2 = R2 \o e.messages /\ e.messages \in Reports
    BY <2>1, StreamParts DEF Way
  <2> QED BY <2>2
<1>3. \/ (R2 = R \/ \E m \in Report : R2 = R \o <<m>>) /\ S2 = S
      \/ R2 = R /\ S2 = S
      \/ R2 = R /\ \E m \in Report : S2 = S \o <<m>>
  BY DEF Carried, OneMore
<1> SUFFICES Conveys(S, R, S2, R2)
  OBVIOUS
<1> HIDE DEF S, S2, R, R2
<1>4. CASE R2 = R /\ S2 = S
  BY <1>4 DEF Conveys
<1>5. CASE R2 = R /\ \E m \in Report : S2 = S \o <<m>>
  <2>1. PICK m \in Report : S2 = S \o <<m>>
    BY <1>5
  <2>2. Len(S2) = Len(S) + 1 /\ SubSeq(S2, 1, Len(S)) = S
    BY <1>1, <2>1, OneSent
  <2> QED BY <1>5, <2>2 DEF Conveys
<1>6. CASE (\E m \in Report : R2 = R \o <<m>>) /\ S2 = S
  <2>1. PICK m \in Report : R2 = R \o <<m>>
    BY <1>6
  <2>2. PICK e \in Reports : S2 = R2 \o e
    BY <1>2
  <2>3. S = (R \o <<m>>) \o e
    BY <1>6, <2>1, <2>2
  <2>4. Len(R) < Len(S) /\ R \o <<m>> = Append(R, S[Len(R) + 1])
    BY <1>1, <2>3, NextReceived
  <2> QED BY <1>6, <2>1, <2>4 DEF Conveys
<1> QED
  BY <1>3, <1>4, <1>5, <1>6

\* In both directions, whatever else is going on, messages of one frame arrive in
\* the order in which they were written, each once at most and whole (173-201, 351-501, 612-658).
THEOREM MessagesKeepOrder == Spec => MessagesInOrder
<1>1. Init => ToA!Init /\ ToB!Init
  <2> SUFFICES ASSUME Init PROVE ToA!Init /\ ToB!Init
    OBVIOUS
  <2>1. /\ socks["a"].written = <<>> /\ socks["a"].emitted = <<>>
        /\ socks["b"].written = <<>> /\ socks["b"].emitted = <<>>
    BY DEF Init, NewSocket, Peer
  <2>2. Only(<<>>, Fitting) = <<>> /\ Only(<<>>, Reported) = <<>>
    BY OnlySteps
  <2> QED BY <2>1, <2>2 DEF ToA!Init, ToB!Init, Sent, Received
<1>2. ASSUME PeersOK, Flight, [Next]_vars
      PROVE  /\ [ToA!Next]_<<Sent("b"), Received("a")>>
             /\ [ToB!Next]_<<Sent("a"), Received("b")>>
  <2>1. Other("a") = "b" /\ Other("b") = "a" /\ "a" \in Peer /\ "b" \in Peer
    BY DEF Other, Peer
  <2>2. /\ Carried(socks["a"], socks["b"], socks'["a"], socks'["b"])
        /\ Carried(socks["b"], socks["a"], socks'["b"], socks'["a"])
    BY <1>2, <2>1, StepCarries DEF Carrying
  <2>3. /\ socks["a"] \in SocketType /\ socks["b"] \in SocketType
        /\ socks'["a"] \in SocketType /\ socks'["b"] \in SocketType
    <3>1. Going
      BY <1>2, StepGoes
    <3> QED BY <1>2, <2>1, <3>1 DEF PeersOK, Going
  <2>4. Conveys(Sent("b"), Received("a"), Sent("b")', Received("a")')
    <3>1. Conveys(Only(socks["b"].written, Fitting), Only(socks["a"].emitted, Reported),
                  Only(socks'["b"].written, Fitting), Only(socks'["a"].emitted, Reported))
      BY <2>2, <2>3, CarriedConveys
    <3> QED BY <3>1 DEF Sent, Received
  <2>5. Conveys(Sent("a"), Received("b"), Sent("a")', Received("b")')
    <3>1. Conveys(Only(socks["a"].written, Fitting), Only(socks["b"].emitted, Reported),
                  Only(socks'["a"].written, Fitting), Only(socks'["b"].emitted, Reported))
      BY <2>2, <2>3, CarriedConveys
    <3> QED BY <3>1 DEF Sent, Received
  <2>6. [ToA!Next]_<<Sent("b"), Received("a")>>
    BY <2>4 DEF Conveys, ToA!Next, ToA!Send, ToA!Receive
  <2>7. [ToB!Next]_<<Sent("a"), Received("b")>>
    BY <2>5 DEF Conveys, ToB!Next, ToB!Send, ToB!Receive
  <2> QED BY <2>6, <2>7
<1> QED
  BY FlightLasts, <1>1, <1>2, PTL DEF Spec, MessagesInOrder, ToA!Spec, ToB!Spec

----------------------------------------------------------------------------
(* FrameReader.                                                            *)

CONSTANTS Version, ServerFrame, MaxFrames

VARIABLES sock, wire, frames, arrived, clean, budget

Reader == INSTANCE FrameReader

\* The operators that FrameReader has from WsFrames and WsReader are the ones
\* that FramePeers has.
LEMMA SameOperators ==
  /\ Reader!Byte = Byte /\ Reader!OpContinue = OpContinue /\ Reader!OpText = OpText
  /\ Reader!OpBinary = OpBinary /\ Reader!OpClose = OpClose /\ Reader!OpPing = OpPing
  /\ Reader!OpPong = OpPong /\ Reader!NoCloseStatusCode = NoCloseStatusCode
  /\ Reader!ReadingStates = ReadingStates
  /\ \A seqs : Reader!FlattenSeq(seqs) = FlattenSeq(seqs)
  /\ \A bytes, n : Reader!Behind(bytes, n) = Behind(bytes, n)
  /\ \A data, maskingKey : Reader!Mask(data, maskingKey) = Mask(data, maskingKey)
  /\ \A first, bytes : Reader!Number(first, bytes) = Number(first, bytes)
  /\ \A end, opcode, payloadLength, maskingKey :
       Reader!ComposeHeader(end, opcode, payloadLength, maskingKey)
         = ComposeHeader(end, opcode, payloadLength, maskingKey)
  /\ \A version : Reader!NewSocket(version) = NewSocket(version)
  /\ \A s, closeStatusCode : Reader!Close(s, closeStatusCode) = Close(s, closeStatusCode)
  /\ \A s : Reader!TcpUnconnected(s) = TcpUnconnected(s)
  /\ \A current : Reader!Iterate(current) = Iterate(current)
  /\ \A s, bytes : Reader!Receive(s, bytes) = Receive(s, bytes)
<1>1. /\ Reader!Byte = Byte /\ Reader!OpContinue = OpContinue /\ Reader!OpText = OpText
      /\ Reader!OpBinary = OpBinary /\ Reader!OpClose = OpClose /\ Reader!OpPing = OpPing
      /\ Reader!OpPong = OpPong /\ Reader!Weight = Weight /\ Reader!NoCloseStatusCode = NoCloseStatusCode
      /\ Reader!ReadingStates = ReadingStates
  BY DEF Reader!Byte, Byte, Reader!OpContinue, OpContinue, Reader!OpText, OpText,
         Reader!OpBinary, OpBinary, Reader!OpClose, OpClose, Reader!OpPing, OpPing,
         Reader!OpPong, OpPong, Reader!Weight, Weight, Reader!NoCloseStatusCode, NoCloseStatusCode,
         Reader!ReadingStates, ReadingStates
<1>2. \A seqs : Reader!FlattenSeq(seqs) = FlattenSeq(seqs)
  BY Zenon DEF Reader!FlattenSeq, FlattenSeq
<1>3. \A S : Reader!Min(S) = Min(S)
  BY Zenon DEF Reader!Min, Min
<1>4. \A bytes, n : Reader!Behind(bytes, n) = Behind(bytes, n)
  BY DEF Reader!Behind, Behind
<1>5. \A number, nbBytes : Reader!SerializeInt(number, nbBytes) = SerializeInt(number, nbBytes)
  BY <1>1 DEF Reader!SerializeInt, SerializeInt
<1>6. \A a, b : Reader!Xor(a, b) = Xor(a, b)
  BY DEF Reader!Xor, Xor
<1>7. \A data, maskingKey : Reader!Mask(data, maskingKey) = Mask(data, maskingKey)
  <2> TAKE data, maskingKey
  <2>1. \A i \in DOMAIN data : Reader!Xor(data[i], maskingKey[((i - 1) % 4) + 1])
                               = Xor(data[i], maskingKey[((i - 1) % 4) + 1])
    BY <1>6, Zenon
  <2> QED BY <2>1, Zenon DEF Reader!Mask, Mask
<1>8. \A end, opcode, payloadLength, maskingKey :
        Reader!ComposeHeader(end, opcode, payloadLength, maskingKey)
          = ComposeHeader(end, opcode, payloadLength, maskingKey)
  <2> TAKE end, opcode, payloadLength, maskingKey
  <2>1. Reader!SerializeInt(payloadLength, 2) = SerializeInt(payloadLength, 2)
        /\ Reader!SerializeInt(payloadLength, 4) = SerializeInt(payloadLength, 4)
    BY <1>5
  <2> DEFINE mask == IF Len(maskingKey) = 4 THEN 128 ELSE 0
             size == IF payloadLength <= 125 THEN <<mask + payloadLength>>
                     ELSE IF payloadLength <= 65535 THEN <<mask + 126>> \o SerializeInt(payloadLength, 2)
                     ELSE <<mask + 127, 0, 0, 0, 0>> \o SerializeInt(payloadLength, 4)
             other == IF payloadLength <= 125 THEN <<mask + payloadLength>>
                      ELSE IF payloadLength <= 65535 THEN <<mask + 126>> \o Reader!SerializeInt(payloadLength, 2)
                      ELSE <<mask + 127, 0, 0, 0, 0>> \o Reader!SerializeInt(payloadLength, 4)
             first == <<(IF end THEN 128 ELSE 0) + opcode>>
  <2>2. size = other
    BY <2>1
  <2>3. ComposeHeader(end, opcode, payloadLength, maskingKey) = first \o size \o maskingKey
    BY DEF ComposeHeader
  <2>4. Reader!ComposeHeader(end, opcode, payloadLength, maskingKey) = first \o other \o maskingKey
    BY DEF Reader!ComposeHeader
  <2> HIDE DEF size, other, first
  <2> QED BY <2>2, <2>3, <2>4
<1>9. \A size : Reader!FramesOf(size) = FramesOf(size)
  BY DEF Reader!FramesOf, FramesOf
<1>10. \A byteArray, asBinary :
         Reader!ComposeFrames(byteArray, asBinary) = ComposeFrames(byteArray, asBinary)
  BY <1>1, <1>8, <1>9, ZenonT(60) DEF Reader!ComposeFrames, ComposeFrames
<1>11. \A byteArray : Reader!TextFrameV0(byteArray) = TextFrameV0(byteArray)
  BY DEF Reader!TextFrameV0, TextFrameV0
<1>12. \A version, closeStatusCode :
         Reader!CloseFrame(version, closeStatusCode) = CloseFrame(version, closeStatusCode)
  BY <1>1, <1>5, <1>8 DEF Reader!CloseFrame, CloseFrame
<1>13. \A n : Reader!Short(n) = Short(n)
  BY DEF Reader!Short, Short
<1>14. \A version : Reader!NewSocket(version) = NewSocket(version)
  BY <1>1, <1>13 DEF Reader!NewSocket, NewSocket
<1>15. \A s, bytes : Reader!Send(s, bytes) = Send(s, bytes)
  BY DEF Reader!Send, Send
<1>16. \A s, message, asBinary : Reader!Write(s, message, asBinary) = Write(s, message, asBinary)
  BY <1>2, <1>10, <1>11, <1>15 DEF Reader!Write, Write
<1>17. \A s : Reader!Disconnect(s) = Disconnect(s)
  BY DEF Reader!Disconnect, Disconnect
<1>18. \A s, closeStatusCode : Reader!SendClose(s, closeStatusCode) = SendClose(s, closeStatusCode)
  BY <1>12, <1>15 DEF Reader!SendClose, SendClose
<1>19. \A s, closeStatusCode : Reader!Close(s, closeStatusCode) = Close(s, closeStatusCode)
  <2> TAKE s, closeStatusCode
  <2> DEFINE c == [SendClose(s, closeStatusCode) EXCEPT !.ws = "Closing"]
             d == [c EXCEPT !.ws = "Unconnected", !.disconnects = @ + 1, !.slot = TRUE]
  <2>1. Reader!SendClose(s, closeStatusCode) = SendClose(s, closeStatusCode)
    BY <1>18
  <2>2. Reader!Disconnect(d) = Disconnect(d)
    BY <1>17
  <2> QED BY <2>1, <2>2, Zenon DEF Reader!Close, Close
<1>20. \A s : Reader!TcpUnconnected(s) = TcpUnconnected(s)
  BY DEF Reader!TcpUnconnected, TcpUnconnected
<1>21. \A s : Reader!Needed(s) = Needed(s)
  BY DEF Reader!Needed, Needed
<1>22. \A s : Reader!ReadHeader(s) = ReadHeader(s)
  BY <1>4, <1>13 DEF Reader!ReadHeader, ReadHeader
<1>23. \A s : Reader!ReadLength(s) = ReadLength(s)
  BY <1>4, <1>13 DEF Reader!ReadLength, ReadLength
<1>24. \A first, bytes : Reader!Number(first, bytes) = Number(first, bytes)
  BY DEF Reader!Number, Number
<1>25. \A s : Reader!ReadBigLength(s) = ReadBigLength(s)
  BY <1>4, <1>24 DEF Reader!ReadBigLength, ReadBigLength
<1>26. \A s : Reader!ReadMask(s) = ReadMask(s)
  BY <1>1, <1>4 DEF Reader!ReadMask, ReadMask
<1>27. \A s, signal, data : Reader!Emit(s, signal, data) = Emit(s, signal, data)
  BY DEF Reader!Emit, Emit
<1>28. \A s : Reader!Dispatch(s) = Dispatch(s)
  BY <1>1, <1>8, <1>16, <1>19, <1>27 DEF Reader!Dispatch, Dispatch
<1>29. \A s : Reader!ReadStatusCode(s) = ReadStatusCode(s)
  BY <1>1, <1>4, <1>13 DEF Reader!ReadStatusCode, ReadStatusCode
<1>30. \A s : Reader!TakenOf(s) = TakenOf(s)
  BY DEF Reader!TakenOf, TakenOf
<1>31. \A s : Reader!Payload(s) = Payload(s)
  BY <1>4, <1>7, <1>30 DEF Reader!Payload, Payload
<1>32. \A s : Reader!ReadBody(s) = ReadBody(s)
  BY <1>28, <1>29, <1>31 DEF Reader!ReadBody, ReadBody
<1>33. \A s : Reader!Return(s) = Return(s)
  BY DEF Reader!Return, Return
<1>34. \A s : Reader!BodyIfThere(s) = BodyIfThere(s)
  BY <1>32, <1>33 DEF Reader!BodyIfThere, BodyIfThere
<1>35. \A s : Reader!IterateV4(s) = IterateV4(s)
  <2> TAKE s
  <2>1. /\ Reader!Needed(s) = Needed(s) /\ Reader!ReadHeader(s) = ReadHeader(s)
        /\ Reader!ReadLength(s) = ReadLength(s) /\ Reader!ReadBigLength(s) = ReadBigLength(s)
        /\ Reader!ReadBody(s) = ReadBody(s) /\ Reader!Return(s) = Return(s)
    BY <1>21, <1>22, <1>23, <1>25, <1>32, <1>33
  <2>2. Reader!BodyIfThere(Reader!ReadMask(s)) = BodyIfThere(ReadMask(s))
    BY <1>26, <1>34
  <2> QED BY <2>1, <2>2 DEF Reader!IterateV4, IterateV4
<1>36. \A s : Reader!ReportV0(s) = ReportV0(s)
  BY <1>27 DEF Reader!ReportV0, ReportV0
<1>37. \A s : Reader!ReadTextV0(s) = ReadTextV0(s)
  BY <1>3, <1>4, <1>36 DEF Reader!ReadTextV0, ReadTextV0
<1>38. \A digits : Reader!LengthV0(digits) = LengthV0(digits)
  BY Zenon DEF Reader!LengthV0, LengthV0, Reader!FoldLeft, FoldLeft,
         Reader!MapThenFoldSet, MapThenFoldSet, Reader!Max, Max
<1>39. \A s : Reader!DiscardV0(s) = DiscardV0(s)
  BY <1>3, <1>4, <1>36, <1>38 DEF Reader!DiscardV0, DiscardV0
<1>40. \A s : Reader!IterateV0(s) = IterateV0(s)
  <2> TAKE s
  <2> DEFINE rest == [s EXCEPT !.buffer = Behind(@, 1)]
             none == [s EXCEPT !.buffer = <<>>]
  <2>1. /\ Reader!Return(s) = Return(s) /\ Reader!Return(none) = Return(none)
        /\ Reader!ReadTextV0(s) = ReadTextV0(s) /\ Reader!DiscardV0(s) = DiscardV0(s)
    BY <1>33, <1>37, <1>39
  <2>2. Reader!Return(Reader!Close(rest, Reader!NoCloseStatusCode)) = Return(Close(rest, NoCloseStatusCode))
    BY <1>1, <1>19, <1>33
  <2>3. [s EXCEPT !.buffer = Reader!Behind(@, 1)] = rest
    BY <1>4
  <2> QED BY <2>1, <2>2, <2>3 DEF Reader!IterateV0, IterateV0
<1>41. \A current : Reader!Iterate(current) = Iterate(current)
  BY <1>35, <1>40 DEF Reader!Iterate, Iterate
<1>42. \A s, bytes : Reader!Receive(s, bytes) = Receive(s, bytes)
  BY DEF Reader!Receive, Receive
<1> QED
  BY <1>1, <1>2, <1>4, <1>7, <1>8, <1>14, <1>19, <1>20, <1>24, <1>41, <1>42, Zenon

----------------------------------------------------------------------------
(* The reader of version 0.                                                *)

\* The digit b behind the number n.
SevenBits(n, b) == IF b = 0 THEN n ELSE (128 * n + (b % 128)) % 256

\* What the digits keep, the length of version 0 keeps.
LEMMA LengthV0Stays ==
  ASSUME NEW D, NEW E, 0 \in D, \A n \in D, b \in E : SevenBits(n, b) \in D,
         NEW digits \in Seq(E)
  PROVE  LengthV0(digits) \in D
<1> DEFINE n == Len(digits)
           Is(it) == it = [s \in SUBSET (DOMAIN digits) |->
                             IF s = {} THEN 0
                             ELSE LET x == Max(s)
                                  IN  SevenBits(it[s \ {x}], digits[x])]
           it == CHOOSE f : Is(f)
           h == [p \in D \X E |-> SevenBits(p[1], p[2])]
<1>1. n \in Nat /\ DOMAIN digits = 1 .. n /\ \A i \in 1 .. n : digits[i] \in E
  OBVIOUS
<1>2. LengthV0(digits) = it[DOMAIN digits]
  BY Zenon DEF LengthV0, FoldLeft, MapThenFoldSet, SevenBits
<1>3. h \in [D \X E -> D] /\ \A k \in D, c \in E : h[<<k, c>>] = SevenBits(k, c)
  OBVIOUS
<1> HIDE DEF h
<1>4. IsFold(D, E, 0, digits, h)
  BY <1>3 DEF IsFold
<1>5. PICK f : Folds(f, D, 0, digits, h)
  BY <1>4, FoldExists
<1>6. Is(f)
  <2>1. f \in [SUBSET (1 .. n) -> D] /\ \A s \in SUBSET (1 .. n) : s = {} => f[s] = 0
    BY <1>5 DEF Folds
  <2>2. ASSUME NEW s \in SUBSET (1 .. n), s # {}
        PROVE  f[s] = SevenBits(f[s \ {Max(s)}], digits[Max(s)])
    <3>1. Max(s) \in 1 .. n
      BY <1>1, <2>2, GreatestMember
    <3>2. f[s \ {Max(s)}] \in D /\ digits[Max(s)] \in E
      BY <1>1, <2>1, <3>1
    <3>3. f[s] = h[<<f[s \ {Max(s)}], digits[Max(s)]>>]
      BY <1>5, <2>2 DEF Folds
    <3> QED BY <1>3, <3>2, <3>3
  <2> QED BY <1>1, <2>1, <2>2, Zenon
<1>7. Is(it)
  <2> HIDE DEF Is
  <2> QED BY <1>6
<1> HIDE DEF it
<1>8. Loops(it, D, 0, digits, h)
  <2>1. it[{}] = 0
    BY <1>7
  <2>2. ASSUME NEW s \in SUBSET (1 .. n), s # {}, it[s \ {Max(s)}] \in D
        PROVE  it[s] = h[<<it[s \ {Max(s)}], digits[Max(s)]>>]
    <3>1. it[s] = SevenBits(it[s \ {Max(s)}], digits[Max(s)])
      BY <1>1, <1>7, <2>2, Zenon
    <3>2. digits[Max(s)] \in E
      BY <1>1, <2>2, GreatestMember
    <3> QED BY <1>3, <2>2, <3>1, <3>2
  <2> QED BY <2>1, <2>2 DEF Loops
<1>9. PICK F : Runs(F, D, 0, digits, h) /\ F[n] = it[1 .. n]
  BY <1>4, <1>8, FoldRuns
<1>10. F[n] \in D
  BY <1>1, <1>9 DEF Runs
<1> QED BY <1>1, <1>2, <1>9, <1>10

\* It is a number, and 0 without a digit that counts.
LEMMA LengthV0Type ==
  /\ \A digits \in Bytes : LengthV0(digits) \in Nat
  /\ \A digits \in Seq({0}) : LengthV0(digits) = 0
<1>1. \A n \in Nat, b \in Byte : SevenBits(n, b) \in Nat
  BY DEF SevenBits, Byte
<1>2. \A n \in {0}, b \in {0} : SevenBits(n, b) \in {0}
  BY DEF SevenBits
<1>3. ASSUME NEW digits \in Bytes
      PROVE  LengthV0(digits) \in Nat
  <2>1. digits \in Seq(Byte) /\ 0 \in Nat
    BY DEF Bytes
  <2> QED BY <1>1, <2>1, LengthV0Stays
<1>4. ASSUME NEW digits \in Seq({0})
      PROVE  LengthV0(digits) = 0
  <2>1. 0 \in {0}
    OBVIOUS
  <2>2. LengthV0(digits) \in {0}
    BY <1>2, <2>1, LengthV0Stays
  <2> QED BY <2>2
<1> QED
  BY <1>3, <1>4

\* A report, unless there is nothing to report.
LEMMA ReportV0Step ==
  ASSUME NEW s \in SocketType
  PROVE  LET t == ReportV0(s)
         IN  /\ t \in SocketType /\ SameLife(s, t) /\ SameReading(s, t)
             /\ t.frame = <<>> /\ t.written = s.written
             /\ t.emitted = IF s.frame = <<>> THEN s.emitted
                            ELSE Append(s.emitted, [kind |-> "text", data |-> s.frame])
<1> DEFINE none == <<>>
           e == Emit(s, "text", s.frame)
           t == [e EXCEPT !.frame = none]
<1>1. CASE s.frame = <<>>
  BY <1>1 DEF ReportV0, SameLife, SameReading
<1>2. CASE s.frame # <<>>
  <2>1. ReportV0(s) = t
    BY <1>2 DEF ReportV0
  <2>2. e \in SocketType /\ SameLife(s, e) /\ SameReading(s, e)
    <3>1. "text" \in {"text", "binary", "pong"} /\ s.frame \in Bytes
      BY DEF SocketType
    <3> QED BY <3>1, EmitStep
  <2>3. e.written = s.written /\ e.emitted = Append(s.emitted, [kind |-> "text", data |-> s.frame])
    BY DEF Emit, SocketType
  <2>4. none \in Bytes
    BY NoByte
  <2> HIDE DEF e, none
  <2>5. /\ t \in SocketType /\ SameLife(e, t) /\ SameReading(e, t)
        /\ t.frame = none /\ t.written = e.written /\ t.emitted = e.emitted
    BY <2>2, <2>4 DEF SocketType, SameLife, SameReading
  <2> HIDE DEF t
  <2> QED BY <1>2, <2>1, <2>2, <2>3, <2>5 DEF SameLife, SameReading, none
<1> QED
  BY <1>1, <1>2

\* A text, up to its end.
TextTaken(s, n) ==
  [s EXCEPT !.frame = s.frame \o SubSeq(s.buffer, 2, n - 1), !.buffer = Behind(s.buffer, n)]

\* It leaves a socket.
LEMMA TextTakenType ==
  ASSUME NEW s \in SocketType, NEW n \in 1 .. Len(s.buffer)
  PROVE  LET t == TextTaken(s, n)
         IN  /\ t \in SocketType /\ SameLife(s, t) /\ t.running = s.running
             /\ t.readingState = s.readingState
             /\ t.frame = s.frame \o SubSeq(s.buffer, 2, n - 1) /\ t.buffer = Behind(s.buffer, n)
             /\ t.written = s.written /\ t.emitted = s.emitted
<1> DEFINE frame == s.frame \o SubSeq(s.buffer, 2, n - 1)
           buffer == Behind(s.buffer, n)
<1>1. s.buffer \in Bytes /\ s.frame \in Bytes /\ n \in Nat /\ n - 1 \in Int /\ n - 1 <= Len(s.buffer)
  <2>1. s.buffer \in Bytes /\ s.frame \in Bytes
    BY DEF SocketType
  <2> QED BY <2>1, LengthIsNat
<1>2. frame \in Bytes /\ buffer \in Bytes
  <2>1. 2 \in Nat \ {0}
    OBVIOUS
  <2>2. SubSeq(s.buffer, 2, n - 1) \in Bytes
    BY <1>1, <2>1, BytesCut
  <2> QED BY <1>1, <2>2, BytesJoined, BytesBehind
<1>3. TextTaken(s, n) = [s EXCEPT !.frame = frame, !.buffer = buffer]
  BY DEF TextTaken
<1> HIDE DEF frame, buffer
<1>4. LET t == [s EXCEPT !.frame = frame, !.buffer = buffer]
      IN  /\ t \in SocketType /\ SameLife(s, t) /\ t.running = s.running
          /\ t.readingState = s.readingState
          /\ t.frame = frame /\ t.buffer = buffer
          /\ t.written = s.written /\ t.emitted = s.emitted
  BY <1>2 DEF SocketType, SameLife
<1> QED
  BY <1>3, <1>4 DEF frame, buffer

\* A text is read when its end is there, and nothing happens before.
LEMMA ReadTextV0Step ==
  ASSUME NEW s \in SocketType
  PROVE  \/ (\A i \in 1 .. Len(s.buffer) : s.buffer[i] # 255) /\ ReadTextV0(s) = s
         \/ \E n \in 1 .. Len(s.buffer) :
              /\ s.buffer[n] = 255 /\ \A i \in 1 .. n - 1 : s.buffer[i] # 255
              /\ ReadTextV0(s) = ReportV0(TextTaken(s, n))
<1> DEFINE ends == {i \in DOMAIN s.buffer : s.buffer[i] = 255}
           n == Min(ends)
<1>1. Len(s.buffer) \in Nat /\ DOMAIN s.buffer = 1 .. Len(s.buffer)
  BY LengthIsNat DEF SocketType, Bytes
<1>2. CASE ends = {}
  <2>1. ReadTextV0(s) = s
    BY <1>2 DEF ReadTextV0
  <2>2. \A i \in 1 .. Len(s.buffer) : s.buffer[i] # 255
    BY <1>1, <1>2
  <2> QED BY <2>1, <2>2
<1>3. CASE ends # {}
  <2>1. ends \subseteq Nat
    BY <1>1
  <2>2. n \in ends /\ \A y \in ends : n <= y
    <3> HIDE DEF ends
    <3> QED BY <1>3, <2>1, LeastOf
  <2>3. ReadTextV0(s) = ReportV0(TextTaken(s, n))
    BY <1>3, Zenon DEF ReadTextV0, TextTaken
  <2> HIDE DEF n
  <2>4. n \in 1 .. Len(s.buffer) /\ s.buffer[n] = 255
    BY <1>1, <2>2
  <2>5. \A i \in 1 .. n - 1 : s.buffer[i] # 255
    <3> TAKE i \in 1 .. n - 1
    <3>1. i \in 1 .. Len(s.buffer) /\ ~(n <= i)
      BY <1>1, <2>4
    <3> QED BY <1>1, <2>2, <3>1
  <2> QED BY <2>3, <2>4, <2>5
<1> QED
  BY <1>2, <1>3

\* A Close frame takes its length off what has arrived.
LEMMA DiscardV0Step ==
  ASSUME NEW s \in SocketType, Len(s.buffer) > 0
  PROVE  \E n \in Nat :
           /\ DiscardV0(s) = ReportV0([s EXCEPT !.buffer = Behind(s.buffer, n)])
           /\ (Len(s.buffer) = 1 \/ (Len(s.buffer) = 2 /\ s.buffer[2] = 0)) => n = Len(s.buffer)
<1> DEFINE l == Len(s.buffer)
           T == {i \in 2 .. l : s.buffer[i] < 128} \cup {l}
           last == Min(T)
           digits == SubSeq(s.buffer, 2, last)
           n == last + LengthV0(digits)
<1>1. s.buffer \in Bytes /\ l \in Nat /\ l > 0
  BY LengthIsNat DEF SocketType
<1> HIDE DEF l
<1>2. last \in T /\ \A y \in T : last <= y
  <2>1. T \subseteq Nat /\ T # {}
    BY <1>1
  <2> HIDE DEF T
  <2> QED BY <2>1, LeastOf
<1>3. DiscardV0(s) = ReportV0([s EXCEPT !.buffer = Behind(s.buffer, n)])
  BY Zenon DEF DiscardV0, l
<1> HIDE DEF last
<1>4. last \in Nat /\ last <= l
  BY <1>1, <1>2
<1>5. digits \in Bytes
  <2>1. 2 \in Nat \ {0} /\ last \in Int /\ last <= Len(s.buffer)
    BY <1>4 DEF l
  <2> QED BY <1>1, <2>1, BytesCut
<1> HIDE DEF digits
<1>6. n \in Nat
  BY <1>4, <1>5, LengthV0Type
<1>7. ASSUME l = 1 \/ (l = 2 /\ s.buffer[2] = 0)
      PROVE  n = l
  <2>1. last = l
    BY <1>1, <1>2, <1>7
  <2>2. digits \in Seq({0})
    <3> DEFINE b == s.buffer
    <3>1. b \in Seq(Byte) /\ Len(b) = l
      BY <1>1 DEF Bytes, l
    <3>2. digits = SubSeq(b, 2, l)
      BY <2>1 DEF digits
    <3> HIDE DEF b
    <3>3. CASE l = 1
      <4>1. digits = <<>>
        BY <3>1, <3>2, <3>3
      <4> QED BY <4>1
    <3>4. CASE l = 2 /\ b[2] = 0
      <4> DEFINE c == SubSeq(b, 2, 2)
      <4>1. c \in Seq(Byte) /\ Len(c) = 1 /\ \A i \in 1 .. 1 : c[i] = b[2 + i - 1]
        BY <3>1, <3>4
      <4>2. c[1] = 0
        BY <3>4, <4>1
      <4> HIDE DEF c
      <4>3. c \in Seq({0})
        <5>1. \A i \in 1 .. Len(c) : c[i] \in {0}
          BY <4>1, <4>2
        <5> QED BY <4>1, <5>1
      <4> QED BY <3>2, <3>4, <4>3 DEF c
    <3> QED BY <1>7, <3>3, <3>4 DEF b
  <2>3. LengthV0(digits) = 0
    BY <2>2, LengthV0Type
  <2> QED BY <1>4, <2>1, <2>3
<1> HIDE DEF n
<1> QED
  BY <1>3, <1>6, <1>7 DEF l

\* Something less in the buffer is still a socket.
LEMMA BufferTaken ==
  ASSUME NEW s \in SocketType, NEW n \in Nat
  PROVE  LET t == [s EXCEPT !.buffer = Behind(s.buffer, n)]
         IN  /\ ReadOn(s, t) /\ t.buffer = Behind(s.buffer, n) /\ t.readingState = s.readingState
             /\ t.frame = s.frame /\ t.emitted = s.emitted /\ t.written = s.written
<1> DEFINE buffer == Behind(s.buffer, n)
<1>1. buffer \in Bytes
  BY BytesBehind DEF SocketType
<1> HIDE DEF buffer
<1>2. LET t == [s EXCEPT !.buffer = buffer]
      IN  /\ ReadOn(s, t) /\ t.buffer = buffer /\ t.readingState = s.readingState
          /\ t.frame = s.frame /\ t.emitted = s.emitted /\ t.written = s.written
  BY <1>1 DEF ReadOn, SocketType, SameLife
<1> QED
  BY <1>2 DEF buffer

\* The start of an iteration.
LEMMA Started ==
  ASSUME NEW s \in SocketType
  PROVE  LET t == [s EXCEPT !.slot = FALSE]
         IN  /\ t \in SocketType /\ SameLife(s, t) /\ SameReading(s, t) /\ SameMessages(s, t)
             /\ t.final = s.final /\ t.opcode = s.opcode /\ t.hasMask = s.hasMask
             /\ t.length = s.length /\ t.key = s.key
             /\ Iterate(s) = IF s.version = 0 THEN IterateV0(t) ELSE IterateV4(t)
BY DEF SocketType, SameLife, SameReading, SameMessages, Iterate

\* One call of processDataV0() leaves a socket of the same version.
LEMMA IterateV0Type ==
  ASSUME NEW s \in SocketType
  PROVE  /\ IterateV0(s) \in SocketType /\ IterateV0(s).version = s.version
         /\ s.tcp # "Unconnected" => IterateV0(s).tcp # "Unconnected"
<1>1. s.buffer \in Bytes /\ Len(s.buffer) \in Nat
  BY LengthIsNat DEF SocketType
<1>2. CASE s.buffer = <<>>
  BY <1>2, ReturnStep DEF IterateV0, SameLife
<1>3. CASE s.buffer # <<>> /\ s.buffer[1] = 0
  <2>1. IterateV0(s) = ReadTextV0(s)
    BY <1>3 DEF IterateV0
  <2>2. CASE ReadTextV0(s) = s
    BY <2>1, <2>2
  <2>3. CASE ReadTextV0(s) # s
    <3>1. PICK n \in 1 .. Len(s.buffer) : ReadTextV0(s) = ReportV0(TextTaken(s, n))
      BY <2>3, ReadTextV0Step
    <3> DEFINE t == TextTaken(s, n)
    <3>2. t \in SocketType /\ SameLife(s, t)
      BY TextTakenType
    <3> HIDE DEF t
    <3>3. ReportV0(t) \in SocketType /\ SameLife(t, ReportV0(t))
      BY <3>2, ReportV0Step
    <3> QED BY <2>1, <3>1, <3>2, <3>3 DEF SameLife, t
  <2> QED BY <2>2, <2>3
<1>4. CASE s.buffer # <<>> /\ s.buffer[1] \in 1 .. 127
  <2> DEFINE none == <<>>
             t == [s EXCEPT !.buffer = none]
  <2>0. \A b \in 1 .. 127 : b # 0 /\ b # 255
    OBVIOUS
  <2>1. IterateV0(s) = Return(t)
    BY <1>4, <2>0 DEF IterateV0
  <2>2. none \in Bytes
    BY NoByte
  <2> HIDE DEF none
  <2>3. t \in SocketType /\ SameLife(s, t)
    BY <2>2 DEF SocketType, SameLife
  <2> HIDE DEF t
  <2>4. Return(t) \in SocketType /\ SameLife(t, Return(t))
    BY <2>3, ReturnStep
  <2> QED BY <2>1, <2>3, <2>4 DEF SameLife
<1>5. CASE s.buffer # <<>> /\ s.buffer[1] = 255
  <2>1. IterateV0(s) = DiscardV0(s)
    BY <1>5 DEF IterateV0
  <2>2. Len(s.buffer) > 0
    BY <1>1, <1>5, EmptySeq DEF Bytes
  <2>3. PICK n \in Nat : DiscardV0(s) = ReportV0([s EXCEPT !.buffer = Behind(s.buffer, n)])
    BY <2>2, DiscardV0Step
  <2> DEFINE t == [s EXCEPT !.buffer = Behind(s.buffer, n)]
  <2>4. t \in SocketType /\ SameLife(s, t)
    BY BufferTaken DEF ReadOn
  <2> HIDE DEF t
  <2>5. ReportV0(t) \in SocketType /\ SameLife(t, ReportV0(t))
    BY <2>4, ReportV0Step
  <2> QED BY <2>1, <2>3, <2>4, <2>5 DEF SameLife, t
<1>6. CASE s.buffer # <<>> /\ s.buffer[1] \notin 0 .. 127 /\ s.buffer[1] # 255
  <2> DEFINE t == [s EXCEPT !.buffer = Behind(s.buffer, 1)]
             c == Close(t, NoCloseStatusCode)
  <2>1. IterateV0(s) = Return(c)
    BY <1>6 DEF IterateV0
  <2>2. t \in SocketType /\ SameLife(s, t)
    BY BufferTaken DEF ReadOn
  <2> HIDE DEF t
  <2>3. c \in SocketType /\ ClosedLife(t, c)
    <3>1. NoCloseStatusCode \in Nat
      BY DEF NoCloseStatusCode
    <3> QED BY <2>2, <3>1, CloseStep
  <2> HIDE DEF c
  <2>4. Return(c) \in SocketType /\ SameLife(c, Return(c))
    BY <2>3, ReturnStep
  <2> QED BY <2>1, <2>2, <2>3, <2>4 DEF SameLife, ClosedLife
<1>7. s.buffer # <<>> => s.buffer[1] \in Byte
  BY <1>1 DEF Bytes
<1> QED
  BY <1>2, <1>3, <1>4, <1>5, <1>6, <1>7 DEF Byte

\* The reader changes neither the version nor, down to the end, the connection.
LEMMA ReadLifeKeeps ==
  ASSUME NEW s \in SocketType, NEW t, ReadLife(s, t)
  PROVE  t.version = s.version /\ (s.tcp # "Unconnected" => t.tcp # "Unconnected")
<1>1. CASE SameLife(s, t)
  BY <1>1 DEF SameLife
<1>2. CASE ~SameLife(s, t)
  <2> DEFINE r == [s EXCEPT !.received = TRUE]
  <2>1. PICK c \in SocketType : SameLife(r, c) /\ ClosedLife(c, t)
    BY <1>2 DEF ReadLife
  <2>2. r.version = s.version /\ r.tcp = s.tcp
    BY DEF SocketType
  <2> HIDE DEF r
  <2>3. c.version = s.version /\ c.tcp = s.tcp /\ t.version = c.version
    BY <2>1, <2>2 DEF SameLife, ClosedLife
  <2>4. t.tcp = c.tcp \/ t.tcp = "Closing"
    BY <2>1 DEF SameLife, ClosedLife
  <2> QED BY <2>3, <2>4
<1> QED
  BY <1>1, <1>2

\* One iteration of either reader leaves a socket, and the version and the
\* connection as they are.
LEMMA IterateType ==
  ASSUME NEW s \in SocketType, s.running = TRUE
  PROVE  /\ Iterate(s) \in SocketType /\ Iterate(s).version = s.version
         /\ s.tcp # "Unconnected" => Iterate(s).tcp # "Unconnected"
<1>1. CASE s.version = 0
  <2> DEFINE t == [s EXCEPT !.slot = FALSE]
  <2>1. t \in SocketType /\ SameLife(s, t) /\ Iterate(s) = IterateV0(t)
    BY <1>1, Started
  <2> HIDE DEF t
  <2> QED BY <2>1, IterateV0Type DEF SameLife
<1>2. CASE s.version # 0
  <2> DEFINE t == Iterate(s)
  <2>1. t \in SocketType /\ ReadLife(s, t)
    BY <1>2, IterateStep DEF Iterated
  <2> HIDE DEF t
  <2> QED BY <2>1, ReadLifeKeeps DEF t
<1> QED
  BY <1>1, <1>2

----------------------------------------------------------------------------
(* Masks.                                                                  *)

\* The number with these bits.
Eight(b) == b[1] + 2 * b[2] + 4 * b[3] + 8 * b[4] + 16 * b[5] + 32 * b[6] + 64 * b[7] + 128 * b[8]

\* A byte has eight bits.
LEMMA EightBits == \A a \in Byte : \E b \in [1 .. 8 -> {0, 1}] : a = Eight(b)
<1> TAKE a \in Byte
<1>1. a \in 0 .. 255
  BY DEF Byte
<1>2. PICK h1 \in 0 .. 127, l1 \in {0, 1} : a = l1 + 2 * h1
  <2>1. a \div 2 \in 0 .. 127 /\ a % 2 \in {0, 1} /\ a = (a % 2) + 2 * (a \div 2)
    BY <1>1
  <2> QED BY <2>1
<1>3. PICK h2 \in 0 .. 63, l2 \in {0, 1} : h1 = l2 + 2 * h2
  <2>1. h1 \div 2 \in 0 .. 63 /\ h1 % 2 \in {0, 1} /\ h1 = (h1 % 2) + 2 * (h1 \div 2)
    BY <1>2
  <2> QED BY <2>1
<1>4. PICK h3 \in 0 .. 31, l3 \in {0, 1} : h2 = l3 + 2 * h3
  <2>1. h2 \div 2 \in 0 .. 31 /\ h2 % 2 \in {0, 1} /\ h2 = (h2 % 2) + 2 * (h2 \div 2)
    BY <1>3
  <2> QED BY <2>1
<1>5. PICK h4 \in 0 .. 15, l4 \in {0, 1} : h3 = l4 + 2 * h4
  <2>1. h3 \div 2 \in 0 .. 15 /\ h3 % 2 \in {0, 1} /\ h3 = (h3 % 2) + 2 * (h3 \div 2)
    BY <1>4
  <2> QED BY <2>1
<1>6. PICK h5 \in 0 .. 7, l5 \in {0, 1} : h4 = l5 + 2 * h5
  <2>1. h4 \div 2 \in 0 .. 7 /\ h4 % 2 \in {0, 1} /\ h4 = (h4 % 2) + 2 * (h4 \div 2)
    BY <1>5
  <2> QED BY <2>1
<1>7. PICK h6 \in 0 .. 3, l6 \in {0, 1} : h5 = l6 + 2 * h6
  <2>1. h5 \div 2 \in 0 .. 3 /\ h5 % 2 \in {0, 1} /\ h5 = (h5 % 2) + 2 * (h5 \div 2)
    BY <1>6
  <2> QED BY <2>1
<1>8. PICK h7 \in 0 .. 1, l7 \in {0, 1} : h6 = l7 + 2 * h7
  <2>1. h6 \div 2 \in 0 .. 1 /\ h6 % 2 \in {0, 1} /\ h6 = (h6 % 2) + 2 * (h6 \div 2)
    BY <1>7
  <2> QED BY <2>1
<1> DEFINE b == <<l1, l2, l3, l4, l5, l6, l7, h7>>
<1>9. b \in [1 .. 8 -> {0, 1}]
  BY <1>2, <1>3, <1>4, <1>5, <1>6, <1>7, <1>8
<1>10. Eight(b) = l1 + 2 * l2 + 4 * l3 + 8 * l4 + 16 * l5 + 32 * l6 + 64 * l7 + 128 * h7
  BY DEF Eight
<1>11. a = l1 + 2 * l2 + 4 * l3 + 8 * l4 + 16 * l5 + 32 * l6 + 64 * l7 + 128 * h7
  BY <1>2, <1>3, <1>4, <1>5, <1>6, <1>7, <1>8
<1> QED BY <1>9, <1>10, <1>11

\* The bit of weight w is the lowest of what a division leaves.
LEMMA BitOf ==
  ASSUME NEW b \in [1 .. 8 -> {0, 1}]
  PROVE  /\ Eight(b) \div 1 = b[1] + 2 * b[2] + 4 * b[3] + 8 * b[4] + 16 * b[5] + 32 * b[6] + 64 * b[7] + 128 * b[8]
         /\ Eight(b) \div 2 = b[2] + 2 * b[3] + 4 * b[4] + 8 * b[5] + 16 * b[6] + 32 * b[7] + 64 * b[8]
         /\ Eight(b) \div 4 = b[3] + 2 * b[4] + 4 * b[5] + 8 * b[6] + 16 * b[7] + 32 * b[8]
         /\ Eight(b) \div 8 = b[4] + 2 * b[5] + 4 * b[6] + 8 * b[7] + 16 * b[8]
         /\ Eight(b) \div 16 = b[5] + 2 * b[6] + 4 * b[7] + 8 * b[8]
         /\ Eight(b) \div 32 = b[6] + 2 * b[7] + 4 * b[8]
         /\ Eight(b) \div 64 = b[7] + 2 * b[8]
         /\ Eight(b) \div 128 = b[8]
<1>1. \A i \in 1 .. 8 : b[i] \in {0, 1}
  OBVIOUS
<1>2. b[1] \in {0, 1} /\ b[2] \in {0, 1} /\ b[3] \in {0, 1} /\ b[4] \in {0, 1}
      /\ b[5] \in {0, 1} /\ b[6] \in {0, 1} /\ b[7] \in {0, 1} /\ b[8] \in {0, 1}
  BY <1>1
<1>3. Eight(b) \div 1 = b[1] + 2 * b[2] + 4 * b[3] + 8 * b[4] + 16 * b[5] + 32 * b[6] + 64 * b[7] + 128 * b[8]
  BY <1>2 DEF Eight
<1>4. Eight(b) \div 2 = b[2] + 2 * b[3] + 4 * b[4] + 8 * b[5] + 16 * b[6] + 32 * b[7] + 64 * b[8]
  BY <1>2 DEF Eight
<1>5. Eight(b) \div 4 = b[3] + 2 * b[4] + 4 * b[5] + 8 * b[6] + 16 * b[7] + 32 * b[8]
  BY <1>2 DEF Eight
<1>6. Eight(b) \div 8 = b[4] + 2 * b[5] + 4 * b[6] + 8 * b[7] + 16 * b[8]
  BY <1>2 DEF Eight
<1>7. Eight(b) \div 16 = b[5] + 2 * b[6] + 4 * b[7] + 8 * b[8]
  BY <1>2 DEF Eight
<1>8. Eight(b) \div 32 = b[6] + 2 * b[7] + 4 * b[8]
  BY <1>2 DEF Eight
<1>9. Eight(b) \div 64 = b[7] + 2 * b[8]
  BY <1>2 DEF Eight
<1>10. Eight(b) \div 128 = b[8]
  BY <1>2 DEF Eight
<1> QED BY <1>3, <1>4, <1>5, <1>6, <1>7, <1>8, <1>9, <1>10

\* Xor works bit by bit.
LEMMA XorEight ==
  ASSUME NEW b \in [1 .. 8 -> {0, 1}], NEW c \in [1 .. 8 -> {0, 1}]
  PROVE  Xor(Eight(b), Eight(c)) = Eight([i \in 1 .. 8 |-> (b[i] + c[i]) % 2])
<1> DEFINE x == Eight(b)
           y == Eight(c)
           d == [i \in 1 .. 8 |-> (b[i] + c[i]) % 2]
<1>1. \A i \in 1 .. 8 : b[i] \in {0, 1} /\ c[i] \in {0, 1}
  OBVIOUS
<1>2. ((x \div 1) + (y \div 1)) % 2 = (b[1] + c[1]) % 2
  <2> DEFINE p == b[2] + 2 * b[3] + 4 * b[4] + 8 * b[5] + 16 * b[6] + 32 * b[7] + 64 * b[8]
             q == c[2] + 2 * c[3] + 4 * c[4] + 8 * c[5] + 16 * c[6] + 32 * c[7] + 64 * c[8]
  <2>1. x \div 1 = b[1] + 2 * p /\ y \div 1 = c[1] + 2 * q
    BY <1>1, BitOf
  <2>2. p \in Nat /\ q \in Nat /\ b[1] \in {0, 1} /\ c[1] \in {0, 1}
    BY <1>1
  <2> HIDE DEF x, y, p, q
  <2> QED BY <2>1, <2>2, LowestBit
<1>3. ((x \div 2) + (y \div 2)) % 2 = (b[2] + c[2]) % 2
  <2> DEFINE p == b[3] + 2 * b[4] + 4 * b[5] + 8 * b[6] + 16 * b[7] + 32 * b[8]
             q == c[3] + 2 * c[4] + 4 * c[5] + 8 * c[6] + 16 * c[7] + 32 * c[8]
  <2>1. x \div 2 = b[2] + 2 * p /\ y \div 2 = c[2] + 2 * q
    BY <1>1, BitOf
  <2>2. p \in Nat /\ q \in Nat /\ b[2] \in {0, 1} /\ c[2] \in {0, 1}
    BY <1>1
  <2> HIDE DEF x, y, p, q
  <2> QED BY <2>1, <2>2, LowestBit
<1>4. ((x \div 4) + (y \div 4)) % 2 = (b[3] + c[3]) % 2
  <2> DEFINE p == b[4] + 2 * b[5] + 4 * b[6] + 8 * b[7] + 16 * b[8]
             q == c[4] + 2 * c[5] + 4 * c[6] + 8 * c[7] + 16 * c[8]
  <2>1. x \div 4 = b[3] + 2 * p /\ y \div 4 = c[3] + 2 * q
    BY <1>1, BitOf
  <2>2. p \in Nat /\ q \in Nat /\ b[3] \in {0, 1} /\ c[3] \in {0, 1}
    BY <1>1
  <2> HIDE DEF x, y, p, q
  <2> QED BY <2>1, <2>2, LowestBit
<1>5. ((x \div 8) + (y \div 8)) % 2 = (b[4] + c[4]) % 2
  <2> DEFINE p == b[5] + 2 * b[6] + 4 * b[7] + 8 * b[8]
             q == c[5] + 2 * c[6] + 4 * c[7] + 8 * c[8]
  <2>1. x \div 8 = b[4] + 2 * p /\ y \div 8 = c[4] + 2 * q
    BY <1>1, BitOf
  <2>2. p \in Nat /\ q \in Nat /\ b[4] \in {0, 1} /\ c[4] \in {0, 1}
    BY <1>1
  <2> HIDE DEF x, y, p, q
  <2> QED BY <2>1, <2>2, LowestBit
<1>6. ((x \div 16) + (y \div 16)) % 2 = (b[5] + c[5]) % 2
  <2> DEFINE p == b[6] + 2 * b[7] + 4 * b[8]
             q == c[6] + 2 * c[7] + 4 * c[8]
  <2>1. x \div 16 = b[5] + 2 * p /\ y \div 16 = c[5] + 2 * q
    BY <1>1, BitOf
  <2>2. p \in Nat /\ q \in Nat /\ b[5] \in {0, 1} /\ c[5] \in {0, 1}
    BY <1>1
  <2> HIDE DEF x, y, p, q
  <2> QED BY <2>1, <2>2, LowestBit
<1>7. ((x \div 32) + (y \div 32)) % 2 = (b[6] + c[6]) % 2
  <2> DEFINE p == b[7] + 2 * b[8]
             q == c[7] + 2 * c[8]
  <2>1. x \div 32 = b[6] + 2 * p /\ y \div 32 = c[6] + 2 * q
    BY <1>1, BitOf
  <2>2. p \in Nat /\ q \in Nat /\ b[6] \in {0, 1} /\ c[6] \in {0, 1}
    BY <1>1
  <2> HIDE DEF x, y, p, q
  <2> QED BY <2>1, <2>2, LowestBit
<1>8. ((x \div 64) + (y \div 64)) % 2 = (b[7] + c[7]) % 2
  <2> DEFINE p == b[8]
             q == c[8]
  <2>1. x \div 64 = b[7] + 2 * p /\ y \div 64 = c[7] + 2 * q
    BY <1>1, BitOf
  <2>2. p \in Nat /\ q \in Nat /\ b[7] \in {0, 1} /\ c[7] \in {0, 1}
    BY <1>1
  <2> HIDE DEF x, y, p, q
  <2> QED BY <2>1, <2>2, LowestBit
<1>9. ((x \div 128) + (y \div 128)) % 2 = (b[8] + c[8]) % 2
  BY <1>1, BitOf
<1>10. Xor(x, y) = 1 * (((x \div 1) + (y \div 1)) % 2) + 2 * (((x \div 2) + (y \div 2)) % 2)
                   + 4 * (((x \div 4) + (y \div 4)) % 2) + 8 * (((x \div 8) + (y \div 8)) % 2)
                   + 16 * (((x \div 16) + (y \div 16)) % 2) + 32 * (((x \div 32) + (y \div 32)) % 2)
                   + 64 * (((x \div 64) + (y \div 64)) % 2) + 128 * (((x \div 128) + (y \div 128)) % 2)
  BY Zenon DEF Xor
<1>11. \A i \in 1 .. 8 : d[i] = (b[i] + c[i]) % 2 /\ d[i] \in Int
  BY <1>1
<1>12. Eight(d) = 1 * d[1] + 2 * d[2] + 4 * d[3] + 8 * d[4] + 16 * d[5] + 32 * d[6] + 64 * d[7] + 128 * d[8]
  BY <1>11 DEF Eight
<1> HIDE DEF x, y, d
<1>13. /\ d[1] = ((x \div 1) + (y \div 1)) % 2
       /\ d[2] = ((x \div 2) + (y \div 2)) % 2
       /\ d[3] = ((x \div 4) + (y \div 4)) % 2
       /\ d[4] = ((x \div 8) + (y \div 8)) % 2
       /\ d[5] = ((x \div 16) + (y \div 16)) % 2
       /\ d[6] = ((x \div 32) + (y \div 32)) % 2
       /\ d[7] = ((x \div 64) + (y \div 64)) % 2
       /\ d[8] = ((x \div 128) + (y \div 128)) % 2
  BY <1>2, <1>3, <1>4, <1>5, <1>6, <1>7, <1>8, <1>9, <1>11
<1> QED BY <1>10, <1>12, <1>13 DEF x, y, d

\* Twice under the same byte of the mask, a byte is what it was.
LEMMA XorBack == \A a, k \in Byte : Xor(Xor(a, k), k) = a
<1> TAKE a, k \in Byte
<1>1. PICK b \in [1 .. 8 -> {0, 1}] : a = Eight(b)
  BY EightBits
<1>2. PICK c \in [1 .. 8 -> {0, 1}] : k = Eight(c)
  BY EightBits
<1> DEFINE d == [i \in 1 .. 8 |-> (b[i] + c[i]) % 2]
           e == [i \in 1 .. 8 |-> (d[i] + c[i]) % 2]
<1>3. \A i \in 1 .. 8 : b[i] \in {0, 1} /\ c[i] \in {0, 1}
  OBVIOUS
<1>4. d \in [1 .. 8 -> {0, 1}]
  BY <1>3
<1>5. e = b
  <2>1. \A x, y \in {0, 1} : (((x + y) % 2) + y) % 2 = x
    OBVIOUS
  <2>2. \A i \in 1 .. 8 : e[i] = b[i]
    BY <1>3, <2>1
  <2> QED BY <2>2
<1>6. Xor(a, k) = Eight(d)
  BY <1>1, <1>2, XorEight
<1> HIDE DEF d
<1>7. Xor(Eight(d), k) = Eight(e)
  BY <1>2, <1>4, XorEight
<1> QED BY <1>1, <1>5, <1>6, <1>7

\* Twice under the same mask, data are what they were.
LEMMA MaskBack ==
  ASSUME NEW data \in Bytes, NEW key \in [1 .. 4 -> Byte]
  PROVE  /\ Mask(data, key) \in Bytes /\ Len(Mask(data, key)) = Len(data)
         /\ Mask(Mask(data, key), key) = data
<1> DEFINE n == Len(data)
           m == Mask(data, key)
           At(i) == ((i - 1) % 4) + 1
<1>1. n \in Nat /\ data \in [1 .. n -> Byte] /\ DOMAIN data = 1 .. n /\ data \in Seq(Byte)
  BY DEF Bytes
<1> HIDE DEF n
<1>2. \A i \in 1 .. n : At(i) \in 1 .. 4
  BY <1>1
<1> HIDE DEF At
<1>3. m = [i \in 1 .. n |-> Xor(data[i], key[At(i)])]
  BY <1>1 DEF Mask, At
<1>4. \A i \in 1 .. n : data[i] \in Byte /\ key[At(i)] \in Byte
  BY <1>1, <1>2
<1>5. m \in [1 .. n -> Byte]
  BY <1>3, <1>4, XorType
<1>6. m \in Seq(Byte) /\ Len(m) = n
  <2> HIDE DEF m
  <2> QED BY <1>1, <1>5, IsASeq, LenProperties
<1>7. Mask(m, key) = [i \in 1 .. n |-> Xor(m[i], key[At(i)])]
  <2>1. DOMAIN m = 1 .. n
    BY <1>3
  <2> HIDE DEF m
  <2> QED BY <2>1 DEF Mask, At
<1>8. \A i \in 1 .. n : Xor(m[i], key[At(i)]) = data[i]
  BY <1>3, <1>4, XorBack
<1>9. Mask(m, key) = data
  <2> HIDE DEF m
  <2>1. Mask(m, key) = [i \in 1 .. n |-> data[i]]
    BY <1>7, <1>8
  <2> QED BY <1>1, <2>1
<1> QED BY <1>6, <1>9 DEF Bytes, n

----------------------------------------------------------------------------
(* A frame of a server, and the reader in it.                              *)

\* What the reader of version 4 copes with.
Plain(f) == Reader!Written(f) /\ Reader!Ordinary(f) /\ ~Reader!MaskedClose(f)

\* The last part of a frame.
Body(f) == IF f.key = <<>> THEN f.payload ELSE Mask(f.payload, f.key)

\* The first two bytes of a frame.
HeadOf(f) ==
  <<(IF f.final THEN 128 ELSE 0) + f.opcode,
    (IF f.key = <<>> THEN 0 ELSE 128)
      + (IF Len(f.length) = 1 THEN f.length[1] ELSE IF Len(f.length) = 2 THEN 126 ELSE 127)>>

\* The state behind them.
Headed(f) ==
  IF Len(f.length) = 1 THEN "MaskPending"
  ELSE IF Len(f.length) = 2 THEN "PayloadLengthPending" ELSE "BigPayloadLenghPending"

\* What is still to be read of a frame when its header has been.
Still(state, f) ==
  IF state \in {"PayloadLengthPending", "BigPayloadLenghPending"} THEN f.length \o (f.key \o Body(f))
  ELSE IF state = "MaskPending" THEN f.key \o Body(f)
  ELSE Body(f)

\* What the reader knows of it then.
Knows(s, f) ==
  /\ s.final = f.final /\ s.opcode = f.opcode /\ s.hasMask = (f.key # <<>>)
  /\ \/ s.readingState = "PayloadLengthPending" /\ Len(f.length) = 2
     \/ s.readingState = "BigPayloadLenghPending" /\ Len(f.length) = 8
     \/ s.readingState = "MaskPending" /\ s.length = Short(Len(f.payload))
     \/ s.readingState = "PayloadBodyPending" /\ s.length = Short(Len(f.payload))
        /\ (f.key # <<>> => s.key = f.key)

\* The parts of a frame that is written.
LEMMA WrittenParts ==
  ASSUME NEW f, Reader!Written(f)
  PROVE  /\ f.final \in BOOLEAN
         /\ f.opcode \in {OpContinue, OpText, OpBinary, OpClose, OpPing, OpPong} /\ f.opcode \in 0 .. 10
         /\ f.length \in Bytes /\ Len(f.length) \in {1, 2, 8}
         /\ \A i \in 1 .. Len(f.length) : f.length[i] \in Byte
         /\ Len(f.length) = 1 => f.length[1] \in 0 .. 125
         /\ f.key \in Bytes /\ (f.key # <<>> => f.key \in [1 .. 4 -> Byte] /\ Len(f.key) = 4)
         /\ f.payload \in Bytes /\ Len(f.payload) \in Nat
         /\ f.opcode >= 8 => f.final
         /\ f.opcode = OpText => \A i \in 1 .. Len(f.payload) : f.payload[i] # 255
<1> USE DEF OpContinue, OpText, OpBinary, OpClose, OpPing, OpPong
<1>1. /\ Reader!OpContinue = 0 /\ Reader!OpText = 1 /\ Reader!OpBinary = 2 /\ Reader!OpClose = 8
      /\ Reader!OpPing = 9 /\ Reader!OpPong = 10 /\ Reader!Byte = Byte
  BY SameOperators, Zenon
<1>2. f \in [final : BOOLEAN, opcode : {0, 1, 2, 8, 9, 10},
             length : Seq(Byte), key : Seq(Byte), payload : Seq(Byte)]
  BY <1>1 DEF Reader!Written
<1>3. /\ Len(f.length) \in {1, 2, 8} /\ (Len(f.length) = 1 => f.length[1] < 126)
      /\ Len(f.key) \in {0, 4} /\ (f.opcode >= 8 => f.final)
      /\ f.opcode = 1 => \A i \in DOMAIN f.payload : f.payload[i] # 255
  BY <1>1 DEF Reader!Written, Reader!IsControl
<1>4. /\ f.final \in BOOLEAN /\ f.opcode \in {0, 1, 2, 8, 9, 10}
      /\ f.length \in Seq(Byte) /\ f.key \in Seq(Byte) /\ f.payload \in Seq(Byte)
  BY <1>2
<1>5. \A i \in 1 .. Len(f.length) : f.length[i] \in Byte
  BY <1>4
<1>6. Len(f.length) = 1 => f.length[1] \in 0 .. 125
  <2> HAVE Len(f.length) = 1
  <2>1. f.length[1] \in Byte /\ f.length[1] < 126
    BY <1>3, <1>5
  <2>2. \A b \in Byte : b < 126 => b \in 0 .. 125
    BY DEF Byte
  <2> QED BY <2>1, <2>2
<1>7. f.key # <<>> => f.key \in [1 .. 4 -> Byte] /\ Len(f.key) = 4
  <2> DEFINE k == f.key
  <2>1. k \in Seq(Byte) /\ Len(k) \in {0, 4}
    BY <1>3, <1>4
  <2> HIDE DEF k
  <2>2. k # <<>> => Len(k) = 4
    BY <2>1, EmptySeq
  <2>3. k \in [1 .. Len(k) -> Byte]
    BY <2>1, LenProperties
  <2>4. k # <<>> => k \in [1 .. 4 -> Byte] /\ Len(k) = 4
    BY <2>2, <2>3
  <2> QED BY <2>4 DEF k
<1>8. DOMAIN f.payload = 1 .. Len(f.payload) /\ Len(f.payload) \in Nat
  <2> DEFINE p == f.payload
  <2>1. p \in Seq(Byte)
    BY <1>4
  <2> HIDE DEF p
  <2>2. DOMAIN p = 1 .. Len(p) /\ Len(p) \in Nat
    BY <2>1
  <2> QED BY <2>2 DEF p
<1>9. f.opcode \in 0 .. 10
  BY <1>4
<1>10. f.opcode = 1 => \A i \in 1 .. Len(f.payload) : f.payload[i] # 255
  <2> HAVE f.opcode = 1
  <2> TAKE i \in 1 .. Len(f.payload)
  <2>1. i \in DOMAIN f.payload
    BY <1>8
  <2> QED BY <1>3, <2>1
<1>11. f.length \in Bytes /\ f.key \in Bytes /\ f.payload \in Bytes
  BY <1>4 DEF Bytes
<1> QED BY <1>3, <1>4, <1>5, <1>6, <1>7, <1>8, <1>9, <1>10, <1>11

\* The body of a frame is as long as its payload.
LEMMA BodyType ==
  ASSUME NEW f, Reader!Written(f)
  PROVE  Body(f) \in Bytes /\ Len(Body(f)) = Len(f.payload)
<1>1. f.payload \in Bytes /\ (f.key # <<>> => f.key \in [1 .. 4 -> Byte])
  BY WrittenParts
<1> QED BY <1>1, MaskBack DEF Body

\* The payload is as long as the length says.
LEMMA PlainLength ==
  ASSUME NEW f, Plain(f)
  PROVE  /\ f.opcode = OpClose => f.key = <<>>
         /\ Len(f.length) = 1 => Len(f.payload) = f.length[1]
         /\ Len(f.length) = 2 => Len(f.payload) = 256 * f.length[1] + f.length[2]
         /\ Len(f.length) = 8 =>
              /\ f.length[1] = 0 /\ f.length[2] = 0 /\ f.length[3] = 0 /\ f.length[4] = 0
              /\ f.length[5] < 128 /\ Len(f.payload) = Number(f.length[5], Behind(f.length, 4))
<1>1. Reader!Written(f) /\ Reader!Ordinary(f) /\ ~Reader!MaskedClose(f)
  BY DEF Plain
<1>2. f.opcode = OpClose => f.key = <<>>
  BY <1>1, SameOperators, Zenon DEF Reader!MaskedClose
<1>3. Len(f.payload) = Reader!Announced(f.length)
  BY <1>1 DEF Reader!Written
<1>4. Len(f.length) = 1 => Len(f.payload) = f.length[1]
  BY <1>3 DEF Reader!Announced
<1>5. Len(f.length) = 2 => Len(f.payload) = 256 * f.length[1] + f.length[2]
  BY <1>3 DEF Reader!Announced
<1>6. ASSUME Len(f.length) = 8
      PROVE  Len(f.payload) = Number(f.length[5], Behind(f.length, 4))
  <2>1. Len(f.payload) = Reader!Number(f.length[5], Reader!Behind(f.length, 4))
    BY <1>3, <1>6 DEF Reader!Announced
  <2>2. \A first, bytes : Reader!Number(first, bytes) = Number(first, bytes)
    BY SameOperators, Zenon
  <2>3. Reader!Behind(f.length, 4) = Behind(f.length, 4)
    BY SameOperators, Zenon
  <2> QED BY <2>1, <2>2, <2>3
<1>7. Len(f.length) = 8 => f.length[5] < 128 /\ \A i \in 1 .. 4 : f.length[i] = 0
  BY <1>1 DEF Reader!Ordinary
<1>8. 1 \in 1 .. 4 /\ 2 \in 1 .. 4 /\ 3 \in 1 .. 4 /\ 4 \in 1 .. 4
  OBVIOUS
<1>9. ASSUME Len(f.length) = 8
      PROVE  f.length[1] = 0 /\ f.length[2] = 0 /\ f.length[3] = 0 /\ f.length[4] = 0 /\ f.length[5] < 128
  BY <1>7, <1>8, <1>9
<1> QED BY <1>2, <1>4, <1>5, <1>6, <1>9

\* The first two bytes of a frame, and what they say.
LEMMA HeadSays ==
  ASSUME NEW f, Reader!Written(f)
  PROVE  /\ HeadOf(f) \in Bytes /\ Len(HeadOf(f)) = 2
         /\ HeadOf(f)[1] \in Byte /\ HeadOf(f)[2] \in Byte
         /\ (HeadOf(f)[1] >= 128) = f.final /\ HeadOf(f)[1] % 16 = f.opcode
         /\ (HeadOf(f)[2] >= 128) = (f.key # <<>>)
         /\ HeadOf(f)[2] % 128 = IF Len(f.length) = 1 THEN f.length[1]
                                 ELSE IF Len(f.length) = 2 THEN 126 ELSE 127
         /\ <<HeadOf(f)[1]>> \o <<HeadOf(f)[2]>> = HeadOf(f)
         /\ HeadOf(f)[1] = (IF f.final THEN 128 ELSE 0) + f.opcode
         /\ HeadOf(f)[2] = (IF f.key = <<>> THEN 0 ELSE 128)
              + (IF Len(f.length) = 1 THEN f.length[1] ELSE IF Len(f.length) = 2 THEN 126 ELSE 127)
<1> DEFINE fin == f.final
           op == f.opcode
           bare == f.key = <<>>
           size == IF Len(f.length) = 1 THEN f.length[1] ELSE IF Len(f.length) = 2 THEN 126 ELSE 127
           one == (IF fin THEN 128 ELSE 0) + op
           two == (IF bare THEN 0 ELSE 128) + size
<1>1. fin \in BOOLEAN /\ op \in 0 .. 10 /\ (Len(f.length) = 1 => f.length[1] \in 0 .. 125)
  BY WrittenParts
<1>2. size \in 0 .. 127
  BY <1>1
<1>3. HeadOf(f) = <<one, two>>
  BY DEF HeadOf
<1>4. bare \in BOOLEAN
  OBVIOUS
<1> HIDE DEF fin, op, bare, size
<1>5. one \in Byte /\ (one >= 128) = fin /\ one % 16 = op
  <2>1. op \in 0 .. 15 /\ 0 \in 0 .. 127
    BY <1>1
  <2>2. one \in Byte
    BY <1>1, <2>1, HeaderTells, ZenonT(60)
  <2>3. (one >= 128) = fin /\ one % 16 = op
    BY <1>1, <2>1, HeaderTells
  <2> QED BY <2>2, <2>3
<1>6. two \in Byte /\ (two >= 128) = ~bare /\ two % 128 = size
  <2>1. \A n \in 0 .. 127 : n \in Byte /\ 128 + n \in Byte /\ (n >= 128) = FALSE /\ (128 + n >= 128) = TRUE
                            /\ n % 128 = n /\ (128 + n) % 128 = n /\ 0 + n = n
    BY DEF Byte
  <2>2. CASE bare
    BY <1>2, <2>1, <2>2
  <2>3. CASE ~bare
    BY <1>2, <2>1, <2>3
  <2> QED BY <2>2, <2>3
<1>7. one = (IF f.final THEN 128 ELSE 0) + f.opcode
      /\ two = (IF f.key = <<>> THEN 0 ELSE 128)
           + (IF Len(f.length) = 1 THEN f.length[1] ELSE IF Len(f.length) = 2 THEN 126 ELSE 127)
  BY DEF fin, op, bare, size
<1> HIDE DEF one, two
<1>8. <<one, two>> \in Bytes /\ <<one>> \o <<two>> = <<one, two>>
      /\ Len(<<one, two>>) = 2 /\ <<one, two>>[1] = one /\ <<one, two>>[2] = two
  BY <1>5, <1>6, BytesInRow
<1>9. (one >= 128) = f.final /\ one % 16 = f.opcode /\ (two >= 128) = (f.key # <<>>)
      /\ two % 128 = IF Len(f.length) = 1 THEN f.length[1]
                     ELSE IF Len(f.length) = 2 THEN 126 ELSE 127
  BY <1>5, <1>6 DEF fin, op, bare, size
<1> QED
  BY <1>3, <1>5, <1>6, <1>7, <1>8, <1>9

\* What is still to be read are bytes.
LEMMA StillType ==
  ASSUME NEW f, Reader!Written(f)
  PROVE  /\ \A state : Still(state, f) \in Bytes
         /\ f.key \o Body(f) \in Bytes
         /\ Still("PayloadLengthPending", f) = f.length \o (f.key \o Body(f))
         /\ Still("BigPayloadLenghPending", f) = f.length \o (f.key \o Body(f))
         /\ Still("MaskPending", f) = f.key \o Body(f)
         /\ Still("PayloadBodyPending", f) = Body(f)
<1>1. f.length \in Bytes /\ f.key \in Bytes /\ Body(f) \in Bytes
  BY WrittenParts, BodyType
<1>2. f.key \o Body(f) \in Bytes /\ f.length \o (f.key \o Body(f)) \in Bytes
  BY <1>1, BytesJoined
<1> QED
  BY <1>1, <1>2 DEF Still

\* A frame begins with its header.
LEMMA WireBegins ==
  ASSUME NEW f, Reader!Written(f)
  PROVE  Reader!EncodeV4(f) = HeadOf(f) \o Still(Headed(f), f)
<1> DEFINE len == f.length
           key == f.key
           body == Body(f)
           one == HeadOf(f)[1]
           two == HeadOf(f)[2]
           mask == IF f.key = <<>> THEN 0 ELSE 128
           size == CASE Len(f.length) = 1 -> <<mask + f.length[1]>>
                     [] Len(f.length) = 2 -> <<mask + 126>> \o f.length
                     [] Len(f.length) = 8 -> <<mask + 127>> \o f.length
<1>1. len \in Bytes /\ key \in Bytes /\ body \in Bytes /\ Len(len) \in {1, 2, 8}
  BY WrittenParts, BodyType
<1>2. one = (IF f.final THEN 128 ELSE 0) + f.opcode
      /\ two = mask + (IF Len(f.length) = 1 THEN f.length[1] ELSE IF Len(f.length) = 2 THEN 126 ELSE 127)
  BY HeadSays
<1>3. one \in Byte /\ two \in Byte /\ HeadOf(f) = <<one>> \o <<two>>
  BY HeadSays
<1>4. Reader!EncodeV4(f) = <<(IF f.final THEN 128 ELSE 0) + f.opcode>> \o size \o key \o body
  <2>1. Reader!Mask(f.payload, f.key) = Mask(f.payload, f.key)
    BY SameOperators, Zenon
  <2>2. body = IF f.key = <<>> THEN f.payload ELSE Reader!Mask(f.payload, f.key)
    BY <2>1 DEF Body
  <2> HIDE DEF body
  <2> QED BY <2>2, Zenon DEF Reader!EncodeV4
<1>5. Len(len) = 1 => size = <<two>> /\ Still(Headed(f), f) = key \o body
  <2> HAVE Len(len) = 1
  <2>1. size = <<two>>
    BY <1>2
  <2>2. Headed(f) = "MaskPending"
    BY DEF Headed
  <2> HIDE DEF size, body
  <2> QED BY <2>1, <2>2, StillType DEF body
<1>6. Len(len) # 1 => size = <<two>> \o len /\ Still(Headed(f), f) = len \o (key \o body)
  <2> HAVE Len(len) # 1
  <2>1. size = <<two>> \o len
    <3>1. CASE Len(len) = 2
      BY <1>2, <3>1
    <3>2. CASE Len(len) = 8
      BY <1>2, <3>2
    <3> QED BY <1>1, <3>1, <3>2
  <2>2. Headed(f) \in {"PayloadLengthPending", "BigPayloadLenghPending"}
    BY DEF Headed
  <2> HIDE DEF size, body
  <2> QED BY <2>1, <2>2, StillType DEF body
<1>7. <<one>> \in Bytes /\ <<two>> \in Bytes
  BY <1>3, OneByte
<1> DEFINE a == <<one>>
           b == <<two>>
           head == HeadOf(f)
           still == Still(Headed(f), f)
<1>8. Reader!EncodeV4(f) = ((a \o size) \o key) \o body
  BY <1>2, <1>4
<1>9. a \in Bytes /\ b \in Bytes /\ head = a \o b
  BY <1>3, <1>7
<1>10. Len(len) = 1 => size = b /\ still = key \o body
  BY <1>5
<1>11. Len(len) # 1 => size = b \o len /\ still = len \o (key \o body)
  BY <1>6
<1> HIDE DEF a, b, size, len, key, body, head, still
<1>12. CASE Len(len) = 1
  <2>1. a \o b \in Bytes
    BY <1>9, BytesJoined
  <2>2. ((a \o b) \o key) \o body = (a \o b) \o (key \o body)
    BY <1>1, <2>1, JoinedAgain
  <2> QED BY <1>8, <1>9, <1>10, <1>12, <2>2 DEF head, still
<1>13. CASE Len(len) # 1
  <2>1. a \o b \in Bytes /\ (a \o b) \o len \in Bytes /\ key \o body \in Bytes
    BY <1>1, <1>9, BytesJoined
  <2>2. a \o (b \o len) = (a \o b) \o len
    BY <1>1, <1>9, JoinedAgain, SMTT(30)
  <2>3. (((a \o b) \o len) \o key) \o body = ((a \o b) \o len) \o (key \o body)
    BY <1>1, <2>1, JoinedAgain, SMTT(30)
  <2>4. ((a \o b) \o len) \o (key \o body) = (a \o b) \o (len \o (key \o body))
    BY <1>1, <2>1, JoinedAgain, SMTT(30)
  <2> QED BY <1>8, <1>9, <1>11, <1>13, <2>2, <2>3, <2>4 DEF head, still
<1> QED
  BY <1>12, <1>13

\* A frame is bytes, two at least; and so in version 0.
LEMMA WireType ==
  ASSUME NEW f, Reader!Written(f)
  PROVE  /\ Reader!EncodeV4(f) \in Bytes
         /\ Len(Reader!EncodeV4(f)) = 2 + Len(Still(Headed(f), f))
<1>1. HeadOf(f) \in Bytes /\ Len(HeadOf(f)) = 2 /\ Still(Headed(f), f) \in Bytes
  BY HeadSays, StillType
<1> QED
  BY <1>1, WireBegins, BytesConcat

----------------------------------------------------------------------------
(* The reader of version 4 in a frame of a server.                         *)

\* The header.
LEMMA PlainHeader ==
  ASSUME NEW s \in SocketType, NEW f, Plain(f), NEW after \in Bytes, NEW y \in Bytes,
         Len(s.buffer) >= 2, s.buffer \o after = Reader!EncodeV4(f) \o y
  PROVE  LET t == ReadHeader(s)
         IN  /\ Knows(t, f) /\ t.buffer \o after = Still(t.readingState, f) \o y
             /\ SameMessages(s, t)
<1> DEFINE n     == Len(f.payload)
           x     == HeadOf(f)
           one   == x[1]
           two   == x[2]
           left  == Still(Headed(f), f)
           b     == s.buffer
           behind == Behind(b, 2)
           size  == b[2] % 128
           length == IF size < 126 THEN Short(size) ELSE s.length
           state == CASE size = 126 -> "PayloadLengthPending"
                      [] size = 127 -> "BigPayloadLenghPending"
                      [] size < 126 -> "MaskPending"
           final == b[1] >= 128
           opcode == b[1] % 16
           mask  == b[2] >= 128
           t == [s EXCEPT !.final = final, !.opcode = opcode, !.hasMask = mask,
                          !.length = length, !.readingState = state, !.buffer = behind]
<1>1. Reader!Written(f)
  BY DEF Plain
<1>2. /\ x \in Bytes /\ Len(x) = 2
      /\ (one >= 128) = f.final /\ one % 16 = f.opcode
      /\ (two >= 128) = (f.key # <<>>)
      /\ two % 128 = IF Len(f.length) = 1 THEN f.length[1]
                     ELSE IF Len(f.length) = 2 THEN 126 ELSE 127
  BY <1>1, HeadSays
<1>3. left \in Bytes /\ b \o after = (x \o left) \o y
  BY <1>1, StillType, WireBegins
<1>4. /\ Len(f.length) \in {1, 2, 8} /\ (Len(f.length) = 1 => f.length[1] \in 0 .. 125)
      /\ (Len(f.length) = 1 => n = f.length[1])
  BY <1>1, WrittenParts, PlainLength
<1>5. b \in Bytes /\ Len(x) <= Len(b)
  BY <1>2 DEF SocketType
<1> HIDE DEF x, left, b, n
<1>6. b[1] = one /\ b[2] = two /\ behind \o after = left \o y
  <2>1. Reads(b, after, x, left, y)
    BY <1>2, <1>3, <1>5, Zenon DEF Reads
  <2>2. HasRead(b, after, x, left, y)
    BY <2>1, ReadOff
  <2>3. (\A i \in 1 .. Len(x) : b[i] = x[i]) /\ Behind(b, Len(x)) \o after = left \o y
    BY <2>2 DEF HasRead
  <2> QED BY <1>2, <2>3
<1>7. ReadHeader(s) = t
  BY DEF ReadHeader, b
<1>8. /\ final = f.final /\ opcode = f.opcode /\ mask = (f.key # <<>>)
      /\ size = IF Len(f.length) = 1 THEN f.length[1]
                ELSE IF Len(f.length) = 2 THEN 126 ELSE 127
  BY <1>2, <1>6
<1> HIDE DEF final, opcode, mask, behind, size
<1>9. Len(f.length) = 1 => state = "MaskPending" /\ length = Short(n)
  <2> HAVE Len(f.length) = 1
  <2>0. \A i \in 0 .. 125 : i < 126 /\ i # 126 /\ i # 127
    OBVIOUS
  <2>4. size = f.length[1] /\ n = f.length[1] /\ f.length[1] \in 0 .. 125
    BY <1>4, <1>8
  <2>1. size = n /\ size < 126 /\ size # 126 /\ size # 127
    BY <2>0, <2>4
  <2>2. state = "MaskPending"
    BY <2>1
  <2>3. length = Short(n)
    BY <2>1, Zenon
  <2> QED BY <2>2, <2>3
<1>10. Len(f.length) = 2 => state = "PayloadLengthPending"
  BY <1>8
<1>11. Len(f.length) = 8 => state = "BigPayloadLenghPending"
  BY <1>8
<1>12. state = Headed(f)
  <2> HIDE DEF state
  <2> QED BY <1>4, <1>9, <1>10, <1>11 DEF Headed
<1> HIDE DEF state, length
<1>13. /\ t.final = final /\ t.opcode = opcode /\ t.hasMask = mask
       /\ t.length = length /\ t.readingState = state /\ t.buffer = behind
       /\ SameMessages(s, t)
  BY DEF SocketType, SameMessages
<1> HIDE DEF t
<1>14. Knows(t, f)
  <2>1. t.final = f.final /\ t.opcode = f.opcode /\ t.hasMask = (f.key # <<>>)
    BY <1>8, <1>13
  <2>2. \/ t.readingState = "PayloadLengthPending" /\ Len(f.length) = 2
        \/ t.readingState = "BigPayloadLenghPending" /\ Len(f.length) = 8
        \/ t.readingState = "MaskPending" /\ t.length = Short(Len(f.payload))
    BY <1>4, <1>9, <1>10, <1>11, <1>13 DEF n
  <2> QED BY <2>1, <2>2 DEF Knows
<1>15. t.buffer \o after = Still(t.readingState, f) \o y
  BY <1>6, <1>12, <1>13 DEF left
<1> QED
  BY <1>7, <1>13, <1>14, <1>15

\* A length of two bytes.
LEMMA PlainShortLength ==
  ASSUME NEW s \in SocketType, NEW f, Plain(f), NEW after \in Bytes, NEW y \in Bytes,
         Knows(s, f), s.readingState = "PayloadLengthPending",
         Len(s.buffer) >= 2, s.buffer \o after = Still(s.readingState, f) \o y
  PROVE  LET t == ReadLength(s)
         IN  /\ Knows(t, f) /\ t.buffer \o after = Still(t.readingState, f) \o y
             /\ SameMessages(s, t)
<1> DEFINE n == Len(f.payload)
           rest == f.key \o Body(f)
           x == f.length
           b == s.buffer
           behind == Behind(b, 2)
           length == Short(256 * b[1] + b[2])
           t == [s EXCEPT !.length = length, !.readingState = "MaskPending", !.buffer = behind]
<1>1. Reader!Written(f) /\ Len(x) = 2
  BY DEF Plain, Knows
<1>2. x \in Bytes /\ rest \in Bytes /\ n = 256 * x[1] + x[2]
  BY <1>1, WrittenParts, StillType, PlainLength
<1>3. Still(s.readingState, f) = x \o rest /\ Still("MaskPending", f) = rest
  BY <1>1, StillType
<1>4. b \in Bytes /\ Len(x) <= Len(b) /\ b \o after = (x \o rest) \o y
  BY <1>1, <1>3 DEF SocketType
<1> HIDE DEF b, x, rest, n
<1>5. b[1] = x[1] /\ b[2] = x[2] /\ behind \o after = rest \o y
  <2>1. Reads(b, after, x, rest, y)
    BY <1>2, <1>4 DEF Reads
  <2>3. HasRead(b, after, x, rest, y)
    BY <2>1, ReadOff
  <2>2. (\A i \in 1 .. Len(x) : b[i] = x[i]) /\ Behind(b, Len(x)) \o after = rest \o y
    BY <2>3 DEF HasRead
  <2> QED BY <1>1, <2>2
<1>7. length = Short(n)
  BY <1>2, <1>5, Zenon
<1>8. ReadLength(s) = t
  BY DEF ReadLength, b
<1> HIDE DEF length, behind
<1>9. t.length = length /\ t.readingState = "MaskPending" /\ t.buffer = behind /\ SameMessages(s, t)
      /\ t.final = s.final /\ t.opcode = s.opcode /\ t.hasMask = s.hasMask
  BY DEF SocketType, SameMessages
<1> HIDE DEF t
<1>10. Knows(t, f)
  BY <1>7, <1>9 DEF Knows, n
<1> QED
  BY <1>3, <1>5, <1>8, <1>9, <1>10

\* A length of eight bytes, of which four count.
LEMMA PlainLongLength ==
  ASSUME NEW s \in SocketType, NEW f, Plain(f), NEW after \in Bytes, NEW y \in Bytes,
         Knows(s, f), s.readingState = "BigPayloadLenghPending",
         Len(s.buffer) >= 8, s.buffer \o after = Still(s.readingState, f) \o y
  PROVE  LET t == ReadBigLength(s)
         IN  /\ Knows(t, f) /\ t.buffer \o after = Still(t.readingState, f) \o y
             /\ SameMessages(s, t)
<1> DEFINE n == Len(f.payload)
           rest == f.key \o Body(f)
           x == f.length
           b == s.buffer
           behind == Behind(b, 8)
           high == Number(b[1] % 128, b)
           low == Number(((b[5] + 128) % 256) - 128, Behind(b, 4))
           length == [high |-> high, low |-> low]
           t == [s EXCEPT !.length = length, !.readingState = "MaskPending", !.buffer = behind]
<1>1. Reader!Written(f) /\ Len(x) = 8
  BY DEF Plain, Knows
<1>2. x \in Bytes /\ rest \in Bytes /\ x[1] = 0 /\ x[2] = 0 /\ x[3] = 0 /\ x[4] = 0
      /\ x[5] \in Byte /\ x[5] < 128 /\ n = Number(x[5], Behind(x, 4))
  <2>1. x \in Bytes /\ rest \in Bytes /\ \A i \in 1 .. 8 : x[i] \in Byte
    BY <1>1, WrittenParts, StillType
  <2>2. 5 \in 1 .. 8
    OBVIOUS
  <2> QED BY <1>1, <2>1, <2>2, PlainLength
<1>3. Still(s.readingState, f) = x \o rest /\ Still("MaskPending", f) = rest
  BY <1>1, StillType
<1>4. b \in Bytes /\ Len(b) \in Nat /\ Len(b) >= 8 /\ Len(x) <= Len(b) /\ b \o after = (x \o rest) \o y
  BY <1>1, <1>3, LengthIsNat DEF SocketType
<1> HIDE DEF b, x, rest, n
<1>5. (\A i \in 1 .. 8 : b[i] = x[i]) /\ behind \o after = rest \o y
  <2>1. Reads(b, after, x, rest, y)
    BY <1>2, <1>4 DEF Reads
  <2>3. HasRead(b, after, x, rest, y)
    BY <2>1, ReadOff
  <2>2. (\A i \in 1 .. Len(x) : b[i] = x[i]) /\ Behind(b, Len(x)) \o after = rest \o y
    BY <2>3 DEF HasRead
  <2> QED BY <1>1, <2>2
<1>6. \A c \in Bytes : Len(c) >= 8 => Behind(c, 4)[2] = c[6] /\ Behind(c, 4)[3] = c[7] /\ Behind(c, 4)[4] = c[8]
  <2> TAKE c \in Bytes
  <2> HAVE Len(c) >= 8
  <2>1. Len(c) \in Nat /\ \A i \in 1 .. Len(c) - 4 : Behind(c, 4)[i] = c[4 + i]
    BY DEF Behind, Bytes
  <2>2. 2 \in 1 .. Len(c) - 4 /\ 3 \in 1 .. Len(c) - 4 /\ 4 \in 1 .. Len(c) - 4
        /\ 4 + 2 = 6 /\ 4 + 3 = 7 /\ 4 + 4 = 8
    BY <2>1
  <2>3. Behind(c, 4)[2] = c[6]
    BY <2>1, <2>2
  <2>4. Behind(c, 4)[3] = c[7]
    BY <2>1, <2>2
  <2>5. Behind(c, 4)[4] = c[8]
    BY <2>1, <2>2
  <2> QED BY <2>3, <2>4, <2>5
<1>7. /\ b[1] = x[1] /\ b[2] = x[2] /\ b[3] = x[3] /\ b[4] = x[4]
      /\ b[5] = x[5] /\ b[6] = x[6] /\ b[7] = x[7] /\ b[8] = x[8]
  <2>1. 1 \in 1 .. 8 /\ 2 \in 1 .. 8 /\ 3 \in 1 .. 8 /\ 4 \in 1 .. 8
        /\ 5 \in 1 .. 8 /\ 6 \in 1 .. 8 /\ 7 \in 1 .. 8 /\ 8 \in 1 .. 8
    OBVIOUS
  <2> QED BY <1>5, <2>1
<1>10. high = 0
  BY <1>2, <1>7 DEF Number
<1>11. low = n
  <2>1. \A d \in Byte : d < 128 => ((d + 128) % 256) - 128 = d
    BY DEF Byte
  <2>2. ((b[5] + 128) % 256) - 128 = x[5]
    BY <1>2, <1>7, <2>1
  <2>3. Behind(b, 4)[2] = Behind(x, 4)[2] /\ Behind(b, 4)[3] = Behind(x, 4)[3] /\ Behind(b, 4)[4] = Behind(x, 4)[4]
    <3>1. Behind(b, 4)[2] = b[6] /\ Behind(b, 4)[3] = b[7] /\ Behind(b, 4)[4] = b[8]
      BY <1>4, <1>6, Zenon
    <3>2. Len(x) >= 8
      BY <1>1
    <3>3. Behind(x, 4)[2] = x[6] /\ Behind(x, 4)[3] = x[7] /\ Behind(x, 4)[4] = x[8]
      BY <1>2, <1>6, <3>2, Zenon
    <3> QED BY <1>7, <3>1, <3>3, Zenon
  <2> QED BY <1>2, <2>2, <2>3, Zenon DEF Number
<1> HIDE DEF high, low
<1>12. length = Short(n)
  BY <1>10, <1>11 DEF Short
<1>13. ReadBigLength(s) = t
  BY DEF ReadBigLength, b, high, low
<1> HIDE DEF length, behind
<1>14. t.length = length /\ t.readingState = "MaskPending" /\ t.buffer = behind /\ SameMessages(s, t)
      /\ t.final = s.final /\ t.opcode = s.opcode /\ t.hasMask = s.hasMask
  BY DEF SocketType, SameMessages
<1> HIDE DEF t
<1>15. Knows(t, f)
  BY <1>12, <1>14 DEF Knows, n
<1> QED
  BY <1>3, <1>5, <1>13, <1>14, <1>15

\* A mask.
LEMMA PlainMask ==
  ASSUME NEW s \in SocketType, NEW f, Plain(f), NEW after \in Bytes, NEW y \in Bytes,
         Knows(s, f), s.readingState = "MaskPending", s.hasMask = TRUE,
         Len(s.buffer) >= 4, s.buffer \o after = Still(s.readingState, f) \o y
  PROVE  LET t == ReadMask(s)
         IN  /\ Knows(t, f) /\ t.readingState = "PayloadBodyPending"
             /\ t.buffer \o after = Body(f) \o y
             /\ t.length = s.length /\ SameMessages(s, t)
<1> DEFINE x == f.key
           body == Body(f)
           b == s.buffer
           behind == Behind(b, 4)
           key == SubSeq(b, 1, 4)
           state == IF s.opcode = OpClose THEN "CloseDataPending" ELSE "PayloadBodyPending"
           t == [s EXCEPT !.key = key, !.readingState = state, !.buffer = behind]
<1>1. Reader!Written(f) /\ x # <<>> /\ s.opcode = f.opcode /\ s.length = Short(Len(f.payload))
  BY DEF Plain, Knows
<1>2. x \in Bytes /\ Len(x) = 4 /\ body \in Bytes /\ f.opcode # OpClose
  BY <1>1, WrittenParts, BodyType, PlainLength
<1>3. b \in Bytes /\ Len(x) <= Len(b) /\ b \o after = (x \o body) \o y
  BY <1>1, <1>2, StillType, ZenonT(60) DEF SocketType
<1> HIDE DEF b, x, body
<1>4. key = x /\ behind \o after = body \o y
  <2>1. Reads(b, after, x, body, y)
    BY <1>2, <1>3 DEF Reads
  <2>3. HasRead(b, after, x, body, y)
    BY <2>1, ReadOff
  <2>2. SubSeq(b, 1, Len(x)) = x /\ Behind(b, Len(x)) \o after = body \o y
    BY <2>3 DEF HasRead
  <2> QED BY <1>2, <2>2
<1>5. state = "PayloadBodyPending"
  BY <1>1, <1>2
<1>6. ReadMask(s) = t
  BY DEF ReadMask, b
<1> HIDE DEF key, behind, state
<1>7. t.key = key /\ t.readingState = state /\ t.buffer = behind /\ SameMessages(s, t)
      /\ t.final = s.final /\ t.opcode = s.opcode /\ t.hasMask = s.hasMask /\ t.length = s.length
  BY DEF SocketType, SameMessages
<1> HIDE DEF t
<1>8. Knows(t, f)
  BY <1>1, <1>4, <1>5, <1>7 DEF Knows, x
<1> QED
  BY <1>4, <1>5, <1>6, <1>7, <1>8 DEF body

\* Without the first n bytes.
LEMMA BehindLength ==
  ASSUME NEW z \in Bytes, NEW n \in Nat, n <= Len(z)
  PROVE  Behind(z, n) \in Bytes /\ Len(Behind(z, n)) = Len(z) - n
<1> DEFINE l == Len(z)
           d == SubSeq(z, n + 1, l)
<1>1. z \in Seq(Byte) /\ l \in Nat /\ n <= l
  BY DEF Bytes
<1>2. Len(d) = IF n + 1 <= l THEN l - (n + 1) + 1 ELSE 0
  BY <1>1
<1> HIDE DEF d, l
<1>3. Len(d) = l - n
  BY <1>1, <1>2
<1> QED
  BY <1>3, BytesBehind DEF Behind, d, l

\* The body, which is what is left of the connection when it is that of a Close
\* frame: its status code is taken off first, and the rest taken as a whole.
LEMMA PlainBody ==
  ASSUME NEW s \in SocketType, NEW f, Plain(f), NEW after \in Bytes, NEW y \in Bytes,
         Knows(s, f), s.readingState = "PayloadBodyPending",
         Len(s.buffer) >= s.length.low, s.buffer \o after = Body(f) \o y,
         f.opcode = OpClose => y = <<>>
  PROVE  LET t == Payload(ReadStatusCode(s))
         IN  /\ t \in SocketType /\ SameLife(s, t) /\ t.running = s.running
             /\ t.readingState = "HeaderPending"
             /\ t.final = f.final /\ t.opcode = f.opcode
             /\ f.opcode # OpClose => t.frame = s.frame \o f.payload
             /\ t.buffer \o after = y
             /\ t.emitted = s.emitted /\ t.written = s.written
<1> DEFINE n == Len(f.payload)
           body == Body(f)
           c == ReadStatusCode(s)
           b == s.buffer
           t == Payload(c)
<1>1. Reader!Written(f)
  BY DEF Plain
<1>2. /\ n \in Nat /\ body \in Bytes /\ Len(body) = n
      /\ s.length = Short(n) /\ s.length.low = n /\ s.length.high = 0
      /\ s.final = f.final /\ s.opcode = f.opcode /\ s.hasMask = (f.key # <<>>)
      /\ (f.key # <<>> => s.key = f.key)
  BY <1>1, WrittenParts, BodyType DEF Knows, Short
<1>3. b \in Bytes /\ Len(b) \in Nat /\ n <= Len(b) /\ b \o after = body \o y
  BY <1>2, LengthIsNat DEF SocketType
<1>4. /\ c \in SocketType /\ SameLife(s, c) /\ c.running = s.running
      /\ t \in SocketType /\ SameLife(c, t) /\ t.running = c.running
      /\ t.readingState = "HeaderPending"
  <2>1. ReadOn(s, c)
    BY ReadStatusCodeStep
  <2> HIDE DEF c
  <2>2. ReadOn(c, Payload(c)) /\ Payload(c).readingState = "HeaderPending"
    BY <2>1, PayloadStep DEF ReadOn
  <2> QED BY <2>1, <2>2 DEF ReadOn
<1>5. SameLife(s, t) /\ t.running = s.running
  BY <1>4 DEF SameLife
<1>6. /\ c.final = s.final /\ c.opcode = s.opcode /\ c.length = s.length /\ c.hasMask = s.hasMask
      /\ c.key = s.key /\ c.frame = s.frame /\ c.emitted = s.emitted /\ c.written = s.written
      /\ s.opcode # OpClose => c.buffer = b
      /\ \/ c.buffer = b
         \/ n >= 2 /\ Len(b) >= 2 /\ c.buffer = Behind(b, 2)
  <2> DEFINE code == 256 * b[1] + b[2]
             rest == Behind(b, 2)
  <2>1. CASE s.opcode # OpClose
    BY <2>1 DEF ReadStatusCode
  <2>2. CASE s.opcode = OpClose /\ n >= 2 /\ Len(b) >= 2
    <3>1. s.length # Short(0) /\ s.length # Short(1)
      <4>1. Short(0).low = 0 /\ Short(1).low = 1
        BY DEF Short
      <4> QED BY <1>2, <2>2, <4>1
    <3>2. c = [s EXCEPT !.code = code, !.buffer = rest]
      BY <2>2, <3>1, Zenon DEF ReadStatusCode
    <3> HIDE DEF c, b, code, rest
    <3>3. /\ c.final = s.final /\ c.opcode = s.opcode /\ c.length = s.length /\ c.hasMask = s.hasMask
          /\ c.key = s.key /\ c.frame = s.frame /\ c.emitted = s.emitted /\ c.written = s.written
          /\ c.buffer = rest
      BY <3>2 DEF SocketType
    <3> QED BY <2>2, <3>3 DEF rest
  <2>3. CASE s.opcode = OpClose /\ ~(n >= 2)
    <3>1. s.length = Short(0) \/ s.length = Short(1)
      <4>1. n = 0 \/ n = 1
        <5>1. \A i \in Nat : ~(i >= 2) => i = 0 \/ i = 1
          OBVIOUS
        <5> HIDE DEF n
        <5> QED BY <1>2, <2>3, <5>1
      <4> HIDE DEF n
      <4> QED BY <1>2, <4>1
    <3>2. c = [s EXCEPT !.code = NoCloseStatusCode]
      BY <2>3, <3>1, Zenon DEF ReadStatusCode
    <3> HIDE DEF c
    <3> QED BY <2>3, <3>2 DEF SocketType
  <2>4. n >= 2 => Len(b) >= 2
    BY <1>2, <1>3
  <2> QED BY <2>1, <2>2, <2>3, <2>4
<1> DEFINE m == TakenOf(c)
           data == SubSeq(c.buffer, 1, m)
           behind == Behind(c.buffer, m)
           frame == c.frame \o (IF c.hasMask THEN Mask(data, c.key) ELSE data)
<1>7. t = [c EXCEPT !.frame = frame, !.buffer = behind, !.readingState = "HeaderPending"]
  BY DEF Payload
<1>8. /\ t.final = c.final /\ t.opcode = c.opcode /\ t.frame = frame /\ t.buffer = behind
      /\ t.emitted = c.emitted /\ t.written = c.written
  <2> HIDE DEF c, t, frame, behind
  <2> QED BY <1>4, <1>7 DEF SocketType
<1>9. m = IF n <= Len(c.buffer) THEN n ELSE Len(c.buffer)
  <2>1. c.buffer \in Bytes /\ Len(c.buffer) \in Nat
    BY <1>4, LengthIsNat DEF SocketType
  <2>2. c.length.high = 0 /\ c.length.low = n
    BY <1>2, <1>6
  <2> HIDE DEF c, n
  <2> QED BY <1>2, <2>1, <2>2 DEF TakenOf
<1>10. <<>> \in Bytes /\ body \o <<>> = body /\ <<>> \o y = y
  BY <1>2, NoByte, NoneJoined
<1> HIDE DEF c, t, n, body, b, m
<1>11. SubSeq(b, 1, n) = body /\ Behind(b, n) \o after = y
  <2>1. Reads(b, after, body, <<>>, y)
    BY <1>2, <1>3, <1>10 DEF Reads
  <2>2. HasRead(b, after, body, <<>>, y)
    BY <2>1, ReadOff
  <2> QED BY <1>2, <1>10, <2>2 DEF HasRead
<1>12. CASE f.opcode # OpClose
  <2>1. c.buffer = b /\ m = n
    BY <1>2, <1>3, <1>6, <1>9, <1>12
  <2>2. data = body /\ behind \o after = y
    BY <1>11, <2>1
  <2>3. frame = s.frame \o f.payload
    <3>1. CASE f.key = <<>>
      <4>1. c.hasMask = FALSE /\ body = f.payload
        BY <1>2, <1>6, <3>1 DEF Body, body
      <4> QED BY <1>6, <2>2, <4>1
    <3>2. CASE f.key # <<>>
      <4>1. c.hasMask = TRUE /\ c.key = f.key /\ body = Mask(f.payload, f.key)
        BY <1>2, <1>6, <3>2 DEF Body, body
      <4>2. f.payload \in Bytes /\ f.key \in [1 .. 4 -> Byte]
        BY <1>1, <3>2, WrittenParts
      <4>3. Mask(body, f.key) = f.payload
        BY <4>1, <4>2, MaskBack
      <4> QED BY <1>6, <2>2, <4>1, <4>3
    <3> QED BY <3>1, <3>2
  <2> QED BY <1>2, <1>4, <1>5, <1>6, <1>8, <1>12, <2>2, <2>3 DEF t, c
<1>13. CASE f.opcode = OpClose
  <2>1. y = <<>>
    BY <1>13
  <2>2. Behind(b, n) = <<>> /\ after = <<>> /\ Len(b) = n
    <3> DEFINE r == Behind(b, n)
    <3>1. r \in Bytes /\ Len(r) = Len(b) - n
      BY <1>2, <1>3 DEF Behind, Bytes
    <3> HIDE DEF r
    <3>2. Len(r) \in Nat /\ Len(after) \in Nat /\ Len(r \o after) = Len(r) + Len(after)
      <4>1. Len(r) \in Nat /\ Len(after) \in Nat
        BY <3>1, LengthIsNat
      <4>2. Len(r \o after) = Len(r) + Len(after)
        BY <3>1, BytesConcat
      <4> QED BY <4>1, <4>2
    <3>3. Len(r \o after) = 0
      BY <1>11, <2>1 DEF r
    <3>4. Len(r) = 0 /\ Len(after) = 0
      BY <3>2, <3>3
    <3>5. r = <<>> /\ after = <<>>
      BY <3>1, <3>4, EmptySeq DEF Bytes
    <3> QED BY <1>2, <1>3, <3>1, <3>4, <3>5 DEF r
  <2>3. c.buffer \in Bytes /\ Len(c.buffer) \in Nat /\ Len(c.buffer) <= n
    <3>1. \A z \in Bytes : Len(z) >= 2 => Len(Behind(z, 2)) = Len(z) - 2
      BY BehindLength
    <3>2. c.buffer \in Bytes /\ Len(c.buffer) \in Nat
      BY <1>4, LengthIsNat DEF SocketType
    <3> QED BY <1>2, <1>3, <1>6, <2>2, <3>1, <3>2
  <2>4. m = Len(c.buffer)
    BY <1>2, <1>9, <2>3
  <2>5. \A z \in Bytes : Behind(z, Len(z)) = <<>>
    BY DEF Behind, Bytes
  <2>6. behind = <<>>
    BY <2>3, <2>4, <2>5
  <2>7. t.buffer \o after = y
    BY <1>8, <1>10, <2>1, <2>2, <2>6, NoneJoined
  <2> QED BY <1>2, <1>4, <1>5, <1>6, <1>8, <1>13, <2>7 DEF t, c
<1> QED
  BY <1>12, <1>13

\* What a frame is to be reported as.
SignalIn(version, f) ==
  IF ~f.final \/ (version = 0 /\ f.payload = <<>>) THEN <<>>
  ELSE IF f.opcode = OpText THEN <<[kind |-> "text", data |-> f.payload]>>
  ELSE IF f.opcode = OpBinary THEN <<[kind |-> "binary", data |-> f.payload]>>
  ELSE IF f.opcode = OpPong THEN <<[kind |-> "pong", data |-> <<>>]>>
  ELSE <<>>

\* And what it is to be answered with.
AnswerOf(f) ==
  IF f.opcode # OpPing THEN <<>>
  ELSE <<[kind |-> "binary", data |-> ComposeHeader(TRUE, OpPong, 0, <<>>)]>>

\* The answer to a Ping is bytes.
LEMMA PongType == ComposeHeader(TRUE, OpPong, 0, <<>>) \in Bytes
<1>1. TRUE \in BOOLEAN /\ OpPong \in 0 .. 15 /\ 0 \in Nat /\ <<>> \in Bytes
  BY NoByte DEF OpPong
<1> QED BY <1>1, HeaderType

\* Both are reports.
LEMMA SignalType ==
  ASSUME NEW f, Reader!Written(f), NEW version
  PROVE  SignalIn(version, f) \in Reports /\ AnswerOf(f) \in Reports
<1>1. f.payload \in Bytes /\ <<>> \in Bytes
  BY WrittenParts, NoByte
<1>2. /\ [kind |-> "text", data |-> f.payload] \in Report
      /\ [kind |-> "binary", data |-> f.payload] \in Report
      /\ [kind |-> "pong", data |-> <<>>] \in Report
      /\ [kind |-> "binary", data |-> ComposeHeader(TRUE, OpPong, 0, <<>>)] \in Report
  BY <1>1, PongType DEF Report
<1>3. <<>> \in Reports /\ \A m \in Report : <<m>> \in Reports
  BY DEF Reports
<1>4. SignalIn(version, f) \in Reports
  BY <1>2, <1>3, Zenon DEF SignalIn
<1>5. AnswerOf(f) \in Reports
  BY <1>2, <1>3, Zenon DEF AnswerOf
<1> QED BY <1>4, <1>5

\* One more report.
LEMMA OneReport ==
  /\ \A r \in Reports, m \in Report : Append(r, m) = r \o <<m>>
  /\ \A r \in Reports : r \o <<>> = r
BY DEF Reports

\* The answer to a Ping.
LEMMA PongWritten ==
  ASSUME NEW w \in SocketType, w.version # 0, w.tcp # "Unconnected"
  PROVE  LET v == [Write(w, ComposeHeader(TRUE, OpPong, 0, <<>>), TRUE) EXCEPT !.slot = TRUE]
         IN  /\ v.emitted = w.emitted /\ v.ws = w.ws
             /\ v.written = Append(w.written, [kind |-> "binary", data |-> ComposeHeader(TRUE, OpPong, 0, <<>>)])
<1> DEFINE pong == ComposeHeader(TRUE, OpPong, 0, <<>>)
           bytes == FlattenSeq(ComposeFrames(pong, TRUE))
           letter == [kind |-> "binary", data |-> pong]
           u == Send(w, bytes)
           written == Append(u.written, letter)
           v == [u EXCEPT !.written = written]
           t == [v EXCEPT !.slot = TRUE]
<1>1. bytes \in Bytes
  <2>1. TRUE \in BOOLEAN
    OBVIOUS
  <2> HIDE DEF pong
  <2> QED BY <2>1, PongType, FramesType DEF pong
<1>2. Write(w, pong, TRUE) = v
  BY DEF Write
<1> HIDE DEF bytes, letter, pong
<1>3. u \in SocketType /\ SameLife(w, u) /\ SameReader(w, u) /\ u.written = w.written
  BY <1>1, SendStep, SendSays
<1> HIDE DEF u
<1>4. t.emitted = u.emitted /\ t.ws = u.ws /\ t.written = written
  <2> HIDE DEF written
  <2> QED BY <1>3 DEF SocketType
<1>5. t.emitted = w.emitted /\ t.ws = w.ws /\ t.written = Append(w.written, letter)
  BY <1>3, <1>4 DEF SameLife, SameReader
<1> HIDE DEF v
<1> QED
  BY <1>2, <1>5 DEF pong, letter

\* The end of a message reports what it is to be reported as.
LEMMA Dispatched ==
  ASSUME NEW p \in SocketType, p.version # 0, p.tcp # "Unconnected",
         NEW f, Reader!Written(f), f.final, p.opcode = f.opcode,
         f.opcode \in {OpText, OpBinary} => p.frame = f.payload
  PROVE  LET d == Dispatch(p)
         IN  /\ d \in SocketType /\ SameReading(p, d)
             /\ d.emitted = p.emitted \o SignalIn(p.version, f) /\ d.written = p.written \o AnswerOf(f)
             /\ p.ws = "Unconnected" \/ f.opcode = OpClose => d.ws = "Unconnected"
<1> DEFINE d == Dispatch(p)
<1> USE DEF OpBinary, OpText, OpPing, OpPong, OpClose, OpContinue
<1>1. d \in SocketType /\ SameReading(p, d)
  BY DispatchStep
<1>2. f.opcode \in {0, 1, 2, 8, 9, 10} /\ f.payload \in Bytes
  BY WrittenParts
<1>3. /\ p.emitted \in Reports /\ p.written \in Reports
      /\ p.emitted \o <<>> = p.emitted /\ p.written \o <<>> = p.written
  BY OneReport DEF SocketType
<1>4. ASSUME NEW signal, NEW data, d = Emit(p, signal, data), f.opcode # OpPing, f.opcode # OpClose,
             signal \in {"text", "binary", "pong"}, data \in Bytes,
             SignalIn(p.version, f) = <<[kind |-> signal, data |-> data]>>
      PROVE  /\ d.emitted = p.emitted \o SignalIn(p.version, f) /\ d.written = p.written \o AnswerOf(f)
             /\ p.ws = "Unconnected" \/ f.opcode = OpClose => d.ws = "Unconnected"
  <2> DEFINE m == [kind |-> signal, data |-> data]
  <2>1. m \in Report
    BY <1>4 DEF Report
  <2>2. d.emitted = Append(p.emitted, m) /\ d.written = p.written /\ d.ws = p.ws
    BY <1>4 DEF Emit, SocketType
  <2>3. AnswerOf(f) = <<>>
    BY <1>4 DEF AnswerOf
  <2>4. SignalIn(p.version, f) = <<m>>
    BY <1>4
  <2> HIDE DEF m, d
  <2>5. d.emitted = p.emitted \o <<m>>
    BY <1>3, <2>1, <2>2, OneReport
  <2> QED BY <1>3, <1>4, <2>2, <2>3, <2>4, <2>5
<1>5. CASE f.opcode = 1
  <2>1. d = Emit(p, "text", p.frame) /\ p.frame = f.payload
    BY <1>5 DEF Dispatch
  <2>2. SignalIn(p.version, f) = <<[kind |-> "text", data |-> f.payload]>>
    BY <1>5, Zenon DEF SignalIn
  <2> HIDE DEF d
  <2>3. f.opcode # OpPing /\ f.opcode # OpClose
    BY <1>5
  <2> QED BY <1>1, <1>2, <1>4, <2>1, <2>2, <2>3 DEF d
<1>6. CASE f.opcode = 2
  <2>1. d = Emit(p, "binary", p.frame) /\ p.frame = f.payload
    BY <1>6 DEF Dispatch
  <2>2. SignalIn(p.version, f) = <<[kind |-> "binary", data |-> f.payload]>>
    BY <1>6 DEF SignalIn
  <2> HIDE DEF d
  <2>3. f.opcode # OpPing /\ f.opcode # OpClose
    BY <1>6
  <2> QED BY <1>1, <1>2, <1>4, <2>1, <2>2, <2>3 DEF d
<1>7. CASE f.opcode = 10
  <2>1. d = Emit(p, "pong", <<>>)
    BY <1>7 DEF Dispatch
  <2>2. SignalIn(p.version, f) = <<[kind |-> "pong", data |-> <<>>]>>
    BY <1>7 DEF SignalIn
  <2> HIDE DEF d
  <2>3. f.opcode # OpPing /\ f.opcode # OpClose
    BY <1>7
  <2> QED BY <1>1, <1>4, <2>1, <2>2, <2>3, NoByte DEF d
<1>8. CASE f.opcode = 9
  <2> DEFINE m == [kind |-> "binary", data |-> ComposeHeader(TRUE, OpPong, 0, <<>>)]
  <2>1. d = [Write(p, ComposeHeader(TRUE, OpPong, 0, <<>>), TRUE) EXCEPT !.slot = TRUE]
    BY <1>8 DEF Dispatch
  <2>2. SignalIn(p.version, f) = <<>>
    BY <1>8 DEF SignalIn
  <2>3. AnswerOf(f) = <<m>>
    BY <1>8 DEF AnswerOf
  <2>4. m \in Report
    BY PongType DEF Report
  <2>5. d.emitted = p.emitted /\ d.ws = p.ws /\ d.written = Append(p.written, m)
    BY <2>1, PongWritten
  <2> HIDE DEF d, m
  <2>6. d.written = p.written \o <<m>>
    BY <1>3, <2>4, <2>5, OneReport
  <2> QED BY <1>1, <1>3, <1>8, <2>2, <2>3, <2>5, <2>6 DEF d
<1>9. CASE f.opcode = 8
  <2> DEFINE c == [p EXCEPT !.received = TRUE]
             v == Close(c, p.code)
  <2>1. d = v
    BY <1>9 DEF Dispatch
  <2>2. SignalIn(p.version, f) = <<>> /\ AnswerOf(f) = <<>>
    BY <1>9 DEF SignalIn, AnswerOf
  <2>3. c \in SocketType /\ c.emitted = p.emitted /\ c.written = p.written /\ c.received = TRUE
        /\ p.code \in Nat
    BY DEF SocketType
  <2> HIDE DEF c
  <2>4. ClosedLife(c, v) /\ (c.ws = "Unconnected" => v = c)
    BY <2>3, CloseStep
  <2>5. v.ws = "Unconnected"
    BY <2>3, <2>4 DEF ClosedLife
  <2>6. v.emitted = c.emitted /\ v.written = c.written
    <3>1. CASE c.ws = "Unconnected"
      BY <2>4, <3>1
    <3>2. CASE c.ws # "Unconnected"
      BY <2>3, <3>2, CloseSays DEF SameReader
    <3> QED BY <3>1, <3>2
  <2> HIDE DEF d, v
  <2> QED BY <1>1, <1>3, <2>1, <2>2, <2>3, <2>5, <2>6 DEF d
<1>10. CASE f.opcode = 0
  <2>1. d = p
    BY <1>10 DEF Dispatch
  <2>2. SignalIn(p.version, f) = <<>> /\ AnswerOf(f) = <<>>
    BY <1>10 DEF SignalIn, AnswerOf
  <2> HIDE DEF d
  <2> QED BY <1>1, <1>3, <1>10, <2>1, <2>2 DEF d
<1> QED
  BY <1>2, <1>5, <1>6, <1>7, <1>8, <1>9, <1>10

\* With its body a frame has been read.
LEMMA PlainReport ==
  ASSUME NEW s \in SocketType, s.version # 0, s.tcp # "Unconnected",
         NEW f, Plain(f), NEW after \in Bytes, NEW y \in Bytes,
         Knows(s, f), s.readingState = "PayloadBodyPending",
         Len(s.buffer) >= s.length.low, s.buffer \o after = Body(f) \o y,
         f.opcode = OpClose => y = <<>>,
         f.opcode \in {OpText, OpBinary} => s.frame = <<>>
  PROVE  LET t == ReadBody(s)
         IN  /\ t.readingState = "HeaderPending" /\ t.running = s.running /\ t.buffer \o after = y
             /\ t.frame = <<>> \/ ~f.final
             /\ t.emitted = s.emitted \o SignalIn(s.version, f) /\ t.written = s.written \o AnswerOf(f)
             /\ s.ws = "Unconnected" \/ f.opcode = OpClose => t.ws = "Unconnected"
<1> DEFINE t == ReadBody(s)
           p == Payload(ReadStatusCode(s))
           d == Dispatch(p)
<1>1. Reader!Written(f)
  BY DEF Plain
<1>2. /\ f.final \in BOOLEAN /\ f.payload \in Bytes /\ (f.opcode >= 8 => f.final) /\ f.opcode \in 0 .. 10
  BY <1>1, WrittenParts
<1>3. /\ p \in SocketType /\ SameLife(s, p) /\ p.running = s.running
      /\ p.readingState = "HeaderPending"
      /\ p.final = f.final /\ p.opcode = f.opcode
      /\ f.opcode # OpClose => p.frame = s.frame \o f.payload
      /\ p.buffer \o after = y
      /\ p.emitted = s.emitted /\ p.written = s.written
  BY PlainBody
<1>4. t = IF p.final THEN [d EXCEPT !.frame = <<>>] ELSE p
  BY DEF ReadBody
<1>5. p.version = s.version /\ p.ws = s.ws /\ p.tcp = s.tcp
  BY <1>3 DEF SameLife
<1> HIDE DEF p, t
<1>6. CASE ~f.final
  <2>1. t = p
    BY <1>3, <1>4, <1>6
  <2>2. SignalIn(s.version, f) = <<>>
    BY <1>6 DEF SignalIn
  <2>3. f.opcode # OpClose /\ f.opcode # OpPing
    BY <1>2, <1>6 DEF OpClose, OpPing
  <2>4. AnswerOf(f) = <<>>
    BY <2>3 DEF AnswerOf
  <2>5. s.emitted \o <<>> = s.emitted /\ s.written \o <<>> = s.written
    BY OneReport DEF SocketType
  <2> QED BY <1>3, <1>5, <1>6, <2>1, <2>2, <2>3, <2>4, <2>5 DEF t
<1>7. CASE f.final
  <2>1. f.opcode \in {OpText, OpBinary} => p.frame = f.payload
    <3> HAVE f.opcode \in {OpText, OpBinary}
    <3> DEFINE q == f.payload
    <3>1. q \in Bytes /\ s.frame = <<>> /\ f.opcode # OpClose
      BY <1>2 DEF OpText, OpBinary, OpClose
    <3> HIDE DEF q
    <3>2. <<>> \o q = q
      BY <3>1, NoneJoined
    <3> QED BY <1>3, <3>1, <3>2 DEF q
  <2>2. p.version # 0 /\ p.tcp # "Unconnected"
    BY <1>5
  <2>3. /\ d \in SocketType /\ SameReading(p, d)
        /\ d.emitted = p.emitted \o SignalIn(p.version, f) /\ d.written = p.written \o AnswerOf(f)
        /\ p.ws = "Unconnected" \/ f.opcode = OpClose => d.ws = "Unconnected"
    BY <1>1, <1>3, <1>7, <2>1, <2>2, Dispatched
  <2> HIDE DEF d
  <2>4. t = [d EXCEPT !.frame = <<>>]
    BY <1>3, <1>4, <1>7
  <2>5. /\ t.frame = <<>> /\ t.emitted = d.emitted /\ t.written = d.written /\ t.ws = d.ws
        /\ t.buffer = d.buffer /\ t.readingState = d.readingState /\ t.running = d.running
    BY <2>3, <2>4 DEF SocketType
  <2>6. t.buffer = p.buffer /\ t.readingState = p.readingState /\ t.running = p.running
    BY <2>3, <2>5 DEF SameReading
  <2> QED BY <1>3, <1>5, <2>3, <2>5, <2>6 DEF t
<1> QED
  BY <1>2, <1>6, <1>7

----------------------------------------------------------------------------
(* The reader of version 4 and the frames of a connection.                 *)

\* The frames fs as bytes, and what is to become of them.
Coded(version, fs) == [i \in 1 .. Len(fs) |-> Reader!Encode(version, fs[i])]
Signalled(version, fs) == [i \in 1 .. Len(fs) |-> SignalIn(version, fs[i])]
Answered(fs) == [i \in 1 .. Len(fs) |-> AnswerOf(fs[i])]

\* What the server keeps to.
Fits(version, fs) ==
  /\ \A i \in 1 .. Len(fs) :
       /\ Reader!Written(fs[i])
       /\ version = 0 => fs[i].final /\ fs[i].opcode \in {OpText, OpBinary, OpClose}
                         /\ (fs[i].opcode = OpBinary => Len(fs[i].payload) < 128)
  /\ \A i \in 1 .. Len(fs) - 1 :
       fs[i].opcode # OpClose /\ (~fs[i].final => fs[i + 1].opcode \notin {OpText, OpBinary})

\* k frames have been reported.
Told(s, fs, k) ==
  /\ s.emitted = Gone(Signalled(s.version, fs), k) /\ s.written = Gone(Answered(fs), k)
  /\ s.version # 0 /\ (\E i \in 1 .. k : fs[i].opcode = OpClose) => s.ws = "Unconnected"

\* The reader of version 4 has the bytes x to read, those behind the k-th frame
\* or what is left of the next one and those behind it.
PlaceV4(s, fs, k, x) ==
  /\ s.frame = <<>> \/ (k > 0 /\ ~fs[k].final)
  /\ \/ s.readingState = "HeaderPending" /\ x = ToCome(Coded(s.version, fs), k)
     \/ k < Len(fs) /\ Knows(s, fs[k + 1])
        /\ x = Still(s.readingState, fs[k + 1]) \o ToCome(Coded(s.version, fs), k + 1)

\* A frame of version 0.
LEMMA WireTypeV0 ==
  ASSUME NEW f, Reader!Written(f), f.opcode \in {OpText, OpBinary, OpClose},
         f.opcode = OpBinary => Len(f.payload) < 128
  PROVE  /\ Reader!EncodeV0(f) \in Bytes
         /\ f.opcode = OpText => Reader!EncodeV0(f) = (<<0>> \o f.payload) \o <<255>>
         /\ f.opcode = OpClose => Reader!EncodeV0(f) = <<255, 0>>
<1> USE DEF OpText, OpBinary, OpClose
<1>1. Reader!OpText = 1 /\ Reader!OpBinary = 2 /\ Reader!OpClose = 8
  BY SameOperators, Zenon
<1>2. f.payload \in Bytes /\ Len(f.payload) \in Nat
  BY WrittenParts
<1>3. 0 \in Byte /\ 255 \in Byte /\ 128 \in Byte /\ \A n \in Nat : n < 128 => n \in Byte
  BY DEF Byte
<1>4. <<0>> \in Bytes /\ <<255>> \in Bytes /\ <<255, 0>> \in Bytes
  BY <1>3, BytesInRow, ZenonT(60)
<1>5. CASE f.opcode = 1
  <2>1. Reader!EncodeV0(f) = (<<0>> \o f.payload) \o <<255>>
    BY <1>1, <1>5 DEF Reader!EncodeV0
  <2> QED BY <1>2, <1>4, <1>5, <2>1, BytesJoined
<1>6. CASE f.opcode = 2
  <2> DEFINE n == Len(f.payload)
  <2>1. Reader!EncodeV0(f) = <<128, n>> \o f.payload
    BY <1>1, <1>6 DEF Reader!EncodeV0
  <2>2. n \in Byte
    BY <1>2, <1>3, <1>6
  <2> HIDE DEF n
  <2>3. <<128, n>> \in Bytes
    BY <1>3, <2>2, BytesInRow
  <2> QED BY <1>2, <1>6, <2>1, <2>3, BytesJoined
<1>7. CASE f.opcode = 8
  <2>1. Reader!EncodeV0(f) = <<255, 0>>
    BY <1>1, <1>7 DEF Reader!EncodeV0
  <2> QED BY <1>4, <1>7, <2>1
<1> QED
  BY <1>5, <1>6, <1>7

\* What fits in either version is sent as bytes.
LEMMA CodeType ==
  ASSUME NEW version, NEW f, Reader!Written(f),
         version = 0 => f.opcode \in {OpText, OpBinary, OpClose} /\ (f.opcode = OpBinary => Len(f.payload) < 128)
  PROVE  /\ Reader!Encode(version, f) \in Bytes
         /\ version # 0 => Reader!Encode(version, f) = Reader!EncodeV4(f)
         /\ version = 0 => Reader!Encode(version, f) = Reader!EncodeV0(f)
<1>1. CASE version = 0
  BY <1>1, WireTypeV0 DEF Reader!Encode
<1>2. CASE version # 0
  BY <1>2, WireType DEF Reader!Encode
<1> QED
  BY <1>1, <1>2

\* All three are rows of sequences.
LEMMA RowTypes ==
  ASSUME NEW version, NEW fs, Len(fs) \in Nat, Fits(version, fs)
  PROVE  /\ Coded(version, fs) \in Seq(Seq(Byte)) /\ Len(Coded(version, fs)) = Len(fs)
         /\ Signalled(version, fs) \in Seq(Seq(Report)) /\ Len(Signalled(version, fs)) = Len(fs)
         /\ Answered(fs) \in Seq(Seq(Report)) /\ Len(Answered(fs)) = Len(fs)
         /\ \A i \in 1 .. Len(fs) :
              /\ Coded(version, fs)[i] = Reader!Encode(version, fs[i])
              /\ Signalled(version, fs)[i] = SignalIn(version, fs[i])
              /\ Answered(fs)[i] = AnswerOf(fs[i])
<1> DEFINE n == Len(fs)
           c == Coded(version, fs)
           g == Signalled(version, fs)
           a == Answered(fs)
<1>1. \A i \in 1 .. n : Reader!Encode(version, fs[i]) \in Seq(Byte)
  <2> TAKE i \in 1 .. n
  <2>1. /\ Reader!Written(fs[i])
        /\ version = 0 => fs[i].opcode \in {OpText, OpBinary, OpClose}
                          /\ (fs[i].opcode = OpBinary => Len(fs[i].payload) < 128)
    BY DEF Fits
  <2> QED BY <2>1, CodeType DEF Bytes
<1>2. \A i \in 1 .. n : SignalIn(version, fs[i]) \in Seq(Report) /\ AnswerOf(fs[i]) \in Seq(Report)
  <2> TAKE i \in 1 .. n
  <2>1. Reader!Written(fs[i])
    BY DEF Fits
  <2> QED BY <2>1, SignalType DEF Reports
<1>3. c \in [1 .. n -> Seq(Byte)] /\ g \in [1 .. n -> Seq(Report)] /\ a \in [1 .. n -> Seq(Report)]
  BY <1>1, <1>2 DEF Coded, Signalled, Answered
<1>4. \A i \in 1 .. n : /\ c[i] = Reader!Encode(version, fs[i])
                        /\ g[i] = SignalIn(version, fs[i]) /\ a[i] = AnswerOf(fs[i])
  BY DEF Coded, Signalled, Answered
<1> HIDE DEF n, c, g, a
<1>5. n \in Nat
  BY DEF n
<1>6. c \in Seq(Seq(Byte)) /\ Len(c) = n
  BY <1>3, <1>5, IsASeq, LenProperties
<1>7. g \in Seq(Seq(Report)) /\ Len(g) = n
  BY <1>3, <1>5, IsASeq, LenProperties
<1>8. a \in Seq(Seq(Report)) /\ Len(a) = n
  BY <1>3, <1>5, IsASeq, LenProperties
<1> QED
  BY <1>4, <1>6, <1>7, <1>8 DEF n, c, g, a

\* Nothing more has been reported.
LEMMA ToldSame ==
  ASSUME NEW s, NEW t, NEW fs, NEW k, Told(s, fs, k),
         t.version = s.version, t.emitted = s.emitted, t.written = s.written,
         s.ws = "Unconnected" => t.ws = "Unconnected"
  PROVE  Told(t, fs, k)
BY DEF Told

\* One frame more has been reported.
LEMMA ToldNext ==
  ASSUME NEW s, NEW t, NEW fs, Len(fs) \in Nat, Fits(s.version, fs),
         NEW k \in 0 .. Len(fs), k < Len(fs), Told(s, fs, k),
         t.version = s.version,
         t.emitted = s.emitted \o SignalIn(s.version, fs[k + 1]),
         t.written = s.written \o AnswerOf(fs[k + 1]),
         s.version # 0 /\ (s.ws = "Unconnected" \/ fs[k + 1].opcode = OpClose) => t.ws = "Unconnected"
  PROVE  Told(t, fs, k + 1)
<1> DEFINE v == s.version
           g == Signalled(v, fs)
           a == Answered(fs)
           j == k + 1
<1>1. /\ g \in Seq(Seq(Report)) /\ Len(g) = Len(fs) /\ a \in Seq(Seq(Report)) /\ Len(a) = Len(fs)
      /\ \A i \in 1 .. Len(fs) : g[i] = SignalIn(v, fs[i]) /\ a[i] = AnswerOf(fs[i])
  BY RowTypes
<1>2. k \in 0 .. Len(fs) - 1 /\ j \in 1 .. Len(fs) /\ k \in Nat
  OBVIOUS
<1> HIDE DEF g, a
<1>3. Gone(g, k + 1) = Gone(g, k) \o g[k + 1] /\ Gone(a, k + 1) = Gone(a, k) \o a[k + 1]
  BY <1>1, <1>2, GoneOn
<1>4. g[k + 1] = SignalIn(v, fs[k + 1]) /\ a[k + 1] = AnswerOf(fs[k + 1])
  BY <1>1, <1>2
<1>5. s.emitted = Gone(g, k) /\ s.written = Gone(a, k)
      /\ (v # 0 /\ (\E i \in 1 .. k : fs[i].opcode = OpClose) => s.ws = "Unconnected")
  BY DEF Told, g, a
<1>6. t.emitted = Gone(g, j) /\ t.written = Gone(a, j)
  BY <1>3, <1>4, <1>5
<1>7. v # 0 /\ (\E i \in 1 .. j : fs[i].opcode = OpClose) => t.ws = "Unconnected"
  <2> SUFFICES ASSUME v # 0, NEW i \in 1 .. j, fs[i].opcode = OpClose
               PROVE  t.ws = "Unconnected"
    OBVIOUS
  <2>1. i \in 1 .. k \/ i = k + 1
    BY <1>2
  <2>2. CASE i = k + 1
    BY <2>2
  <2>3. CASE i \in 1 .. k
    BY <1>5, <2>3
  <2> QED BY <2>1, <2>2, <2>3
<1> QED
  BY <1>6, <1>7 DEF Told, g, a

\* Where the reader goes on, its frame being the next one.
LEMMA PlaceWithin ==
  ASSUME NEW s, NEW t, NEW fs, NEW k \in 0 .. Len(fs), k < Len(fs), NEW x,
         s.frame = <<>> \/ (k > 0 /\ ~fs[k].final), t.frame = s.frame,
         Knows(t, fs[k + 1]),
         x = Still(t.readingState, fs[k + 1]) \o ToCome(Coded(t.version, fs), k + 1)
  PROVE  PlaceV4(t, fs, k, x)
BY DEF PlaceV4

\* The frame the reader begins with, or is in.
LEMMA FrameNext ==
  ASSUME NEW version, NEW fs, Len(fs) \in Nat, Fits(version, fs), version # 0,
         \A i \in 1 .. Len(fs) : Plain(fs[i]),
         NEW k \in 0 .. Len(fs), k < Len(fs)
  PROVE  LET c == Coded(version, fs)
         IN  /\ Plain(fs[k + 1]) /\ ToCome(c, k + 1) \in Bytes
             /\ ToCome(c, k) = Reader!EncodeV4(fs[k + 1]) \o ToCome(c, k + 1)
             /\ fs[k + 1].opcode = OpClose => ToCome(c, k + 1) = <<>>
             /\ k > 0 /\ ~fs[k].final => fs[k + 1].opcode \notin {OpText, OpBinary}
<1> DEFINE c == Coded(version, fs)
           n == Len(fs)
           j == k + 1
           f == fs[k + 1]
<1>1. /\ c \in Seq(Seq(Byte)) /\ Len(c) = n
      /\ \A i \in 1 .. n : c[i] = Reader!Encode(version, fs[i])
  BY RowTypes
<1>2. n \in Nat /\ j \in 1 .. n /\ j \in 0 .. n /\ k \in 0 .. n - 1
  OBVIOUS
<1> HIDE DEF c
<1>3. ToCome(c, n) = <<>> /\ ToCome(c, j) \in Seq(Byte) /\ ToCome(c, k) = c[k + 1] \o ToCome(c, k + 1)
  BY <1>1, <1>2, AheadOn
<1>4. Plain(fs[j]) /\ c[j] = Reader!Encode(version, fs[j])
  BY <1>1, <1>2
<1>5. Reader!Encode(version, fs[j]) = Reader!EncodeV4(fs[j])
  BY <1>4, CodeType DEF Plain
<1>6. fs[j].opcode = OpClose => ToCome(c, j) = <<>>
  <2> HAVE fs[j].opcode = OpClose
  <2>1. j \notin 1 .. n - 1
    BY DEF Fits
  <2>2. j = n
    BY <1>2, <2>1
  <2> QED BY <1>3, <2>2
<1>7. k > 0 /\ ~fs[k].final => fs[k + 1].opcode \notin {OpText, OpBinary}
  <2> HAVE k > 0 /\ ~fs[k].final
  <2>1. k \in 1 .. n - 1
    BY <1>2
  <2> QED BY <2>1 DEF Fits
<1> QED
  BY <1>3, <1>4, <1>5, <1>6, <1>7 DEF c, Bytes

\* The reader has a position and its reports there.
StandsV4(s, fs, k, after) ==
  PlaceV4(s, fs, k, s.buffer \o after) /\ Told(s, fs, k)

\* What a reading of a part of a frame keeps.
LEMMA PartRead ==
  ASSUME NEW s \in SocketType, NEW t, NEW fs, NEW k \in 0 .. Len(fs), k < Len(fs), NEW after,
         StandsV4(s, fs, k, after), ReadOn(s, t), SameMessages(s, t),
         Knows(t, fs[k + 1]),
         t.buffer \o after = Still(t.readingState, fs[k + 1]) \o ToCome(Coded(s.version, fs), k + 1)
  PROVE  StandsV4(t, fs, k, after) /\ t.running = s.running
<1>1. /\ t.version = s.version /\ t.ws = s.ws /\ t.running = s.running
      /\ t.frame = s.frame /\ t.emitted = s.emitted /\ t.written = s.written
  BY DEF ReadOn, SameLife, SameMessages
<1>2. PlaceV4(t, fs, k, t.buffer \o after)
  <2>1. s.frame = <<>> \/ (k > 0 /\ ~fs[k].final)
    BY DEF StandsV4, PlaceV4
  <2> QED BY <1>1, <2>1, PlaceWithin
<1>3. Told(t, fs, k)
  BY <1>1, ToldSame DEF StandsV4
<1> QED BY <1>1, <1>2, <1>3 DEF StandsV4

\* What the body of a frame brings about.
LEMMA BodyStands ==
  ASSUME NEW s \in SocketType, s.version # 0, s.tcp # "Unconnected",
         NEW fs, Len(fs) \in Nat, Fits(s.version, fs), \A i \in 1 .. Len(fs) : Plain(fs[i]),
         NEW k \in 0 .. Len(fs), k < Len(fs), NEW after \in Bytes,
         StandsV4(s, fs, k, after), Knows(s, fs[k + 1]), s.readingState = "PayloadBodyPending",
         s.buffer \o after = Body(fs[k + 1]) \o ToCome(Coded(s.version, fs), k + 1),
         Len(s.buffer) >= s.length.low
  PROVE  LET t == ReadBody(s)
         IN  StandsV4(t, fs, k + 1, after) /\ t.running = s.running
<1> DEFINE t == ReadBody(s)
           f == fs[k + 1]
           y == ToCome(Coded(s.version, fs), k + 1)
<1>1. /\ Plain(f) /\ y \in Bytes /\ (f.opcode = OpClose => y = <<>>)
      /\ (k > 0 /\ ~fs[k].final => f.opcode \notin {OpText, OpBinary})
  BY FrameNext
<1>2. (s.frame = <<>> \/ (k > 0 /\ ~fs[k].final)) /\ Told(s, fs, k)
  BY DEF StandsV4, PlaceV4
<1>3. s.buffer \o after = Body(f) \o y /\ Knows(s, f) /\ (f.opcode \in {OpText, OpBinary} => s.frame = <<>>)
  BY <1>1, <1>2
<1> HIDE DEF f, y
<1>4. /\ t.readingState = "HeaderPending" /\ t.running = s.running /\ t.buffer \o after = y
      /\ t.frame = <<>> \/ ~f.final
      /\ t.emitted = s.emitted \o SignalIn(s.version, f) /\ t.written = s.written \o AnswerOf(f)
      /\ s.ws = "Unconnected" \/ f.opcode = OpClose => t.ws = "Unconnected"
  BY <1>1, <1>3, PlainReport
<1>5. t.version = s.version
  BY ReadBodyStep, ReadLifeKeeps DEF RunOn
<1> HIDE DEF t
<1>6. Told(t, fs, k + 1)
  BY <1>2, <1>4, <1>5, ToldNext DEF f
<1>7. PlaceV4(t, fs, k + 1, t.buffer \o after)
  <2>1. k + 1 > 0
    OBVIOUS
  <2> QED BY <1>4, <1>5, <2>1 DEF PlaceV4, f, y
<1> QED
  BY <1>4, <1>6, <1>7 DEF StandsV4, t

\* The reader of version 4 returns when it has to wait.
LEMMA ReturnStands ==
  ASSUME NEW s \in SocketType, NEW fs, NEW k \in 0 .. Len(fs), NEW after, StandsV4(s, fs, k, after)
  PROVE  LET t == Return(s)
         IN  /\ StandsV4(t, fs, k, after)
             /\ t.version = s.version /\ t.buffer = s.buffer /\ Needed(t) = Needed(s)
<1> DEFINE t == Return(s)
<1>1. /\ t.version = s.version /\ t.ws = s.ws /\ t.frame = s.frame /\ t.buffer = s.buffer
      /\ t.emitted = s.emitted /\ t.written = s.written /\ t.readingState = s.readingState
      /\ t.final = s.final /\ t.opcode = s.opcode /\ t.hasMask = s.hasMask
      /\ t.length = s.length /\ t.key = s.key
  BY DEF Return, SocketType
<1> HIDE DEF t
<1>2. Told(t, fs, k)
  BY <1>1, ToldSame DEF StandsV4
<1>3. \A f : Knows(s, f) => Knows(t, f)
  BY <1>1 DEF Knows
<1>4. PlaceV4(t, fs, k, t.buffer \o after)
  BY <1>1, <1>3 DEF StandsV4, PlaceV4
<1>5. Needed(t) = Needed(s)
  BY <1>1 DEF Needed
<1> QED
  BY <1>1, <1>2, <1>4, <1>5 DEF StandsV4, t

\* One iteration of the reader of version 4.
LEMMA IterationStands ==
  ASSUME NEW s \in SocketType, s.version # 0, s.tcp # "Unconnected", s.running = TRUE,
         NEW fs, Len(fs) \in Nat, Fits(s.version, fs), \A i \in 1 .. Len(fs) : Plain(fs[i]),
         NEW k \in 0 .. Len(fs), NEW after \in Bytes, StandsV4(s, fs, k, after)
  PROVE  LET t == IterateV4(s)
         IN  \E j \in 0 .. Len(fs) :
               StandsV4(t, fs, j, after) /\ (~t.running => Len(t.buffer) < Needed(t))
<1> DEFINE t == IterateV4(s)
           f == fs[k + 1]
           c == Coded(s.version, fs)
           y == ToCome(c, k + 1)
           b == s.buffer
<1>1. b \in Bytes /\ Len(b) \in Nat
  BY LengthIsNat DEF SocketType
<1>2. /\ s.frame = <<>> \/ (k > 0 /\ ~fs[k].final)
      /\ \/ s.readingState = "HeaderPending" /\ b \o after = ToCome(c, k)
         \/ k < Len(fs) /\ Knows(s, f) /\ b \o after = Still(s.readingState, f) \o y
  BY DEF StandsV4, PlaceV4
<1>3. CASE Len(b) < Needed(s)
  <2>1. t = Return(s)
    BY <1>3 DEF IterateV4
  <2>2. StandsV4(t, fs, k, after) /\ t.buffer = s.buffer /\ Needed(t) = Needed(s)
    BY <2>1, ReturnStands
  <2> QED BY <1>3, <2>2
<1>4. CASE ~(Len(b) < Needed(s)) /\ s.readingState = "HeaderPending"
  <2>1. Needed(s) = 2 /\ t = ReadHeader(s)
    BY <1>4 DEF Needed, IterateV4
  <2>2. Len(s.buffer) >= 2
    BY <1>1, <1>4, <2>1
  <2>3. b \o after = ToCome(c, k)
    BY <1>2, <1>4 DEF Knows
  <2>4. k < Len(fs)
    <3>1. CASE k = Len(fs)
      <4>1. c \in Seq(Seq(Byte)) /\ Len(c) = Len(fs)
        BY RowTypes
      <4>2. ToCome(c, k) = <<>>
        BY <3>1, <4>1, AheadOn
      <4>3. Len(b \o after) = Len(b) + Len(after) /\ Len(after) \in Nat
        BY <1>1, BytesConcat, LengthIsNat
      <4>4. Len(b \o after) = 0
        BY <2>3, <4>2
      <4> HIDE DEF b
      <4> QED BY <1>1, <2>2, <4>3, <4>4 DEF b
    <3>2. CASE k # Len(fs)
      BY <3>2
    <3> QED BY <3>1, <3>2
  <2>5. Plain(f) /\ y \in Bytes /\ ToCome(c, k) = Reader!EncodeV4(f) \o y
    BY <2>4, FrameNext
  <2> HIDE DEF f, y, c
  <2> DEFINE u == ReadHeader(s)
  <2>9. s.buffer \o after = Reader!EncodeV4(f) \o y
    BY <2>3, <2>5
  <2>10. Knows(u, f) /\ u.buffer \o after = Still(u.readingState, f) \o y /\ SameMessages(s, u)
    BY <2>2, <2>5, <2>9, PlainHeader
  <2>6. Knows(t, f) /\ t.buffer \o after = Still(t.readingState, f) \o y /\ SameMessages(s, t)
    <3> HIDE DEF t, u
    <3> QED BY <2>1, <2>10 DEF u
  <2>7. ReadOn(s, t)
    BY <2>1, <2>2, ReadHeaderStep
  <2> HIDE DEF t
  <2>8. StandsV4(t, fs, k, after) /\ t.running = s.running
    BY <2>4, <2>6, <2>7, PartRead DEF f, y, c
  <2> QED BY <2>8 DEF t
<1>5. ASSUME s.readingState # "HeaderPending"
      PROVE  k < Len(fs) /\ Knows(s, f) /\ b \o after = Still(s.readingState, f) \o y /\ Plain(f) /\ y \in Bytes
  BY <1>2, <1>5, FrameNext
<1>6. CASE ~(Len(b) < Needed(s)) /\ s.readingState = "PayloadLengthPending"
  <2>1. Needed(s) = 2 /\ t = ReadLength(s)
    BY <1>6 DEF Needed, IterateV4
  <2>2. Len(s.buffer) >= 2 /\ s.readingState # "HeaderPending"
    BY <1>1, <1>6, <2>1
  <2>5. k < Len(fs) /\ Knows(s, f) /\ b \o after = Still(s.readingState, f) \o y /\ Plain(f) /\ y \in Bytes
    BY <1>5, <2>2
  <2> HIDE DEF f, y
  <2> DEFINE u == ReadLength(s)
  <2>4. Knows(u, f) /\ u.buffer \o after = Still(u.readingState, f) \o y /\ SameMessages(s, u)
    BY <1>6, <2>2, <2>5, PlainShortLength
  <2>6. Knows(t, f) /\ t.buffer \o after = Still(t.readingState, f) \o y /\ SameMessages(s, t)
    <3> HIDE DEF t, u
    <3> QED BY <2>1, <2>4 DEF u
  <2>7. ReadOn(s, t)
    BY <2>1, <2>2, ReadLengthStep
  <2> HIDE DEF t
  <2>8. StandsV4(t, fs, k, after) /\ t.running = s.running
    BY <2>5, <2>6, <2>7, PartRead DEF f, y
  <2> QED BY <2>8 DEF t
<1>7. CASE ~(Len(b) < Needed(s)) /\ s.readingState = "BigPayloadLenghPending"
  <2>1. Needed(s) = 8 /\ t = ReadBigLength(s)
    BY <1>7 DEF Needed, IterateV4
  <2>2. Len(s.buffer) >= 8 /\ s.readingState # "HeaderPending"
    BY <1>1, <1>7, <2>1
  <2>5. k < Len(fs) /\ Knows(s, f) /\ b \o after = Still(s.readingState, f) \o y /\ Plain(f) /\ y \in Bytes
    BY <1>5, <2>2
  <2> HIDE DEF f, y
  <2> DEFINE u == ReadBigLength(s)
  <2>4. Knows(u, f) /\ u.buffer \o after = Still(u.readingState, f) \o y /\ SameMessages(s, u)
    BY <1>7, <2>2, <2>5, PlainLongLength
  <2>6. Knows(t, f) /\ t.buffer \o after = Still(t.readingState, f) \o y /\ SameMessages(s, t)
    <3> HIDE DEF t, u
    <3> QED BY <2>1, <2>4 DEF u
  <2>7. ReadOn(s, t)
    BY <2>1, <2>2, ReadBigLengthStep
  <2> HIDE DEF t
  <2>8. StandsV4(t, fs, k, after) /\ t.running = s.running
    BY <2>5, <2>6, <2>7, PartRead DEF f, y
  <2> QED BY <2>8 DEF t
<1>8. CASE ~(Len(b) < Needed(s)) /\ s.readingState = "MaskPending" /\ ~s.hasMask
  <2> DEFINE u == [s EXCEPT !.readingState = "PayloadBodyPending"]
  <2>1. t = u
    BY <1>8 DEF IterateV4
  <2>2. s.readingState # "HeaderPending"
    BY <1>8
  <2>3. k < Len(fs) /\ Knows(s, f) /\ b \o after = Still(s.readingState, f) \o y /\ Plain(f) /\ y \in Bytes
    BY <1>5, <2>2
  <2>4. /\ u \in SocketType /\ ReadOn(s, u) /\ SameMessages(s, u) /\ u.readingState = "PayloadBodyPending"
        /\ u.final = s.final /\ u.opcode = s.opcode /\ u.hasMask = s.hasMask /\ u.length = s.length
        /\ u.buffer = b
    BY DEF ReadOn, SocketType, ReadingStates, SameLife, SameMessages
  <2> HIDE DEF f, y, u, b
  <2>5. f.key = <<>> /\ s.length = Short(Len(f.payload))
    BY <1>8, <2>3 DEF Knows
  <2>6. Knows(u, f)
    BY <2>3, <2>4, <2>5 DEF Knows
  <2>7. Still("MaskPending", f) = f.key \o Body(f) /\ Still("PayloadBodyPending", f) = Body(f)
    BY <2>3, StillType DEF Plain
  <2>8. <<>> \o Body(f) = Body(f)
    BY <2>3, BodyType, NoneJoined DEF Plain
  <2>9. u.buffer \o after = Still(u.readingState, f) \o y
    BY <1>8, <2>3, <2>4, <2>5, <2>7, <2>8
  <2>10. StandsV4(u, fs, k, after) /\ u.running = s.running
    BY <2>3, <2>4, <2>6, <2>9, PartRead DEF f, y
  <2> QED BY <2>1, <2>10
<1>9. CASE ~(Len(b) < Needed(s)) /\ s.readingState = "MaskPending" /\ s.hasMask
  <2> DEFINE u == ReadMask(s)
  <2>1. Needed(s) = 4 /\ t = BodyIfThere(u)
    BY <1>9 DEF Needed, IterateV4
  <2>2. Len(s.buffer) >= 4 /\ s.readingState # "HeaderPending" /\ s.hasMask = TRUE
    BY <1>1, <1>9, <2>1 DEF SocketType
  <2>3. k < Len(fs) /\ Knows(s, f) /\ b \o after = Still(s.readingState, f) \o y /\ Plain(f) /\ y \in Bytes
    BY <1>5, <2>2
  <2>4. ReadOn(s, u)
    BY <2>2, ReadMaskStep
  <2>5. u \in SocketType /\ u.version = s.version /\ u.tcp = s.tcp
    BY <2>4 DEF ReadOn, SameLife
  <2> HIDE DEF f, y
  <2>6. /\ Knows(u, f) /\ u.readingState = "PayloadBodyPending"
        /\ u.buffer \o after = Body(f) \o y /\ SameMessages(s, u)
    BY <1>9, <2>2, <2>3, PlainMask
  <2> HIDE DEF u
  <2>7. Still("PayloadBodyPending", f) = Body(f)
    BY <2>3, StillType DEF Plain
  <2>8. StandsV4(u, fs, k, after) /\ u.running = s.running
    BY <2>3, <2>4, <2>6, <2>7, PartRead DEF f, y, c
  <2>9. CASE Len(u.buffer) < u.length.low
    <3>1. t = Return(u)
      BY <2>1, <2>9 DEF BodyIfThere
    <3>2. StandsV4(t, fs, k, after) /\ t.buffer = u.buffer /\ Needed(t) = Needed(u)
      BY <2>5, <2>8, <3>1, ReturnStands
    <3>3. Needed(u) = u.length.low
      BY <2>6 DEF Needed
    <3> QED BY <2>9, <3>2, <3>3
  <2>10. CASE ~(Len(u.buffer) < u.length.low)
    <3>1. t = ReadBody(u)
      BY <2>1, <2>10 DEF BodyIfThere
    <3>2. Len(u.buffer) >= u.length.low
      <4>1. Len(u.buffer) \in Nat /\ u.length.low \in Int
        BY <2>5, LengthIsNat DEF SocketType
      <4> QED BY <2>10, <4>1
    <3>3. StandsV4(t, fs, k + 1, after) /\ t.running = u.running
      BY <2>3, <2>5, <2>6, <2>8, <3>1, <3>2, BodyStands DEF f, y, c
    <3>4. k + 1 \in 0 .. Len(fs)
      BY <2>3
    <3> HIDE DEF t
    <3> QED BY <2>8, <3>3, <3>4 DEF t
  <2> QED BY <2>9, <2>10
<1>10. CASE ~(Len(b) < Needed(s)) /\ s.readingState = "PayloadBodyPending"
  <2>1. Needed(s) = s.length.low /\ t = ReadBody(s)
    BY <1>10 DEF Needed, IterateV4
  <2>2. Len(s.buffer) >= s.length.low /\ s.readingState # "HeaderPending"
    <3>1. s.length.low \in Int
      BY DEF SocketType
    <3> QED BY <1>1, <1>10, <2>1, <3>1
  <2>3. k < Len(fs) /\ Knows(s, f) /\ b \o after = Still(s.readingState, f) \o y /\ Plain(f) /\ y \in Bytes
    BY <1>5, <2>2
  <2>4. Still("PayloadBodyPending", f) = Body(f)
    BY <2>3, StillType DEF Plain
  <2>5. s.buffer \o after = Body(f) \o y
    BY <1>10, <2>3, <2>4
  <2>6. StandsV4(t, fs, k + 1, after) /\ t.running = s.running
    BY <1>10, <2>1, <2>2, <2>3, <2>5, BodyStands
  <2>7. k + 1 \in 0 .. Len(fs)
    BY <2>3
  <2> HIDE DEF t
  <2> QED BY <2>6, <2>7 DEF t
<1>11. CASE s.readingState = "CloseDataPending"
  <2>1. Knows(s, f)
    BY <1>2, <1>11
  <2>2. FALSE
    BY <1>11, <2>1 DEF Knows
  <2> QED BY <2>2
<1>12. s.readingState \in ReadingStates
  BY DEF SocketType
<1> HIDE DEF t
<1> QED
  BY <1>3, <1>4, <1>6, <1>7, <1>8, <1>9, <1>10, <1>11, <1>12 DEF ReadingStates, t

----------------------------------------------------------------------------
(* The reader of version 0 and the frames of a connection.                 *)

\* The reader of version 0 has the bytes x to read, those behind the k-th frame
\* or the second one of a Close frame.
PlaceV0(s, fs, k, x) ==
  /\ s.frame = <<>>
  /\ \/ x = ToCome(Coded(s.version, fs), k)
     \/ k + 1 = Len(fs) /\ fs[k + 1].opcode = OpClose /\ x = <<0>>

StandsV0(s, fs, k, after) ==
  PlaceV0(s, fs, k, s.buffer \o after) /\ Told(s, fs, k)

\* What the reader of version 0 copes with.
Texts(fs) == \A i \in 1 .. Len(fs) : fs[i].opcode # OpBinary

\* The next frame.
LEMMA FrameNextV0 ==
  ASSUME NEW fs, Len(fs) \in Nat, Fits(0, fs), Texts(fs), NEW k \in 0 .. Len(fs), k < Len(fs)
  PROVE  LET c == Coded(0, fs)
             f == fs[k + 1]
         IN  /\ Reader!Written(f) /\ f.final /\ f.opcode \in {OpText, OpClose}
             /\ ToCome(c, k + 1) \in Bytes
             /\ ToCome(c, k) = Reader!EncodeV0(f) \o ToCome(c, k + 1)
             /\ f.opcode = OpClose => ToCome(c, k + 1) = <<>> /\ k + 1 = Len(fs)
<1> DEFINE c == Coded(0, fs)
           n == Len(fs)
           j == k + 1
<1>1. /\ c \in Seq(Seq(Byte)) /\ Len(c) = n
      /\ \A i \in 1 .. n : c[i] = Reader!Encode(0, fs[i])
  BY RowTypes
<1>2. n \in Nat /\ j \in 1 .. n /\ j \in 0 .. n /\ k \in 0 .. n - 1
  OBVIOUS
<1> HIDE DEF c
<1>3. ToCome(c, n) = <<>> /\ ToCome(c, j) \in Seq(Byte) /\ ToCome(c, k) = c[k + 1] \o ToCome(c, k + 1)
  BY <1>1, <1>2, AheadOn
<1>4. Reader!Written(fs[j]) /\ fs[j].final /\ fs[j].opcode \in {OpText, OpClose}
  BY <1>2 DEF Fits, Texts
<1>5. c[j] = Reader!EncodeV0(fs[j])
  <2>1. c[j] = Reader!Encode(0, fs[j])
    BY <1>1, <1>2
  <2> QED BY <2>1 DEF Reader!Encode
<1>6. fs[j].opcode = OpClose => ToCome(c, j) = <<>> /\ j = n
  <2> HAVE fs[j].opcode = OpClose
  <2>1. j \notin 1 .. n - 1
    BY DEF Fits
  <2>2. j = n
    BY <1>2, <2>1
  <2> QED BY <1>3, <2>2
<1> QED
  BY <1>3, <1>4, <1>5, <1>6 DEF c, Bytes

\* What becomes of it.
LEMMA SignalsV0 ==
  ASSUME NEW f, Reader!Written(f), f.final, f.opcode \in {OpText, OpClose}
  PROVE  /\ AnswerOf(f) = <<>>
         /\ f.opcode = OpClose => SignalIn(0, f) = <<>>
         /\ f.opcode = OpText =>
              SignalIn(0, f) = IF f.payload = <<>> THEN <<>> ELSE <<[kind |-> "text", data |-> f.payload]>>
<1>1. f.opcode # OpPing /\ f.opcode # OpBinary /\ f.opcode # OpPong /\ (f.opcode = OpClose => f.opcode # OpText)
  BY DEF OpText, OpBinary, OpClose, OpPing, OpPong
<1>2. AnswerOf(f) = <<>>
  BY <1>1 DEF AnswerOf
<1>3. f.opcode = OpClose => SignalIn(0, f) = <<>>
  BY <1>1, Zenon DEF SignalIn
<1>4. f.opcode = OpText =>
        SignalIn(0, f) = IF f.payload = <<>> THEN <<>> ELSE <<[kind |-> "text", data |-> f.payload]>>
  BY <1>1, Zenon DEF SignalIn
<1> QED BY <1>2, <1>3, <1>4

\* Bytes behind bytes, one by one.
Consists(x, a, b) ==
  /\ x \in Bytes /\ Len(x) = Len(a) + Len(b)
  /\ \A i \in 1 .. Len(a) : x[i] = a[i]
  /\ \A i \in 1 .. Len(b) : x[Len(a) + i] = b[i]

\* So they are when joined.
LEMMA BytesAt ==
  ASSUME NEW a \in Bytes, NEW b \in Bytes
  PROVE  Consists(a \o b, a, b)
BY DEF Bytes, Consists

\* A text on the wire, byte by byte.
LEMMA TextAt ==
  ASSUME NEW p \in Bytes
  PROVE  LET z == (<<0>> \o p) \o <<255>>
         IN  /\ z \in Bytes /\ Len(z) = Len(p) + 2 /\ z[1] = 0 /\ z[Len(p) + 2] = 255
             /\ \A i \in 1 .. Len(p) : z[i + 1] = p[i]
<1> DEFINE zero == <<0>>
           end == <<255>>
           h == zero \o p
           z == h \o end
           m == Len(p)
<1>1. zero \in Bytes /\ Len(zero) = 1 /\ zero[1] = 0 /\ end \in Bytes /\ Len(end) = 1 /\ end[1] = 255
  BY OneByte DEF Byte
<1>2. m \in Nat
  BY LengthIsNat DEF Bytes
<1> HIDE DEF zero, end
<1>3. /\ h \in Bytes /\ Len(h) = Len(zero) + Len(p)
      /\ \A i \in 1 .. Len(zero) : h[i] = zero[i]
      /\ \A i \in 1 .. Len(p) : h[Len(zero) + i] = p[i]
  <2>1. Consists(h, zero, p)
    BY <1>1, BytesAt
  <2> HIDE DEF h
  <2> QED BY <2>1 DEF Consists
<1> HIDE DEF h, m
<1>4. /\ z \in Bytes /\ Len(z) = Len(h) + Len(end)
      /\ \A i \in 1 .. Len(h) : z[i] = h[i]
      /\ \A i \in 1 .. Len(end) : z[Len(h) + i] = end[i]
  <2>1. Consists(z, h, end)
    BY <1>1, <1>3, BytesAt
  <2> HIDE DEF z
  <2> QED BY <2>1 DEF Consists
<1> HIDE DEF z
<1>5. Len(h) = m + 1
  BY <1>1, <1>2, <1>3 DEF m
<1>6. Len(z) = m + 2 /\ z[1] = 0
  BY <1>1, <1>2, <1>3, <1>4, <1>5
<1>7. z[m + 2] = 255
  <2>1. 1 \in 1 .. Len(end) /\ Len(h) + 1 = m + 2
    BY <1>1, <1>2, <1>5
  <2> QED BY <1>1, <1>4, <2>1
<1>8. \A i \in 1 .. m : z[i + 1] = p[i]
  <2> TAKE i \in 1 .. m
  <2>1. i + 1 \in 1 .. Len(h) /\ Len(zero) + i = i + 1
    BY <1>1, <1>2, <1>5
  <2>2. z[i + 1] = h[i + 1] /\ h[Len(zero) + i] = p[i]
    BY <1>3, <1>4, <2>1 DEF m
  <2> QED BY <2>1, <2>2
<1> QED
  BY <1>4, <1>6, <1>7, <1>8 DEF z, h, m, zero, end

\* The first 255 of a text in the buffer is its end.
LEMMA TextEnds ==
  ASSUME NEW p \in Bytes, \A i \in 1 .. Len(p) : p[i] # 255,
         NEW z, Len(z) = Len(p) + 2, z[1] = 0, z[Len(p) + 2] = 255, \A i \in 1 .. Len(p) : z[i + 1] = p[i],
         NEW b \in Bytes, NEW after, NEW y, NEW x, Consists(x, b, after), Consists(x, z, y),
         NEW n \in 1 .. Len(b), b[n] = 255, \A i \in 1 .. n - 1 : b[i] # 255
  PROVE  n = Len(z) /\ SubSeq(b, 2, n - 1) = p
<1> DEFINE m == Len(p)
<1>1. m \in Nat /\ Len(b) \in Nat /\ n \in Nat /\ n \in 1 .. Len(b)
  BY LengthIsNat DEF Bytes
<1>2. /\ Len(z) = m + 2 /\ z[1] = 0 /\ z[m + 2] = 255
      /\ \A i \in 1 .. m : z[i + 1] = p[i]
  OBVIOUS
<1>4. \A i \in 1 .. Len(b) : x[i] = b[i]
  BY DEF Consists
<1>5. \A i \in 1 .. Len(z) : x[i] = z[i]
  BY DEF Consists
<1> HIDE DEF m
<1>6. \A i \in 1 .. m + 1 : z[i] # 255
  <2> TAKE i \in 1 .. m + 1
  <2>1. CASE i = 1
    BY <1>2, <2>1
  <2>2. CASE i # 1
    <3>1. i - 1 \in 1 .. m /\ (i - 1) + 1 = i
      BY <1>1, <2>2
    <3>2. p[i - 1] # 255 /\ z[(i - 1) + 1] = p[i - 1]
      BY <1>2, <3>1 DEF m
    <3> QED BY <3>1, <3>2
  <2> QED BY <2>1, <2>2
<1>7. \A i \in 1 .. m + 2 : i \in 1 .. Len(b) => b[i] = z[i]
  <2> TAKE i \in 1 .. m + 2
  <2> HAVE i \in 1 .. Len(b)
  <2>1. x[i] = b[i]
    BY <1>4
  <2>2. x[i] = z[i]
    BY <1>2, <1>5
  <2> QED BY <2>1, <2>2
<1>8. n = m + 2
  <2>1. CASE n \in 1 .. m + 1
    <3>1. n \in 1 .. m + 2
      BY <1>1, <2>1
    <3>2. b[n] = z[n] /\ z[n] # 255
      BY <1>1, <1>6, <1>7, <2>1, <3>1
    <3> QED BY <3>2
  <2>2. CASE n > m + 2
    <3>1. m + 2 \in 1 .. n - 1 /\ m + 2 \in 1 .. Len(b) /\ m + 2 \in 1 .. m + 2
      BY <1>1, <2>2
    <3>2. b[m + 2] # 255 /\ b[m + 2] = z[m + 2]
      BY <1>7, <3>1
    <3> QED BY <1>2, <3>2
  <2> QED BY <1>1, <2>1, <2>2
<1>10. SubSeq(b, 2, n - 1) = p
  <2> DEFINE q == SubSeq(b, 2, n - 1)
  <2>1. b \in Seq(Byte) /\ p \in Seq(Byte)
    BY DEF Bytes
  <2>2. q \in Seq(Byte) /\ Len(q) = m /\ \A i \in 1 .. m : q[i] = b[i + 1]
    BY <1>1, <1>8, <2>1
  <2>3. \A i \in 1 .. m : b[i + 1] = p[i]
    <3> TAKE i \in 1 .. m
    <3>1. i + 1 \in 1 .. m + 2 /\ i + 1 \in 1 .. Len(b)
      BY <1>1, <1>8
    <3>2. b[i + 1] = z[i + 1] /\ z[i + 1] = p[i]
      BY <1>2, <1>7, <3>1
    <3> QED BY <3>2
  <2> HIDE DEF q
  <2>4. \A i \in 1 .. m : q[i] = p[i]
    BY <2>2, <2>3
  <2>5. q = p
    BY <2>1, <2>2, <2>4 DEF m
  <2> QED BY <2>5 DEF q
<1> QED
  BY <1>2, <1>8, <1>10

\* What the reader of version 0 has behind a frame it has read.
LEMMA PlaceBehind ==
  ASSUME NEW s, NEW t, NEW fs, Len(fs) \in Nat, Fits(0, fs), Texts(fs),
         NEW k \in 0 .. Len(fs), k < Len(fs), Told(s, fs, k), s.version = 0, t.version = 0,
         NEW after, t.frame = <<>>, t.buffer \o after = ToCome(Coded(0, fs), k + 1),
         t.emitted = s.emitted \o SignalIn(0, fs[k + 1]),
         t.written = s.written \o AnswerOf(fs[k + 1])
  PROVE  StandsV0(t, fs, k + 1, after)
<1>1. Told(t, fs, k + 1)
  BY ToldNext
<1>2. PlaceV0(t, fs, k + 1, t.buffer \o after)
  BY DEF PlaceV0
<1> QED BY <1>1, <1>2 DEF StandsV0

\* z is the text p on the wire.
WireOf(z, p) ==
  /\ p \in Bytes /\ \A i \in 1 .. Len(p) : p[i] # 255
  /\ z \in Bytes /\ Len(z) = Len(p) + 2 /\ z[1] = 0 /\ z[Len(p) + 2] = 255
  /\ \A i \in 1 .. Len(p) : z[i + 1] = p[i]

\* The first 255 of b is its n-th byte.
EndsAt(b, n) ==
  /\ b \in Bytes /\ n \in 1 .. Len(b)
  /\ b[n] = 255 /\ \A i \in 1 .. n - 1 : b[i] # 255

\* The text p is in the buffer b, up to its n-th byte; what it is then.
TextIn(z, p, b, n, after, y) ==
  WireOf(z, p) /\ EndsAt(b, n) /\ after \in Bytes /\ y \in Bytes /\ b \o after = z \o y

TextOut(p, b, n, after, y) ==
  SubSeq(b, 2, n - 1) = p /\ Behind(b, n) \o after = y

\* The text that ends there is the one that was sent.
LEMMA TextGone ==
  \A z, p, b, n, after, y : TextIn(z, p, b, n, after, y) => TextOut(p, b, n, after, y)
<1> SUFFICES ASSUME NEW z, NEW p, NEW b, NEW n, NEW after, NEW y, TextIn(z, p, b, n, after, y)
             PROVE  TextOut(p, b, n, after, y)
  OBVIOUS
<1>0. WireOf(z, p) /\ EndsAt(b, n) /\ after \in Bytes /\ y \in Bytes
  BY DEF TextIn
<1>1. /\ p \in Bytes /\ (\A i \in 1 .. Len(p) : p[i] # 255)
      /\ z \in Bytes /\ Len(z) = Len(p) + 2 /\ z[1] = 0 /\ z[Len(p) + 2] = 255
      /\ \A i \in 1 .. Len(p) : z[i + 1] = p[i]
  BY <1>0 DEF WireOf
<1>2. /\ b \in Bytes /\ n \in 1 .. Len(b)
      /\ b[n] = 255 /\ (\A i \in 1 .. n - 1 : b[i] # 255)
  BY <1>0 DEF EndsAt
<1> DEFINE x == b \o after
           w == z \o y
<1>3. Consists(x, b, after) /\ Consists(w, z, y)
  BY <1>0, <1>1, <1>2, BytesAt
<1>4. x = w
  BY DEF TextIn
<1> HIDE DEF x, w
<1>5. Consists(x, b, after) /\ Consists(x, z, y)
  BY <1>3, <1>4
<1>6. n = Len(z) /\ SubSeq(b, 2, n - 1) = p
  BY <1>1, <1>2, <1>5, TextEnds, SMTT(30)
<1>7. Len(z) <= Len(b)
  <2>1. Len(b) \in Nat
    BY <1>2, LengthIsNat DEF Bytes
  <2>2. \A m \in Nat : \A i \in 1 .. m : i <= m
    OBVIOUS
  <2>3. n <= Len(b)
    BY <1>2, <2>1, <2>2
  <2> QED BY <1>6, <2>3
<1>8. Reads(b, after, z, <<>>, y)
  <2>1. z \o <<>> = z /\ <<>> \in Bytes
    BY <1>1, NoneJoined, NoByte
  <2>2. b \o after = z \o y
    BY <1>4 DEF x, w
  <2>3. b \o after = (z \o <<>>) \o y
    BY <2>1, <2>2, Zenon
  <2> QED BY <1>0, <1>1, <1>2, <1>7, <2>1, <2>3 DEF Reads
<1>9. HasRead(b, after, z, <<>>, y)
  BY <1>8, ReadOff
<1>10. Behind(b, Len(z)) \o after = y
  <2>1. Behind(b, Len(z)) \o after = <<>> \o y
    BY <1>9 DEF HasRead
  <2>2. <<>> \o y = y
    BY <1>0, NoneJoined
  <2> QED BY <2>1, <2>2, Zenon
<1> QED BY <1>6, <1>10 DEF TextOut

\* A text, if all of it is there.
LEMMA TextStands ==
  ASSUME NEW s \in SocketType, s.version = 0,
         NEW fs, Len(fs) \in Nat, Fits(0, fs), Texts(fs),
         NEW k \in 0 .. Len(fs), k < Len(fs), Told(s, fs, k), s.frame = <<>>,
         NEW after \in Bytes, fs[k + 1].opcode = OpText,
         s.buffer \o after = ToCome(Coded(0, fs), k)
  PROVE  LET t == ReadTextV0(s)
         IN  t = s \/ (StandsV0(t, fs, k + 1, after) /\ t.running = s.running)
<1> DEFINE t == ReadTextV0(s)
           f == fs[k + 1]
           c == Coded(0, fs)
           y == ToCome(c, k + 1)
           b == s.buffer
           p == f.payload
           z == (<<0>> \o p) \o <<255>>
<1>1. /\ Reader!Written(f) /\ f.final /\ f.opcode = OpText /\ y \in Bytes
      /\ ToCome(c, k) = Reader!EncodeV0(f) \o y
  BY FrameNextV0
<1>2. p \in Bytes /\ \A i \in 1 .. Len(p) : p[i] # 255
  BY <1>1, WrittenParts
<1>3. z \in Bytes /\ Len(z) = Len(p) + 2 /\ z[1] = 0 /\ z[Len(p) + 2] = 255 /\ \A i \in 1 .. Len(p) : z[i + 1] = p[i]
  BY <1>2, TextAt
<1>4. Reader!EncodeV0(f) = z
  <2>1. f.opcode \in {OpText, OpBinary, OpClose} /\ f.opcode # OpBinary
    BY <1>1 DEF OpText, OpBinary
  <2> QED BY <1>1, <2>1, WireTypeV0
<1> HIDE DEF z
<1>5. b \o after = z \o y
  BY <1>1, <1>4
<1>6. b \in Bytes
  BY DEF SocketType
<1>7. WireOf(z, p)
  <2> HIDE DEF p
  <2> QED BY <1>2, <1>3 DEF WireOf
<1>8. \/ t = s
      \/ \E n \in 1 .. Len(b) :
           /\ b[n] = 255 /\ \A i \in 1 .. n - 1 : b[i] # 255
           /\ t = ReportV0(TextTaken(s, n))
  BY ReadTextV0Step
<1>9. ASSUME NEW n \in 1 .. Len(b), b[n] = 255, \A i \in 1 .. n - 1 : b[i] # 255
      PROVE  LET v == ReportV0(TextTaken(s, n))
             IN  StandsV0(v, fs, k + 1, after) /\ v.running = s.running
  <2> DEFINE u == TextTaken(s, n)
             v == ReportV0(u)
  <2> HIDE DEF y, f
  <2>1. EndsAt(b, n)
    BY <1>6, <1>9 DEF EndsAt
  <2>2. SubSeq(b, 2, n - 1) = p /\ Behind(b, n) \o after = y
    <3> HIDE DEF b, p
    <3>1. TextIn(z, p, b, n, after, y)
      BY <1>1, <1>5, <1>7, <2>1 DEF TextIn
    <3>2. TextOut(p, b, n, after, y)
      BY <3>1, TextGone
    <3> QED BY <3>2 DEF TextOut
  <2>3. /\ u \in SocketType /\ SameLife(s, u) /\ u.running = s.running
        /\ u.frame = s.frame \o SubSeq(b, 2, n - 1) /\ u.buffer = Behind(b, n)
        /\ u.written = s.written /\ u.emitted = s.emitted
    BY TextTakenType
  <2>4. u.frame = p
    BY <1>2, <2>2, <2>3, NoneJoined
  <2> HIDE DEF u, b
  <2>5. /\ v \in SocketType /\ SameLife(u, v) /\ SameReading(u, v)
        /\ v.frame = <<>> /\ v.written = u.written
        /\ v.emitted = IF u.frame = <<>> THEN u.emitted
                       ELSE Append(u.emitted, [kind |-> "text", data |-> u.frame])
    BY <2>3, ReportV0Step
  <2> HIDE DEF v
  <2>6. v.version = 0 /\ v.running = s.running /\ v.buffer \o after = y
    BY <2>2, <2>3, <2>5 DEF SameLife, SameReading
  <2>7. /\ AnswerOf(f) = <<>>
        /\ SignalIn(0, f) = IF p = <<>> THEN <<>> ELSE <<[kind |-> "text", data |-> p]>>
    BY <1>1, SignalsV0
  <2>8. s.emitted \in Reports /\ s.written \in Reports /\ [kind |-> "text", data |-> p] \in Report
    BY <1>2 DEF SocketType, Report
  <2> HIDE DEF p
  <2>9. v.written = s.written \o AnswerOf(f)
    BY <2>3, <2>5, <2>7, <2>8, OneReport
  <2>10. v.emitted = s.emitted \o SignalIn(0, f)
    <3>1. CASE p = <<>>
      BY <2>3, <2>4, <2>5, <2>7, <2>8, <3>1, OneReport
    <3>2. CASE p # <<>>
      <4> DEFINE m == [kind |-> "text", data |-> p]
      <4>1. v.emitted = Append(s.emitted, m) /\ SignalIn(0, f) = <<m>>
        BY <2>3, <2>4, <2>5, <2>7, <3>2
      <4>2. m \in Report
        BY <2>8
      <4> HIDE DEF m
      <4> QED BY <2>8, <4>1, <4>2, OneReport
    <3> QED BY <3>1, <3>2
  <2>11. StandsV0(v, fs, k + 1, after)
    BY <2>5, <2>6, <2>9, <2>10, PlaceBehind DEF f, y, c
  <2> QED BY <2>6, <2>11 DEF v, u
<1> HIDE DEF t, b
<1> QED BY <1>8, <1>9 DEF t, b

\* Bytes that are all there are taken off.
LEMMA AllTaken ==
  ASSUME NEW b \in Bytes, NEW after \in Bytes
  PROVE  Behind(b, Len(b)) \o after = after
<1>1. Len(b) <= Len(b)
  BY LengthIsNat DEF Bytes
<1> QED BY <1>1, TakenOff

\* Two bytes, of which the first has arrived.
LEMMA TwoBytes ==
  ASSUME NEW x, NEW b, NEW after, Len(b) \in Nat, Len(after) \in Nat, Len(b) > 0,
         Len(x) = 2, x[2] = 0, Consists(x, b, after)
  PROVE  \/ Len(b) = 1 /\ Len(after) = 1 /\ after[1] = 0
         \/ Len(b) = 2 /\ b[2] = 0 /\ Len(after) = 0
<1>1. Len(b) + Len(after) = 2
  BY DEF Consists
<1>2. CASE Len(b) = 1
  <2>1. 1 \in 1 .. Len(after) /\ Len(b) + 1 = 2
    BY <1>1, <1>2
  <2>2. x[Len(b) + 1] = after[1]
    BY <2>1 DEF Consists
  <2> QED BY <1>1, <1>2, <2>1, <2>2
<1>3. CASE Len(b) # 1
  <2>0. \A i, j \in Nat : i > 0 /\ i # 1 /\ i + j = 2 => i = 2 /\ j = 0 /\ 2 \in 1 .. i
    OBVIOUS
  <2>1. Len(b) = 2 /\ Len(after) = 0 /\ 2 \in 1 .. Len(b)
    BY <1>1, <1>3, <2>0
  <2>2. x[2] = b[2]
    BY <2>1 DEF Consists
  <2> QED BY <2>1, <2>2
<1> QED BY <1>2, <1>3

\* A Close frame, or its first byte.
LEMMA DiscardStands ==
  ASSUME NEW s \in SocketType, s.version = 0,
         NEW fs, Len(fs) \in Nat, Fits(0, fs), Texts(fs),
         NEW k \in 0 .. Len(fs), k < Len(fs), Told(s, fs, k), s.frame = <<>>,
         NEW after \in Bytes, fs[k + 1].opcode = OpClose, Len(s.buffer) > 0,
         s.buffer \o after = <<255, 0>>, ToCome(Coded(0, fs), k + 1) = <<>>, k + 1 = Len(fs)
  PROVE  LET t == DiscardV0(s)
         IN  /\ \E j \in {k, k + 1} : StandsV0(t, fs, j, after)
             /\ t.running = s.running
<1> DEFINE t == DiscardV0(s)
           b == s.buffer
           x == <<255, 0>>
<1>1. b \in Bytes /\ Len(b) \in Nat /\ Len(after) \in Nat
  BY LengthIsNat DEF SocketType, Bytes
<1>2. Consists(x, b, after)
  <2>1. Consists(b \o after, b, after)
    <3> HIDE DEF b
    <3> QED BY <1>1, BytesAt
  <2> QED BY <2>1
<1>3. Len(x) = 2 /\ x[1] = 255 /\ x[2] = 0
  OBVIOUS
<1> HIDE DEF x
<1>4. \/ Len(b) = 1 /\ Len(after) = 1 /\ after[1] = 0
      \/ Len(b) = 2 /\ b[2] = 0 /\ Len(after) = 0
  <2>1. Len(b) > 0
    OBVIOUS
  <2> HIDE DEF b
  <2> QED BY <1>1, <1>2, <1>3, <2>1, TwoBytes
<1>5. PICK n \in Nat :
        /\ t = ReportV0([s EXCEPT !.buffer = Behind(b, n)])
        /\ (Len(b) = 1 \/ (Len(b) = 2 /\ b[2] = 0)) => n = Len(b)
  BY DiscardV0Step
<1>6. n = Len(b)
  BY <1>4, <1>5
<1> DEFINE u == [s EXCEPT !.buffer = Behind(b, n)]
<1>7. /\ u \in SocketType /\ SameLife(s, u) /\ u.running = s.running
      /\ u.buffer = Behind(b, n) /\ u.frame = s.frame /\ u.emitted = s.emitted /\ u.written = s.written
  BY BufferTaken DEF ReadOn
<1>8. t = ReportV0(u)
  BY <1>5
<1> HIDE DEF u
<1>9. /\ t \in SocketType /\ SameLife(u, t) /\ SameReading(u, t) /\ t.frame = <<>> /\ t.written = u.written
      /\ t.emitted = u.emitted
  <2>1. u.frame = <<>>
    BY <1>7
  <2> HIDE DEF t
  <2> QED BY <1>7, <1>8, <2>1, ReportV0Step
<1> HIDE DEF t
<1>10. Behind(b, Len(b)) \o after = after
  <2> HIDE DEF b
  <2> QED BY <1>1, AllTaken
<1>11. /\ t.version = 0 /\ t.running = s.running /\ t.buffer \o after = after
       /\ t.emitted = s.emitted /\ t.written = s.written /\ t.ws = s.ws
  BY <1>6, <1>7, <1>9, <1>10 DEF SameLife, SameReading
<1>12. CASE Len(after) = 1 /\ after[1] = 0
  <2>1. after = <<0>>
    <3> after \in Seq(Byte)
      BY DEF Bytes
    <3> QED BY <1>12
  <2>2. Told(t, fs, k)
    BY <1>11, ToldSame
  <2>3. PlaceV0(t, fs, k, t.buffer \o after)
    BY <1>9, <1>11, <2>1 DEF PlaceV0
  <2>4. StandsV0(t, fs, k, after)
    BY <2>2, <2>3 DEF StandsV0
  <2> QED BY <1>11, <2>4 DEF t
<1>13. CASE Len(after) = 0
  <2>1. after = <<>>
    BY <1>13, EmptySeq DEF Bytes
  <2>2. Reader!Written(fs[k + 1]) /\ fs[k + 1].final /\ fs[k + 1].opcode \in {OpText, OpClose}
    BY FrameNextV0
  <2>3. AnswerOf(fs[k + 1]) = <<>> /\ SignalIn(0, fs[k + 1]) = <<>>
    BY <2>2, SignalsV0
  <2>4. s.emitted \in Reports /\ s.written \in Reports
    BY DEF SocketType
  <2>5. t.emitted = s.emitted \o SignalIn(0, fs[k + 1]) /\ t.written = s.written \o AnswerOf(fs[k + 1])
    BY <1>11, <2>3, <2>4, OneReport
  <2>6. t.buffer \o after = ToCome(Coded(0, fs), k + 1)
    BY <1>11, <2>1
  <2>7. StandsV0(t, fs, k + 1, after)
    BY <1>9, <1>11, <2>5, <2>6, PlaceBehind
  <2> QED BY <1>11, <2>7 DEF t
<1> QED
  BY <1>4, <1>12, <1>13

\* One call of processDataV0().
LEMMA IterationStandsV0 ==
  ASSUME NEW s \in SocketType, s.version = 0, s.running = TRUE,
         NEW fs, Len(fs) \in Nat, Fits(0, fs), Texts(fs),
         NEW k \in 0 .. Len(fs), NEW after \in Bytes, StandsV0(s, fs, k, after)
  PROVE  LET t == IterateV0(s)
         IN  \E j \in 0 .. Len(fs) :
               StandsV0(t, fs, j, after) /\ (~t.running => t.buffer = <<>>)
<1> DEFINE t == IterateV0(s)
           b == s.buffer
           c == Coded(0, fs)
           y == ToCome(c, k + 1)
           f == fs[k + 1]
<1>1. b \in Bytes /\ Len(b) \in Nat /\ Len(after) \in Nat
  BY LengthIsNat DEF SocketType, Bytes
<1>2. /\ s.frame = <<>> /\ Told(s, fs, k)
      /\ \/ b \o after = ToCome(c, k)
         \/ k + 1 = Len(fs) /\ f.opcode = OpClose /\ b \o after = <<0>>
  BY DEF StandsV0, PlaceV0
<1>3. CASE b = <<>>
  <2>1. t = Return(s)
    BY <1>3 DEF IterateV0
  <2>2. /\ t.version = s.version /\ t.buffer = b /\ t.frame = s.frame
        /\ t.emitted = s.emitted /\ t.written = s.written /\ t.ws = s.ws
    BY <2>1 DEF Return, SocketType
  <2> HIDE DEF t
  <2>3. Told(t, fs, k)
    BY <1>2, <2>2, ToldSame
  <2>4. StandsV0(t, fs, k, after)
    BY <2>2, <2>3 DEF StandsV0, PlaceV0
  <2> QED BY <1>3, <2>2, <2>4 DEF t
<1>4. CASE b # <<>>
  <2>1. Len(b) > 0 /\ 1 \in 1 .. Len(b)
    BY <1>1, <1>4, EmptySeq DEF Bytes
  <2>2. Consists(b \o after, b, after)
    <3> HIDE DEF b
    <3> QED BY <1>1, BytesAt
  <2>3. Len(b \o after) > 0 /\ (b \o after)[1] = b[1]
    BY <1>1, <2>1, <2>2 DEF Consists
  <2>4. b[1] = 0 => t = ReadTextV0(s)
    BY <1>4 DEF IterateV0
  <2>5. b[1] = 255 => t = DiscardV0(s)
    BY <1>4 DEF IterateV0
  <2>6. ASSUME t = s PROVE StandsV0(t, fs, k, after) /\ t.running = TRUE
    BY <2>6
  <2>7. CASE b \o after = <<0>>
    <3>1. Len(<<0>>) = 1 /\ <<0>>[1] = 0
      OBVIOUS
    <3>2. b[1] = 0 /\ Len(b) = 1
      <4>1. Len(b) + Len(after) = Len(b \o after) /\ Len(b \o after) = 1 /\ b[1] = 0
        BY <2>2, <2>3, <2>7, <3>1 DEF Consists
      <4>2. \A i, j \in Nat : i > 0 /\ i + j = 1 => i = 1
        OBVIOUS
      <4>3. Len(b) = 1
        BY <1>1, <2>1, <4>1, <4>2
      <4> QED BY <4>1, <4>3
    <3>3. \A n \in 1 .. Len(b) : b[n] # 255
      BY <3>2
    <3>4. ReadTextV0(s) = s
      BY <3>3, ReadTextV0Step
    <3>5. StandsV0(t, fs, k, after) /\ t.running = TRUE
      BY <2>4, <2>6, <3>2, <3>4
    <3> QED BY <3>5
  <2>8. CASE b \o after = ToCome(c, k)
    <3>1. k < Len(fs)
      <4>1. CASE k = Len(fs)
        <5>1. c \in Seq(Seq(Byte)) /\ Len(c) = Len(fs)
          BY RowTypes
        <5>2. ToCome(c, k) = <<>>
          BY <4>1, <5>1, AheadOn
        <5>3. Len(b \o after) = 0
          BY <2>8, <5>2
        <5> QED BY <2>3, <5>3
      <4> QED BY <4>1
    <3>2. /\ Reader!Written(f) /\ f.final /\ f.opcode \in {OpText, OpClose} /\ y \in Bytes
          /\ ToCome(c, k) = Reader!EncodeV0(f) \o y
          /\ f.opcode = OpClose => y = <<>> /\ k + 1 = Len(fs)
      BY <3>1, FrameNextV0
    <3>3. CASE f.opcode = OpText
      <4>1. b[1] = 0
        <5> DEFINE p == f.payload
                   z == (<<0>> \o p) \o <<255>>
        <5>1. p \in Bytes
          BY <3>2, WrittenParts
        <5>2. z \in Bytes /\ Len(z) = Len(p) + 2 /\ z[1] = 0
          BY <5>1, TextAt
        <5>3. Reader!EncodeV0(f) = z
          <6>1. f.opcode \in {OpText, OpBinary, OpClose} /\ f.opcode # OpBinary
            BY <3>3 DEF OpText, OpBinary
          <6> QED BY <3>2, <3>3, <6>1, WireTypeV0
        <5>4. 1 \in 1 .. Len(z)
          BY <5>1, <5>2, LengthIsNat DEF Bytes
        <5> HIDE DEF z, y
        <5>5. Consists(z \o y, z, y)
          BY <3>2, <5>2, BytesAt
        <5>6. (z \o y)[1] = 0
          BY <5>2, <5>4, <5>5 DEF Consists
        <5> QED BY <2>3, <2>8, <3>2, <5>3, <5>6
      <4>2. t = ReadTextV0(s)
        BY <2>4, <4>1
      <4>3. t = s \/ (StandsV0(t, fs, k + 1, after) /\ t.running = s.running)
        BY <1>2, <2>8, <3>1, <3>3, <4>2, TextStands
      <4>4. k + 1 \in 0 .. Len(fs) /\ k \in 0 .. Len(fs)
        BY <3>1
      <4> HIDE DEF t
      <4> QED BY <2>6, <4>3, <4>4 DEF t
    <3>4. CASE f.opcode = OpClose
      <4>1. Reader!EncodeV0(f) = <<255, 0>> /\ y = <<>> /\ k + 1 = Len(fs)
        <5>1. f.opcode \in {OpText, OpBinary, OpClose} /\ f.opcode # OpBinary
          BY <3>4 DEF OpClose, OpBinary
        <5> QED BY <3>2, <3>4, <5>1, WireTypeV0
      <4>2. b \o after = <<255, 0>>
        <5>1. <<255, 0>> \o <<>> = <<255, 0>>
          OBVIOUS
        <5> QED BY <2>8, <3>2, <4>1, <5>1
      <4>3. b[1] = 255
        <5>1. <<255, 0>>[1] = 255
          OBVIOUS
        <5> QED BY <2>3, <4>2, <5>1
      <4>4. t = DiscardV0(s)
        BY <2>5, <4>3
      <4>5. (\E j \in {k, k + 1} : StandsV0(t, fs, j, after)) /\ t.running = s.running
        BY <1>2, <2>1, <3>1, <3>4, <4>1, <4>2, <4>4, DiscardStands
      <4>6. k + 1 \in 0 .. Len(fs) /\ k \in 0 .. Len(fs)
        BY <3>1
      <4> HIDE DEF t
      <4> QED BY <4>5, <4>6 DEF t
    <3> QED BY <3>2, <3>3, <3>4
  <2> QED BY <1>2, <2>7, <2>8
<1> QED BY <1>3, <1>4

----------------------------------------------------------------------------
(* Both readers.                                                           *)

Stands(s, fs, k, after) ==
  IF s.version = 0 THEN StandsV0(s, fs, k, after) ELSE StandsV4(s, fs, k, after)

\* The reader has nothing to go on with.
Waits(s) == IF s.version = 0 THEN s.buffer = <<>> ELSE Len(s.buffer) < Needed(s)

\* The frames are such that the reader copes with them.
Copes(version, fs) ==
  IF version = 0 THEN Texts(fs) ELSE \A i \in 1 .. Len(fs) : Plain(fs[i])

\* The reader has its place in the bytes of fs, of which as many as got have
\* arrived and the bytes w are on their way.
KeepsUp(s, fs, w, got) ==
  \E more \in Bytes : \E k \in 0 .. Len(fs) :
    /\ s.tcp # "Unconnected" => w = more
    /\ got + Len(more) = Len(Gone(Coded(s.version, fs), Len(fs)))
    /\ Stands(s, fs, k, more)
    /\ ~s.running => Waits(s)

\* Nothing of the reader moves from s to t.
Unmoved(s, t) ==
  /\ t.version = s.version /\ t.buffer = s.buffer /\ t.readingState = s.readingState
  /\ t.frame = s.frame /\ t.final = s.final /\ t.opcode = s.opcode /\ t.hasMask = s.hasMask
  /\ t.length = s.length /\ t.key = s.key /\ t.running = s.running
  /\ t.emitted = s.emitted /\ t.written = s.written
  /\ s.ws = "Unconnected" => t.ws = "Unconnected"
  /\ s.tcp = "Unconnected" => t.tcp = "Unconnected"

\* Then it keeps its place.
LEMMA UnmovedStands ==
  ASSUME NEW s, NEW t, Unmoved(s, t)
  PROVE  /\ \A fs, k, after : Stands(s, fs, k, after) => Stands(t, fs, k, after)
         /\ Waits(s) => Waits(t)
<1>1. \A f : Knows(s, f) => Knows(t, f)
  BY DEF Unmoved, Knows
<1>2. ASSUME NEW fs, NEW k, NEW after, Stands(s, fs, k, after)
      PROVE  Stands(t, fs, k, after)
  <2>1. ASSUME Told(s, fs, k) PROVE Told(t, fs, k)
    BY <2>1, ToldSame DEF Unmoved
  <2>2. CASE s.version = 0
    <3>1. StandsV0(s, fs, k, after)
      BY <1>2, <2>2 DEF Stands
    <3>2. PlaceV0(t, fs, k, t.buffer \o after) /\ Told(t, fs, k)
      BY <2>1, <3>1 DEF StandsV0, PlaceV0, Unmoved
    <3> QED BY <2>2, <3>2 DEF Stands, StandsV0, Unmoved
  <2>3. CASE s.version # 0
    <3>1. StandsV4(s, fs, k, after)
      BY <1>2, <2>3 DEF Stands
    <3>2. PlaceV4(t, fs, k, t.buffer \o after) /\ Told(t, fs, k)
      BY <1>1, <2>1, <3>1 DEF StandsV4, PlaceV4, Unmoved
    <3> QED BY <2>3, <3>2 DEF Stands, StandsV4, Unmoved
  <2> QED BY <2>2, <2>3
<1>3. Waits(s) => Waits(t)
  BY DEF Unmoved, Waits, Needed
<1> QED BY <1>2, <1>3

\* And keeps up, when the connection has not changed, or is closed.
LEMMA UnmovedKeepsUp ==
  ASSUME NEW s, NEW t, Unmoved(s, t), NEW fs, NEW w, NEW got, KeepsUp(s, fs, w, got),
         NEW w2, w2 = w \/ t.tcp = "Unconnected"
  PROVE  KeepsUp(t, fs, w2, got)
<1>1. PICK more \in Bytes, k \in 0 .. Len(fs) :
        /\ s.tcp # "Unconnected" => w = more
        /\ got + Len(more) = Len(Gone(Coded(s.version, fs), Len(fs)))
        /\ Stands(s, fs, k, more)
        /\ ~s.running => Waits(s)
  BY DEF KeepsUp
<1>2. Stands(t, fs, k, more) /\ (Waits(s) => Waits(t))
  BY <1>1, UnmovedStands
<1>3. t.version = s.version /\ t.running = s.running /\ (s.tcp = "Unconnected" => t.tcp = "Unconnected")
  BY DEF Unmoved
<1> QED BY <1>1, <1>2, <1>3 DEF KeepsUp

\* close() does not move the reader.
LEMMA CloseUnmoved ==
  ASSUME NEW s \in SocketType
  PROVE  Unmoved(s, Close(s, NoCloseStatusCode))
<1> DEFINE t == Close(s, NoCloseStatusCode)
<1>1. NoCloseStatusCode \in Nat
  BY DEF NoCloseStatusCode
<1>2. CASE s.ws = "Unconnected"
  <2>1. t = s
    BY <1>2 DEF Close
  <2> QED BY <2>1 DEF Unmoved
<1>3. CASE s.ws # "Unconnected"
  <2>1. SameReader(s, t) /\ t.written = s.written
    BY <1>1, <1>3, CloseSays
  <2>2. SameReading(s, t) /\ ClosedLife(s, t)
    BY <1>1, CloseStep
  <2>3. t.key = s.key
    <3> DEFINE bytes == CloseFrame(s.version, NoCloseStatusCode)
               u == Send(s, bytes)
               c == SendClose(s, NoCloseStatusCode)
               d == [c EXCEPT !.ws = "Closing"]
               e == [d EXCEPT !.ws = "Unconnected", !.disconnects = @ + 1, !.slot = TRUE]
    <3>1. bytes \in Bytes
      BY <1>1, CloseFrameType DEF SocketType
    <3> HIDE DEF bytes
    <3>2. u \in SocketType /\ u.key = s.key
      BY <3>1, SendStep DEF Send, SocketType
    <3>3. c \in SocketType
      BY <1>1, SendCloseStep
    <3>4. c.key = s.key
      <4>1. SendClose(s, NoCloseStatusCode) =
              IF s.sent THEN s ELSE [u EXCEPT !.sent = TRUE, !.closeFrames = @ + 1]
        BY DEF SendClose, bytes
      <4> HIDE DEF u
      <4> QED BY <3>2, <4>1 DEF SocketType
    <3> HIDE DEF c
    <3>5. d.key = s.key /\ e.key = s.key
      BY <3>3, <3>4 DEF SocketType
    <3>6. Disconnect(e).key = e.key
      BY <3>3 DEF Disconnect, SocketType
    <3>7. t = IF d.received THEN Disconnect(e) ELSE d
      BY <1>3, Zenon DEF Close, c
    <3> HIDE DEF t, d, e
    <3> QED BY <3>5, <3>6, <3>7
  <2> HIDE DEF t
  <2> QED BY <1>3, <2>1, <2>2, <2>3 DEF Unmoved, SameReader, SameReading, ClosedLife, t
<1> QED BY <1>2, <1>3

\* The end of the connection does not, either.
LEMMA UnconnectedUnmoved ==
  ASSUME NEW s \in SocketType
  PROVE  Unmoved(s, TcpUnconnected(s)) /\ TcpUnconnected(s).tcp = "Unconnected"
BY DEF TcpUnconnected, Unmoved, SocketType

\* What the server sends, it may have sent.
LEMMA FitsOn ==
  ASSUME NEW version, NEW S, NEW fs \in Seq(S), Fits(version, fs),
         NEW f, Reader!Written(f), Reader!Conforms(version, fs, f)
  PROVE  /\ Fits(version, Append(fs, f))
         /\ \A i \in 1 .. Len(fs) : fs[i].opcode # OpClose
<1> DEFINE gs == Append(fs, f)
           n == Len(fs)
<1>0. /\ Reader!OpText = OpText /\ Reader!OpBinary = OpBinary /\ Reader!OpClose = OpClose
      /\ Reader!OpContinue = OpContinue
  BY SameOperators
<1>1. n \in Nat /\ Len(gs) = n + 1 /\ gs[n + 1] = f /\ (\A i \in 1 .. n : gs[i] = fs[i]) /\ DOMAIN fs = 1 .. n
  OBVIOUS
<1>2. /\ version = 0 => f.final /\ f.opcode \in {OpText, OpBinary, OpClose}
      /\ version = 0 /\ f.opcode = OpBinary => Len(f.payload) < 128
      /\ \A i \in 1 .. n : fs[i].opcode # OpClose
      /\ Reader!IsControl(f) \/ (f.opcode = OpContinue <=> Reader!MessageOpen(fs))
  BY <1>0, <1>1 DEF Reader!Conforms
<1>3. /\ \A i \in 1 .. n :
           /\ Reader!Written(fs[i])
           /\ version = 0 => fs[i].final /\ fs[i].opcode \in {OpText, OpBinary, OpClose}
                             /\ (fs[i].opcode = OpBinary => Len(fs[i].payload) < 128)
      /\ \A i \in 1 .. n - 1 :
           fs[i].opcode # OpClose /\ (~fs[i].final => fs[i + 1].opcode \notin {OpText, OpBinary})
  BY DEF Fits
<1> HIDE DEF gs
<1>4. ASSUME n > 0, ~fs[n].final
      PROVE  f.opcode \notin {OpText, OpBinary}
  <2>1. n \in 1 .. n
    BY <1>1, <1>4
  <2>2. Reader!Written(fs[n])
    BY <1>3, <2>1
  <2>3. ~Reader!IsControl(fs[n])
    BY <1>4, <2>2 DEF Reader!Written
  <2>4. \A j \in n + 1 .. n : Reader!IsControl(fs[j])
    BY <1>1
  <2>5. Reader!MessageOpen(fs)
    BY <1>1, <1>4, <2>1, <2>3, <2>4 DEF Reader!MessageOpen
  <2>6. CASE Reader!IsControl(f)
    <3>1. f.opcode >= 8
      BY <1>0, <2>6 DEF Reader!IsControl, OpClose
    <3> QED BY <3>1 DEF OpText, OpBinary
  <2>7. CASE f.opcode = OpContinue
    BY <2>7 DEF OpText, OpBinary, OpContinue
  <2> QED BY <1>2, <2>5, <2>6, <2>7
<1>5. \A i \in 1 .. n + 1 :
        /\ Reader!Written(gs[i])
        /\ version = 0 => gs[i].final /\ gs[i].opcode \in {OpText, OpBinary, OpClose}
                          /\ (gs[i].opcode = OpBinary => Len(gs[i].payload) < 128)
  <2> TAKE i \in 1 .. n + 1
  <2>1. CASE i \in 1 .. n
    BY <1>1, <1>3, <2>1
  <2>2. CASE i = n + 1
    BY <1>1, <1>2, <2>2
  <2> QED BY <1>1, <2>1, <2>2
<1>6. \A i \in 1 .. n :
        gs[i].opcode # OpClose /\ (~gs[i].final => gs[i + 1].opcode \notin {OpText, OpBinary})
  <2> TAKE i \in 1 .. n
  <2>1. CASE i = n
    BY <1>1, <1>2, <1>4, <2>1
  <2>2. CASE i # n
    <3>1. \A m \in Nat : \A j \in 1 .. m : j # m => j \in 1 .. m - 1 /\ j + 1 \in 1 .. m
      OBVIOUS
    <3>2. i \in 1 .. n - 1 /\ i + 1 \in 1 .. n
      <4> HIDE DEF n
      <4> QED BY <1>1, <2>2, <3>1
    <3>3. gs[i] = fs[i] /\ gs[i + 1] = fs[i + 1]
      BY <1>1, <3>2
    <3> QED BY <1>3, <3>2, <3>3
  <2> QED BY <2>1, <2>2
<1>7. Len(gs) - 1 = n
  BY <1>1
<1> HIDE DEF n
<1>8. Fits(version, gs)
  BY <1>1, <1>5, <1>6, <1>7 DEF Fits
<1> QED BY <1>2, <1>8 DEF gs, n

\* One frame more, as bytes and as what is to become of it.
OneFurther(version, fs, gs, e) ==
  /\ e \in Bytes
  /\ \A k \in 0 .. Len(fs) : ToCome(Coded(version, gs), k) = ToCome(Coded(version, fs), k) \o e
  /\ Gone(Coded(version, gs), Len(gs)) = Gone(Coded(version, fs), Len(fs)) \o e
  /\ \A k \in 0 .. Len(fs) :
       /\ Gone(Signalled(version, gs), k) = Gone(Signalled(version, fs), k)
       /\ Gone(Answered(gs), k) = Gone(Answered(fs), k)

\* What another frame makes of the rows.
LEMMA RowsOn ==
  ASSUME NEW version, NEW S, NEW fs \in Seq(S), NEW f, Fits(version, fs), Fits(version, Append(fs, f))
  PROVE  OneFurther(version, fs, Append(fs, f), Reader!Encode(version, f))
<1> DEFINE gs == Append(fs, f)
           n == Len(fs)
           c == Coded(version, fs)
           g == Signalled(version, fs)
           a == Answered(fs)
           c2 == Coded(version, gs)
           g2 == Signalled(version, gs)
           a2 == Answered(gs)
           e == Reader!Encode(version, f)
           x == SignalIn(version, f)
           y == AnswerOf(f)
<1>1. n \in Nat /\ Len(gs) = n + 1 /\ Len(gs) \in Nat /\ gs[n + 1] = f /\ (\A i \in 1 .. n : gs[i] = fs[i])
  OBVIOUS
<1>2. /\ c \in Seq(Seq(Byte)) /\ Len(c) = n /\ g \in Seq(Seq(Report)) /\ Len(g) = n
      /\ a \in Seq(Seq(Report)) /\ Len(a) = n
      /\ \A i \in 1 .. n : c[i] = Reader!Encode(version, fs[i]) /\ g[i] = SignalIn(version, fs[i])
                           /\ a[i] = AnswerOf(fs[i])
  BY <1>1, RowTypes
<1> HIDE DEF gs
<1>3. /\ c2 \in Seq(Seq(Byte)) /\ Len(c2) = Len(gs) /\ g2 \in Seq(Seq(Report)) /\ Len(g2) = Len(gs)
      /\ a2 \in Seq(Seq(Report)) /\ Len(a2) = Len(gs)
      /\ \A i \in 1 .. Len(gs) : c2[i] = Reader!Encode(version, gs[i]) /\ g2[i] = SignalIn(version, gs[i])
                           /\ a2[i] = AnswerOf(gs[i])
  <2>1. Fits(version, gs)
    BY DEF gs
  <2> QED BY <1>1, <2>1, RowTypes
<1> HIDE DEF c, g, a, c2, g2, a2
<1>4. c2[n + 1] = e /\ g2[n + 1] = x /\ a2[n + 1] = y /\ n + 1 \in 1 .. n + 1
  BY <1>1, <1>3
<1>5. \A i \in 1 .. n : c2[i] = c[i] /\ g2[i] = g[i] /\ a2[i] = a[i]
  BY <1>1, <1>2, <1>3
<1>6. e \in Seq(Byte) /\ x \in Seq(Report) /\ y \in Seq(Report)
  <2>1. c2[n + 1] \in Seq(Byte)
    BY <1>1, <1>3, <1>4
  <2>2. g2[n + 1] \in Seq(Report)
    BY <1>1, <1>3, <1>4
  <2>3. a2[n + 1] \in Seq(Report)
    BY <1>1, <1>3, <1>4
  <2> QED BY <1>4, <2>1, <2>2, <2>3
<1> HIDE DEF n, e, x, y
<1>7. c2 = Append(c, e)
  BY <1>1, <1>2, <1>3, <1>4, <1>5, <1>6
<1>8. g2 = Append(g, x)
  BY <1>1, <1>2, <1>3, <1>4, <1>5, <1>6
<1>9. a2 = Append(a, y)
  BY <1>1, <1>2, <1>3, <1>4, <1>5, <1>6
<1>10. (\A k \in 0 .. n : Gone(c2, k) = Gone(c, k)) /\ (\A k \in 0 .. n : ToCome(c2, k) = ToCome(c, k) \o e)
  BY <1>2, <1>6, <1>7, RowGrows
<1>11. \A k \in 0 .. n : Gone(g2, k) = Gone(g, k)
  BY <1>2, <1>6, <1>8, RowGrows
<1>12. \A k \in 0 .. n : Gone(a2, k) = Gone(a, k)
  BY <1>2, <1>6, <1>9, RowGrows
<1>13. Gone(c2, Len(gs)) = Gone(c, n) \o e
  <2>1. n \in 0 .. Len(c2) - 1 /\ n \in 0 .. n
    BY <1>1, <1>3
  <2>2. Gone(c2, n + 1) = Gone(c2, n) \o c2[n + 1]
    BY <1>3, <2>1, GoneOn
  <2>3. Gone(c2, n) = Gone(c, n)
    BY <1>10, <2>1
  <2> QED BY <1>1, <1>4, <2>2, <2>3
<1> QED
  BY <1>6, <1>10, <1>11, <1>12, <1>13 DEF OneFurther, Bytes, gs, n, c, g, a, c2, g2, a2, e

\* A frame more on its way.
LEMMA SendKeepsUp ==
  ASSUME NEW s \in SocketType, s.tcp # "Unconnected", NEW S, NEW fs \in Seq(S), NEW f,
         Fits(s.version, fs), Fits(s.version, Append(fs, f)),
         \A i \in 1 .. Len(fs) : fs[i].opcode # OpClose,
         NEW w, NEW got \in Nat, KeepsUp(s, fs, w, got)
  PROVE  KeepsUp(s, Append(fs, f), w \o Reader!Encode(s.version, f), got)
<1> DEFINE gs == Append(fs, f)
           n == Len(fs)
           v == s.version
           e == Reader!Encode(v, f)
           c == Coded(v, fs)
           d == Coded(v, gs)
<1>1. n \in Nat /\ Len(gs) = n + 1 /\ (\A i \in 1 .. n : gs[i] = fs[i])
  OBVIOUS
<1>2. /\ e \in Bytes
      /\ \A k \in 0 .. n : ToCome(d, k) = ToCome(c, k) \o e
      /\ Gone(d, Len(gs)) = Gone(c, n) \o e
      /\ \A k \in 0 .. n :
           /\ Gone(Signalled(v, gs), k) = Gone(Signalled(v, fs), k)
           /\ Gone(Answered(gs), k) = Gone(Answered(fs), k)
  <2>1. OneFurther(v, fs, gs, e)
    BY RowsOn
  <2> HIDE DEF gs, e
  <2> QED BY <2>1 DEF OneFurther
<1>3. c \in Seq(Seq(Byte)) /\ Len(c) = n
  BY <1>1, RowTypes
<1>4. /\ \A k \in 0 .. n : ToCome(c, k) \in Bytes
      /\ Gone(c, n) \in Bytes
  <2> HIDE DEF c
  <2>1. \A k \in 0 .. Len(c) : ToCome(c, k) \in Seq(Byte)
    BY <1>3, AheadOn
  <2>2. \A k \in 0 .. Len(c) : Gone(c, k) \in Seq(Byte)
    BY <1>3, GoneOn
  <2>3. n \in 0 .. n
    BY <1>1
  <2> HIDE DEF n
  <2>4. Gone(c, n) \in Seq(Byte)
    BY <1>3, <2>2, <2>3
  <2> QED BY <1>3, <2>1, <2>4 DEF Bytes
<1>5. PICK more \in Bytes, k \in 0 .. n :
        /\ k \in 0 .. n
        /\ w = more
        /\ got + Len(more) = Len(Gone(c, n))
        /\ Stands(s, fs, k, more)
        /\ ~s.running => Waits(s)
  BY DEF KeepsUp
<1> HIDE DEF gs, c, d, e, n
<1> DEFINE more2 == more \o e
           x == s.buffer \o more
           x2 == s.buffer \o more2
<1>6. more2 \in Bytes /\ Len(more2) = Len(more) + Len(e) /\ Len(more) \in Nat /\ Len(e) \in Nat
  BY <1>2, BytesJoined, BytesConcat, LengthIsNat DEF Bytes
<1>7. got + Len(more2) = Len(Gone(d, Len(gs)))
  <2> DEFINE r == Gone(c, n)
  <2>1. r \in Bytes /\ Len(r) \in Nat
    BY <1>4, LengthIsNat DEF Bytes
  <2> HIDE DEF r
  <2>2. Len(r \o e) = Len(r) + Len(e)
    BY <1>2, <2>1, BytesConcat
  <2>3. got + Len(more) = Len(r) /\ Gone(d, Len(gs)) = r \o e
    BY <1>2, <1>5 DEF r
  <2>4. Len(Gone(d, Len(gs))) = Len(r) + Len(e)
    BY <2>2, <2>3, Zenon
  <2>5. Len(more2) = Len(more) + Len(e) /\ Len(more) \in Nat /\ Len(e) \in Nat
    BY <1>6
  <2> HIDE DEF more2
  <2> QED BY <2>3, <2>4, <2>5
<1>8. x2 = x \o e
  <2>1. s.buffer \in Bytes
    BY DEF SocketType
  <2> QED BY <1>2, <2>1, JoinedAgain, Zenon
<1>9. ASSUME Told(s, fs, k) PROVE Told(s, gs, k)
  <2>1. Gone(Signalled(v, gs), k) = Gone(Signalled(v, fs), k) /\ Gone(Answered(gs), k) = Gone(Answered(fs), k)
    BY <1>2
  <2>2. \A i \in 1 .. k : gs[i] = fs[i]
    <3>1. \A m \in Nat : \A j \in 0 .. m : \A i \in 1 .. j : i \in 1 .. m
      OBVIOUS
    <3>2. \A i \in 1 .. k : i \in 1 .. n
      BY <1>1, <1>5, <3>1
    <3> QED BY <1>1, <3>2
  <2> QED BY <1>9, <2>1, <2>2 DEF Told
<1>10. k \in 0 .. Len(gs)
  <2>1. \A m \in Nat : \A j \in 0 .. m : j \in 0 .. m + 1
    OBVIOUS
  <2> QED BY <1>1, <1>5, <2>1
<1>11. CASE v = 0
  <2>1. PlaceV0(s, fs, k, x) /\ Told(s, fs, k)
    BY <1>5, <1>11 DEF Stands, StandsV0
  <2>2. x = ToCome(c, k)
    <3>1. CASE k + 1 = n /\ fs[k + 1].opcode = OpClose
      <4>1. k + 1 \in 1 .. n
        BY <1>1, <3>1
      <4> QED BY <3>1, <4>1 DEF n
    <3>2. x = ToCome(c, k) \/ (k + 1 = n /\ fs[k + 1].opcode = OpClose)
      <4> HIDE DEF x
      <4> QED BY <2>1 DEF PlaceV0, c, n
    <3> QED BY <3>1, <3>2
  <2>3. x2 = ToCome(d, k)
    BY <1>2, <1>8, <2>2
  <2>4. PlaceV0(s, gs, k, x2)
    <3> HIDE DEF x2, x
    <3> QED BY <2>1, <2>3 DEF PlaceV0, d
  <2>5. Stands(s, gs, k, more2)
    BY <1>9, <1>11, <2>1, <2>4 DEF Stands, StandsV0
  <2> QED BY <1>5, <1>6, <1>7, <1>10, <2>5 DEF KeepsUp, d, e, gs
<1>12. CASE v # 0
  <2>1. PlaceV4(s, fs, k, x) /\ Told(s, fs, k)
    BY <1>5, <1>12 DEF Stands, StandsV4
  <2>2. s.frame = <<>> \/ (k > 0 /\ ~gs[k].final)
    <3>1. s.frame = <<>> \/ (k > 0 /\ ~fs[k].final)
      BY <2>1 DEF PlaceV4
    <3>2. k > 0 => gs[k] = fs[k]
      BY <1>1
    <3> QED BY <3>1, <3>2
  <2>3. CASE s.readingState = "HeaderPending" /\ x = ToCome(c, k)
    <3>1. x2 = ToCome(d, k)
      BY <1>2, <1>8, <2>3
    <3>2. PlaceV4(s, gs, k, x2)
      <4> HIDE DEF x2, x
      <4> QED BY <2>2, <2>3, <3>1 DEF PlaceV4, d
    <3>3. Stands(s, gs, k, more2)
      BY <1>9, <1>12, <2>1, <3>2 DEF Stands, StandsV4
    <3> QED BY <1>5, <1>6, <1>7, <1>10, <3>3 DEF KeepsUp, d, e, gs
  <2>4. CASE k < n /\ Knows(s, fs[k + 1]) /\ x = Still(s.readingState, fs[k + 1]) \o ToCome(c, k + 1)
    <3> DEFINE z == Still(s.readingState, fs[k + 1])
               y == ToCome(c, k + 1)
    <3>1. k + 1 \in 1 .. n /\ k + 1 \in 0 .. n /\ gs[k + 1] = fs[k + 1]
      BY <1>1, <2>4
    <3>2. ToCome(d, k + 1) = y \o e /\ y \in Bytes
      BY <1>2, <1>4, <3>1
    <3>3. z \in Bytes
      <4>1. Reader!Written(fs[k + 1])
        BY <3>1 DEF Fits, n
      <4> QED BY <4>1, StillType
    <3>4. x = z \o y
      BY <2>4
    <3>5. z \o (y \o e) = (z \o y) \o e
      <4> HIDE DEF z, y
      <4> QED BY <1>2, <3>2, <3>3, JoinedAgain
    <3>6. x2 = Still(s.readingState, gs[k + 1]) \o ToCome(d, k + 1)
      <4> HIDE DEF x, x2, y
      <4> QED BY <1>8, <3>1, <3>2, <3>4, <3>5
    <3>7. PlaceV4(s, gs, k, x2)
      <4>1. k < Len(gs)
        BY <1>1, <2>4
      <4> HIDE DEF x2, x, z, y
      <4> QED BY <2>2, <2>4, <3>1, <3>6, <4>1 DEF PlaceV4, d
    <3>8. Stands(s, gs, k, more2)
      BY <1>9, <1>12, <2>1, <3>7 DEF Stands, StandsV4
    <3> QED BY <1>5, <1>6, <1>7, <1>10, <3>8 DEF KeepsUp, d, e, gs
  <2>5. \/ s.readingState = "HeaderPending" /\ x = ToCome(c, k)
        \/ k < n /\ Knows(s, fs[k + 1]) /\ x = Still(s.readingState, fs[k + 1]) \o ToCome(c, k + 1)
    <3> HIDE DEF x
    <3> QED BY <2>1 DEF PlaceV4, c, n
  <2> QED BY <2>3, <2>4, <2>5
<1> QED BY <1>11, <1>12 DEF gs, e

\* Bytes that arrive.
LEMMA ArriveKeepsUp ==
  ASSUME NEW s \in SocketType, s.tcp # "Unconnected", NEW fs,
         NEW w \in Bytes, NEW n \in 1 .. Len(w), NEW got \in Nat, KeepsUp(s, fs, w, got)
  PROVE  KeepsUp(Receive(s, SubSeq(w, 1, n)), fs, Behind(w, n), got + n)
<1> DEFINE part == SubSeq(w, 1, n)
           rest == Behind(w, n)
           t == Receive(s, part)
<1>1. w \in Seq(Byte) /\ Len(w) \in Nat /\ n \in Nat /\ n <= Len(w)
  BY LengthIsNat DEF Bytes
<1>2. part \in Bytes /\ rest \in Bytes /\ Len(rest) = Len(w) - n
  BY <1>1, BytesCut, BehindLength
<1>3. part \o rest = w
  BY <1>1 DEF Behind
<1>4. PICK k \in 0 .. Len(fs) :
        got + Len(w) = Len(Gone(Coded(s.version, fs), Len(fs))) /\ Stands(s, fs, k, w)
  BY DEF KeepsUp
<1> HIDE DEF part, rest
<1>5. /\ t.version = s.version /\ t.readingState = s.readingState /\ t.tcp = s.tcp /\ t.ws = s.ws
      /\ t.frame = s.frame /\ t.final = s.final /\ t.opcode = s.opcode /\ t.hasMask = s.hasMask
      /\ t.length = s.length /\ t.key = s.key /\ t.running = TRUE
      /\ t.emitted = s.emitted /\ t.written = s.written /\ t.buffer = s.buffer \o part
  BY DEF Receive, SocketType
<1> HIDE DEF t
<1>6. t.buffer \o rest = s.buffer \o w
  <2>0. s.buffer \in Bytes
    BY DEF SocketType
  <2>1. (s.buffer \o part) \o rest = s.buffer \o (part \o rest)
    BY <1>2, <2>0, JoinedAgain, Zenon
  <2> QED BY <1>3, <1>5, <2>1
<1>7. Stands(t, fs, k, rest)
  <2>1. \A f : Knows(s, f) => Knows(t, f)
    BY <1>5 DEF Knows
  <2>2. ASSUME Told(s, fs, k) PROVE Told(t, fs, k)
    BY <1>5, <2>2, ToldSame
  <2>3. CASE s.version = 0
    BY <1>4, <1>5, <1>6, <2>2, <2>3 DEF Stands, StandsV0, PlaceV0
  <2>4. CASE s.version # 0
    BY <1>4, <1>5, <1>6, <2>1, <2>2, <2>4 DEF Stands, StandsV4, PlaceV4
  <2> QED BY <2>3, <2>4
<1>8. (got + n) + Len(rest) = got + Len(w)
  BY <1>1, <1>2
<1> QED
  BY <1>2, <1>4, <1>5, <1>7, <1>8 DEF KeepsUp, t, part, rest

\* An iteration of the reader.
LEMMA IterateKeepsUp ==
  ASSUME NEW s \in SocketType, s.running, s.tcp # "Unconnected",
         NEW fs, Len(fs) \in Nat, Fits(s.version, fs), Copes(s.version, fs),
         NEW w, NEW got, KeepsUp(s, fs, w, got)
  PROVE  KeepsUp(Iterate(s), fs, w, got)
<1> DEFINE u == [s EXCEPT !.slot = FALSE]
           t == Iterate(s)
<1>0. s.running = TRUE
  BY DEF SocketType
<1>1. /\ u \in SocketType /\ SameLife(s, u) /\ SameReading(s, u) /\ SameMessages(s, u)
      /\ u.final = s.final /\ u.opcode = s.opcode /\ u.hasMask = s.hasMask
      /\ u.length = s.length /\ u.key = s.key
      /\ t = IF s.version = 0 THEN IterateV0(u) ELSE IterateV4(u)
  BY Started
<1>2. PICK more \in Bytes, k \in 0 .. Len(fs) :
        /\ w = more
        /\ got + Len(more) = Len(Gone(Coded(s.version, fs), Len(fs)))
        /\ Stands(s, fs, k, more)
  BY DEF KeepsUp
<1> HIDE DEF u
<1>3. t.version = s.version
  BY <1>0, IterateType
<1> HIDE DEF t
<1>4. Unmoved(s, u)
  BY <1>1 DEF Unmoved, SameLife, SameReading, SameMessages
<1>5. Stands(u, fs, k, more) /\ u.version = s.version /\ u.running = TRUE /\ u.tcp # "Unconnected"
  BY <1>0, <1>1, <1>2, <1>4, UnmovedStands DEF Unmoved, SameLife
<1>6. \E j \in 0 .. Len(fs) : Stands(t, fs, j, more) /\ (~t.running => Waits(t))
  <2>1. CASE s.version = 0
    <3>1. t = IterateV0(u) /\ Texts(fs) /\ StandsV0(u, fs, k, more) /\ Fits(0, fs)
      BY <1>1, <1>5, <2>1 DEF Copes, Stands
    <3>2. \E j \in 0 .. Len(fs) : StandsV0(t, fs, j, more) /\ (~t.running => t.buffer = <<>>)
      BY <1>1, <1>5, <2>1, <3>1, IterationStandsV0
    <3> QED BY <1>3, <2>1, <3>2 DEF Stands, Waits
  <2>2. CASE s.version # 0
    <3>1. t = IterateV4(u) /\ (\A i \in 1 .. Len(fs) : Plain(fs[i])) /\ StandsV4(u, fs, k, more)
          /\ Fits(u.version, fs)
      BY <1>1, <1>5, <2>2 DEF Copes, Stands
    <3>2. \E j \in 0 .. Len(fs) : StandsV4(t, fs, j, more) /\ (~t.running => Len(t.buffer) < Needed(t))
      BY <1>1, <1>5, <2>2, <3>1, IterationStands
    <3> QED BY <1>3, <2>2, <3>2 DEF Stands, Waits
  <2> QED BY <2>1, <2>2
<1> QED
  BY <1>2, <1>3, <1>6 DEF KeepsUp, t

----------------------------------------------------------------------------
(* The invariant of FrameReader.                                           *)

ReaderBase ==
  /\ sock \in SocketType /\ sock.version \in Version
  /\ wire \in Bytes /\ arrived \in Nat /\ budget \in 0 .. MaxFrames /\ clean \in BOOLEAN
  /\ frames \in Seq(ServerFrame) /\ Fits(sock.version, frames)
  /\ sock.tcp = "Unconnected" => wire = <<>> /\ ~sock.running

\* On a connection it was ready for, the reader keeps up with frames it can
\* cope with.
ReaderKeepsUp == clean /\ Copes(sock.version, frames) => KeepsUp(sock, frames, wire, arrived)

\* A connection begins.
LEMMA BeginsWell ==
  ASSUME NEW s, s.readingState = "HeaderPending", s.frame = <<>>, s.buffer = <<>>,
         s.emitted = <<>>, s.written = <<>>
  PROVE  KeepsUp(s, <<>>, <<>>, 0) /\ \A version : Fits(version, <<>>)
<1> DEFINE none == <<>>
           v == s.version
           c == Coded(v, none)
           g == Signalled(v, none)
           a == Answered(none)
<1>1. Len(none) = 0 /\ Len(none) \in Nat /\ none \in Bytes /\ none \o none = none
  BY DEF Bytes
<1>2. \A i \in 1 .. 0 : FALSE
  OBVIOUS
<1> HIDE DEF none
<1>3. \A version : Fits(version, none)
  BY <1>1, <1>2 DEF Fits
<1>4. /\ c \in Seq(Seq(Byte)) /\ Len(c) = 0 /\ g \in Seq(Seq(Report)) /\ Len(g) = 0
      /\ a \in Seq(Seq(Report)) /\ Len(a) = 0
  BY <1>1, <1>3, RowTypes
<1> HIDE DEF c, g, a
<1>5. Gone(c, 0) = none /\ ToCome(c, 0) = none
  BY <1>4, GoneOn, AheadOn DEF none
<1>6. Gone(g, 0) = none
  BY <1>4, GoneOn DEF none
<1>7. Gone(a, 0) = none
  BY <1>4, GoneOn DEF none
<1>8. s.frame = none /\ s.buffer = none /\ s.emitted = none /\ s.written = none
  BY DEF none
<1>9. Told(s, none, 0)
  BY <1>2, <1>6, <1>7, <1>8 DEF Told, g, a
<1>10. Stands(s, none, 0, none)
  <2>1. CASE v = 0
    BY <1>1, <1>5, <1>8, <1>9, <2>1 DEF Stands, StandsV0, PlaceV0, c
  <2>2. CASE v # 0
    BY <1>1, <1>5, <1>8, <1>9, <2>2 DEF Stands, StandsV4, PlaceV4, c
  <2> QED BY <2>1, <2>2
<1>11. Waits(s)
  <2>1. Needed(s) = 2
    BY DEF Needed
  <2>2. s.buffer = <<>> /\ Len(s.buffer) < 2
    BY <1>1, <1>8
  <2> QED BY <2>1, <2>2 DEF Waits
<1>12. 0 + Len(none) = Len(Gone(Coded(s.version, none), Len(none)))
  BY <1>1, <1>5 DEF c
<1>13. KeepsUp(s, none, none, 0)
  <2>1. 0 \in 0 .. Len(none)
    BY <1>1
  <2> QED BY <1>1, <1>10, <1>11, <1>12, <2>1 DEF KeepsUp
<1> QED BY <1>3, <1>13 DEF none

\* What holds at the beginning.
LEMMA ReaderBegins ==
  ASSUME Version \subseteq Nat, MaxFrames \in Nat, Reader!Init
  PROVE  ReaderBase /\ ReaderKeepsUp
<1>1. PICK version \in Version : sock = Reader!NewSocket(version)
  BY DEF Reader!Init
<1>2. sock = NewSocket(version) /\ version \in Nat
  BY <1>1, SameOperators
<1>3. sock \in SocketType
  BY <1>2, NewSocketType
<1>4. /\ sock.version = version /\ sock.tcp = "Connected" /\ sock.readingState = "HeaderPending"
      /\ sock.frame = <<>> /\ sock.buffer = <<>> /\ sock.emitted = <<>> /\ sock.written = <<>>
  BY <1>2 DEF NewSocket
<1>5. wire = <<>> /\ frames = <<>> /\ arrived = 0 /\ clean = TRUE /\ budget = MaxFrames
  BY DEF Reader!Init
<1>6. KeepsUp(sock, <<>>, <<>>, 0) /\ \A v : Fits(v, <<>>)
  BY <1>4, BeginsWell
<1>7. ReaderKeepsUp
  BY <1>5, <1>6 DEF ReaderKeepsUp
<1>8. wire \in Bytes
  BY <1>5, NoByte
<1>9. ReaderBase
  BY <1>1, <1>3, <1>4, <1>5, <1>6, <1>8 DEF ReaderBase
<1> QED BY <1>7, <1>9

\* What the reader copes with, it coped with before.
LEMMA CopedBefore ==
  ASSUME NEW version, NEW S, NEW fs \in Seq(S), NEW f, Copes(version, Append(fs, f))
  PROVE  Copes(version, fs)
<1> DEFINE gs == Append(fs, f)
<1>1. Len(fs) \in Nat /\ \A i \in 1 .. Len(fs) : i \in 1 .. Len(gs) /\ gs[i] = fs[i]
  OBVIOUS
<1> HIDE DEF gs
<1>2. Copes(version, gs)
  BY DEF gs
<1> QED BY <1>1, <1>2 DEF Copes, Texts

\* The server sends a frame.
LEMMA ServerSendsKeeps ==
  ASSUME Reader!FramesAreWritten, MaxFrames \in Nat, ReaderBase, ReaderKeepsUp,
         NEW f \in ServerFrame, Reader!ServerSends(f)
  PROVE  ReaderBase' /\ ReaderKeepsUp'
<1> DEFINE v == sock.version
           e == Reader!Encode(v, f)
<1>1. /\ sock.tcp = "Connected" /\ budget > 0 /\ Reader!Conforms(v, frames, f)
      /\ wire' = wire \o e /\ frames' = Append(frames, f) /\ budget' = budget - 1
      /\ sock' = sock /\ arrived' = arrived /\ clean' = clean
  BY DEF Reader!ServerSends
<1>2. Reader!Written(f)
  BY DEF Reader!FramesAreWritten
<1>3. sock \in SocketType /\ wire \in Bytes /\ arrived \in Nat /\ frames \in Seq(ServerFrame) /\ Fits(v, frames)
  BY DEF ReaderBase
<1>4. Fits(v, Append(frames, f)) /\ \A i \in 1 .. Len(frames) : frames[i].opcode # OpClose
  BY <1>1, <1>2, <1>3, FitsOn
<1>5. e \in Bytes
  BY <1>3, <1>4, RowsOn DEF OneFurther
<1>6. sock.tcp # "Unconnected"
  BY <1>1
<1> HIDE DEF e
<1>7. ReaderBase'
  <2>1. wire \o e \in Bytes
    BY <1>3, <1>5, BytesJoined
  <2>2. Append(frames, f) \in Seq(ServerFrame)
    BY <1>3
  <2>3. budget' \in 0 .. MaxFrames
    BY <1>1 DEF ReaderBase
  <2> QED BY <1>1, <1>4, <1>6, <2>1, <2>2, <2>3 DEF ReaderBase
<1>8. ASSUME clean, Copes(v, Append(frames, f))
      PROVE  KeepsUp(sock, Append(frames, f), wire \o e, arrived)
  <2>1. Copes(v, frames)
    BY <1>3, <1>8, CopedBefore
  <2>2. KeepsUp(sock, frames, wire, arrived)
    BY <1>8, <2>1 DEF ReaderKeepsUp
  <2> QED BY <1>3, <1>4, <1>6, <2>2, SendKeepsUp DEF e
<1>9. ReaderKeepsUp'
  BY <1>1, <1>8 DEF ReaderKeepsUp
<1> QED BY <1>7, <1>9

\* A segment arrives.
LEMMA ArriveKeeps ==
  ASSUME ReaderBase, ReaderKeepsUp, Reader!Arrive
  PROVE  ReaderBase' /\ ReaderKeepsUp'
<1>1. PICK n \in 1 .. Len(wire) :
        /\ sock' = Reader!Receive(sock, SubSeq(wire, 1, n))
        /\ wire' = Reader!Behind(wire, n) /\ arrived' = arrived + n
  BY DEF Reader!Arrive
<1>2. sock' = Receive(sock, SubSeq(wire, 1, n)) /\ wire' = Behind(wire, n) /\ arrived' = arrived + n
  BY <1>1, SameOperators
<1>3. sock.tcp = "Connected" /\ frames' = frames /\ clean' = clean /\ budget' = budget
  BY DEF Reader!Arrive
<1>4. sock \in SocketType /\ wire \in Bytes /\ arrived \in Nat
  BY DEF ReaderBase
<1>5. sock.tcp # "Unconnected"
  BY <1>3
<1>6. n \in Nat /\ n <= Len(wire) /\ 1 \in Nat \ {0} /\ n \in Int
  BY <1>4 DEF Bytes
<1>7. SubSeq(wire, 1, n) \in Bytes
  BY <1>4, <1>6, BytesCut
<1>8. Behind(wire, n) \in Bytes
  BY <1>4, <1>6, BytesBehind
<1>9. sock' \in SocketType /\ SameLife(sock, sock')
  BY <1>2, <1>4, <1>7, ReceiveStep
<1>10. sock'.version = sock.version /\ sock'.tcp = sock.tcp
  BY <1>9 DEF SameLife
<1>11. arrived + n \in Nat
  BY <1>4, <1>6
<1>12. ReaderBase'
  BY <1>2, <1>3, <1>5, <1>8, <1>9, <1>10, <1>11 DEF ReaderBase
<1>13. ASSUME clean, Copes(sock.version, frames)
       PROVE  KeepsUp(Receive(sock, SubSeq(wire, 1, n)), frames, Behind(wire, n), arrived + n)
  <2>1. KeepsUp(sock, frames, wire, arrived)
    BY <1>13 DEF ReaderKeepsUp
  <2> QED BY <1>4, <1>5, <2>1, ArriveKeepsUp
<1>14. ReaderKeepsUp'
  BY <1>2, <1>3, <1>10, <1>13 DEF ReaderKeepsUp
<1> QED BY <1>12, <1>14

\* The loop goes on.
LEMMA ProcessDataKeeps ==
  ASSUME ReaderBase, ReaderKeepsUp, Reader!ProcessData
  PROVE  ReaderBase' /\ ReaderKeepsUp'
<1>1. sock' = Iterate(sock)
  BY SameOperators DEF Reader!ProcessData
<1>2. /\ sock.running /\ wire' = wire /\ frames' = frames /\ arrived' = arrived
      /\ clean' = clean /\ budget' = budget
  BY DEF Reader!ProcessData
<1>3. sock \in SocketType /\ frames \in Seq(ServerFrame) /\ Fits(sock.version, frames)
      /\ sock.tcp # "Unconnected"
  BY <1>2 DEF ReaderBase
<1>4. sock.running = TRUE
  BY <1>2, <1>3 DEF SocketType
<1>5. /\ Iterate(sock) \in SocketType /\ Iterate(sock).version = sock.version
      /\ Iterate(sock).tcp # "Unconnected"
  BY <1>3, <1>4, IterateType
<1>6. ReaderBase'
  BY <1>1, <1>2, <1>5 DEF ReaderBase
<1>7. ASSUME clean, Copes(sock.version, frames)
      PROVE  KeepsUp(Iterate(sock), frames, wire, arrived)
  <2>1. KeepsUp(sock, frames, wire, arrived)
    BY <1>7 DEF ReaderKeepsUp
  <2>2. Len(frames) \in Nat
    BY <1>3
  <2> QED BY <1>2, <1>3, <1>7, <2>1, <2>2, IterateKeepsUp
<1>8. ReaderKeepsUp'
  BY <1>1, <1>2, <1>5, <1>7 DEF ReaderKeepsUp
<1> QED BY <1>6, <1>8

\* The user closes: the reader does not move.
LEMMA DisconnectKeeps ==
  ASSUME ReaderBase, ReaderKeepsUp, Reader!DisconnectFromHost
  PROVE  ReaderBase' /\ ReaderKeepsUp'
<1>1. sock' = Close(sock, NoCloseStatusCode)
  BY SameOperators DEF Reader!DisconnectFromHost
<1>2. wire' = wire /\ frames' = frames /\ arrived' = arrived /\ clean' = clean /\ budget' = budget
  BY DEF Reader!DisconnectFromHost
<1>3. sock \in SocketType
  BY DEF ReaderBase
<1>4. Unmoved(sock, sock')
  BY <1>1, <1>3, CloseUnmoved
<1>5. sock' \in SocketType /\ ClosedLife(sock, sock')
  <2>1. NoCloseStatusCode \in Nat
    BY DEF NoCloseStatusCode
  <2> QED BY <1>1, <1>3, <2>1, CloseStep
<1>6. sock'.tcp = "Unconnected" => sock.tcp = "Unconnected"
  BY <1>5 DEF ClosedLife, SameLife
<1>7. sock'.version = sock.version /\ sock'.running = sock.running
  BY <1>4 DEF Unmoved
<1>8. ReaderBase'
  BY <1>2, <1>5, <1>6, <1>7 DEF ReaderBase
<1>9. ASSUME clean, Copes(sock.version, frames)
      PROVE  KeepsUp(sock', frames, wire, arrived)
  <2>1. KeepsUp(sock, frames, wire, arrived)
    BY <1>9 DEF ReaderKeepsUp
  <2> QED BY <1>4, <2>1, UnmovedKeepsUp
<1>10. ReaderKeepsUp'
  BY <1>2, <1>7, <1>9 DEF ReaderKeepsUp
<1> QED BY <1>8, <1>10

\* What is on its way is gone, and so are the bytes that were to come.
LEMMA ConnectionEndsKeeps ==
  ASSUME ReaderBase, ReaderKeepsUp, Reader!ConnectionEnds
  PROVE  ReaderBase' /\ ReaderKeepsUp'
<1>1. sock' = TcpUnconnected(sock)
  BY SameOperators DEF Reader!ConnectionEnds
<1>2. /\ ~sock.running /\ wire' = <<>> /\ frames' = frames /\ arrived' = arrived
      /\ clean' = clean /\ budget' = budget
  BY DEF Reader!ConnectionEnds
<1>3. sock \in SocketType
  BY DEF ReaderBase
<1>4. Unmoved(sock, sock') /\ sock'.tcp = "Unconnected"
  BY <1>1, <1>3, UnconnectedUnmoved
<1>5. sock' \in SocketType
  BY <1>1, <1>3, TcpUnconnectedStep
<1>6. sock'.version = sock.version /\ sock'.running = sock.running
  BY <1>4 DEF Unmoved
<1>7. wire' \in Bytes
  BY <1>2, NoByte
<1>8. ReaderBase'
  BY <1>2, <1>5, <1>6, <1>7 DEF ReaderBase
<1>9. ASSUME clean, Copes(sock.version, frames)
      PROVE  KeepsUp(sock', frames, <<>>, arrived)
  <2>1. KeepsUp(sock, frames, wire, arrived)
    BY <1>9 DEF ReaderKeepsUp
  <2> QED BY <1>4, <2>1, UnmovedKeepsUp
<1>10. ReaderKeepsUp'
  BY <1>2, <1>6, <1>9 DEF ReaderKeepsUp
<1> QED BY <1>8, <1>10

\* A connection more: the reader is ready for it, or it does not count.
LEMMA ReconnectKeeps ==
  ASSUME ReaderBase, ReaderKeepsUp, Reader!Reconnect
  PROVE  ReaderBase' /\ ReaderKeepsUp'
<1> DEFINE t == [sock EXCEPT !.ws = "Connected", !.tcp = "Connected", !.buffer = <<>>,
                             !.emitted = <<>>, !.written = <<>>, !.late = FALSE,
                             !.closeFrames = 0, !.disconnects = 0]
<1>1. /\ sock' = t /\ frames' = <<>> /\ arrived' = 0 /\ wire' = wire /\ budget' = budget
      /\ clean' = (sock.readingState = "HeaderPending" /\ sock.frame = <<>>)
      /\ sock.tcp = "Unconnected" /\ budget > 0
  BY DEF Reader!Reconnect
<1>2. sock \in SocketType /\ wire = <<>> /\ sock.version \in Version
  BY <1>1 DEF ReaderBase
<1>3. t \in SocketType
  <2> DEFINE none == <<>>
  <2>1. none \in Bytes /\ none \in Reports
    BY DEF Bytes, Reports
  <2> HIDE DEF none
  <2> DEFINE u == [sock EXCEPT !.ws = "Connected", !.tcp = "Connected", !.buffer = none]
             w == [u EXCEPT !.emitted = none, !.written = none, !.late = FALSE]
             x == [w EXCEPT !.closeFrames = 0, !.disconnects = 0]
  <2>2. u \in SocketType
    BY <1>2, <2>1 DEF SocketType, States
  <2> HIDE DEF u
  <2>3. w \in SocketType
    BY <2>1, <2>2 DEF SocketType
  <2> HIDE DEF w
  <2>4. x \in SocketType
    BY <2>3 DEF SocketType
  <2>5. t = x
    BY DEF x, w, u, none
  <2> QED BY <2>4, <2>5
<1>4. /\ t.version = sock.version /\ t.tcp = "Connected" /\ t.buffer = <<>> /\ t.emitted = <<>>
      /\ t.written = <<>> /\ t.readingState = sock.readingState /\ t.frame = sock.frame
  BY <1>2 DEF SocketType
<1> HIDE DEF t
<1>5. \A version : Fits(version, <<>>)
  <2>1. Len(<<>>) = 0 /\ \A i \in 1 .. 0 : FALSE
    OBVIOUS
  <2> QED BY <2>1 DEF Fits
<1>6. ReaderBase'
  <2>1. <<>> \in Seq(ServerFrame) /\ 0 \in Nat /\ wire \in Bytes /\ budget \in 0 .. MaxFrames
    BY DEF ReaderBase
  <2>2. clean' \in BOOLEAN
    BY <1>1
  <2> QED BY <1>1, <1>2, <1>3, <1>4, <1>5, <2>1, <2>2 DEF ReaderBase
<1>7. clean' => KeepsUp(t, <<>>, <<>>, 0)
  BY <1>1, <1>4, BeginsWell
<1>8. ReaderKeepsUp'
  BY <1>1, <1>2, <1>7 DEF ReaderKeepsUp
<1> QED BY <1>6, <1>8

\* Every step keeps it.
LEMMA ReaderGoesOn ==
  ASSUME Reader!FramesAreWritten, MaxFrames \in Nat, ReaderBase, ReaderKeepsUp,
         [Reader!Next]_(Reader!vars)
  PROVE  ReaderBase' /\ ReaderKeepsUp'
<1>1. CASE \E f \in ServerFrame : Reader!ServerSends(f)
  BY <1>1, ServerSendsKeeps
<1>2. CASE Reader!Arrive
  BY <1>2, ArriveKeeps
<1>3. CASE Reader!ProcessData
  BY <1>3, ProcessDataKeeps
<1>4. CASE Reader!DisconnectFromHost
  BY <1>4, DisconnectKeeps
<1>5. CASE Reader!ConnectionEnds
  BY <1>5, ConnectionEndsKeeps
<1>6. CASE Reader!Reconnect
  BY <1>6, ReconnectKeeps
<1>7. CASE UNCHANGED Reader!vars
  BY <1>7 DEF Reader!vars, ReaderBase, ReaderKeepsUp
<1> QED
  BY <1>1, <1>2, <1>3, <1>4, <1>5, <1>6, <1>7 DEF Reader!Next

\* It always holds.
LEMMA ReaderHolds ==
  ASSUME Reader!FramesAreWritten, Version \subseteq Nat, MaxFrames \in Nat
  PROVE  Reader!Spec => [](ReaderBase /\ ReaderKeepsUp)
<1>1. Reader!Init => ReaderBase /\ ReaderKeepsUp
  BY ReaderBegins
<1>2. (ReaderBase /\ ReaderKeepsUp) /\ [Reader!Next]_(Reader!vars) => (ReaderBase /\ ReaderKeepsUp)'
  BY ReaderGoesOn
<1> QED
  BY <1>1, <1>2, PTL DEF Reader!Spec

\* More sequences are not shorter.
LEMMA RowMounts ==
  ASSUME NEW S, NEW parts \in Seq(Seq(S))
  PROVE  \A k \in 0 .. Len(parts) : \A m \in 0 .. k : Len(Gone(parts, m)) <= Len(Gone(parts, k))
<1> DEFINE n == Len(parts)
           size(k) == Len(Gone(parts, k))
           T == {k \in 0 .. n : \A m \in 0 .. k : size(m) <= size(k)}
<1>1. n \in Nat
  OBVIOUS
<1>2. /\ \A k \in 0 .. n : Gone(parts, k) \in Seq(S)
      /\ \A k \in 0 .. n - 1 : Gone(parts, k + 1) = Gone(parts, k) \o parts[k + 1]
  BY GoneOn
<1>3. \A k \in 1 .. n : parts[k] \in Seq(S)
  OBVIOUS
<1>4. \A k \in 0 .. n : size(k) \in Nat
  BY <1>2
<1>5. ASSUME NEW k \in 0 .. n - 1
      PROVE  size(k) <= size(k + 1)
  <2> DEFINE l == k + 1
             g == Gone(parts, k)
             h == Gone(parts, l)
             p == parts[l]
  <2>1. g \in Seq(S) /\ p \in Seq(S) /\ h = g \o p
    BY <1>1, <1>2, <1>3
  <2> HIDE DEF g, h, p
  <2>2. Len(g) <= Len(h)
    BY <2>1
  <2> QED BY <2>2 DEF g, h
<1> HIDE DEF n, size
<1>6. 0 .. n \subseteq T
  <2>1. 0 \in T
    BY <1>1, <1>4
  <2>2. ASSUME NEW k \in 0 .. n - 1, k \in T
        PROVE  k + 1 \in T
    <3>1. size(k) <= size(k + 1) /\ k + 1 \in 0 .. n /\ k \in 0 .. n
      BY <1>1, <1>5
    <3>2. ASSUME NEW m \in 0 .. k + 1
          PROVE  size(m) <= size(k + 1)
      <4>1. CASE m = k + 1
        BY <1>4, <3>1, <4>1
      <4>2. CASE m # k + 1
        <5>1. m \in 0 .. k /\ m \in 0 .. n
          BY <1>1, <3>1, <4>2
        <5>2. size(m) <= size(k)
          BY <2>2, <5>1
        <5> QED BY <1>4, <3>1, <5>1, <5>2
      <4> QED BY <4>1, <4>2
    <3> QED BY <3>1, <3>2
  <2> HIDE DEF T
  <2> QED BY <1>1, <2>1, <2>2, UpTo
<1> QED
  BY <1>6 DEF n, size

\* The next frame as bytes c[k + 1]: two at least.
FrameOn(c, version, f, k) ==
  /\ Len(c[k + 1]) \in Nat /\ Len(c[k + 1]) >= 2
  /\ Len(Gone(c, k)) \in Nat /\ Len(Gone(c, k + 1)) = Len(Gone(c, k)) + Len(c[k + 1])
  /\ version = 0 /\ f.opcode = OpClose => Len(c[k + 1]) = 2
  /\ version # 0 => Len(c[k + 1]) = 2 + Len(Still(Headed(f), f))

\* Every frame of them is.
LEMMA TwoBytesAtLeast ==
  ASSUME NEW version, NEW fs, Len(fs) \in Nat, Fits(version, fs), Copes(version, fs),
         NEW k \in 0 .. Len(fs), k < Len(fs)
  PROVE  FrameOn(Coded(version, fs), version, fs[k + 1], k)
<1> DEFINE c == Coded(version, fs)
           f == fs[k + 1]
           e == c[k + 1]
           g == Gone(c, k)
           h == Gone(c, k + 1)
<1>1. k + 1 \in 1 .. Len(fs) /\ k \in 0 .. Len(fs) - 1 /\ k \in 0 .. Len(fs)
  OBVIOUS
<1>2. c \in Seq(Seq(Byte)) /\ Len(c) = Len(fs) /\ c[k + 1] = Reader!Encode(version, f)
  BY <1>1, RowTypes
<1>3. /\ Reader!Written(f)
      /\ version = 0 => f.opcode \in {OpText, OpClose}
  BY <1>1 DEF Fits, Copes, Texts
<1> HIDE DEF c
<1>4. g \in Seq(Byte) /\ h = g \o e /\ e \in Seq(Byte)
  <2>1. Gone(c, k) \in Seq(Byte) /\ Gone(c, k + 1) = Gone(c, k) \o c[k + 1]
    BY <1>1, <1>2, GoneOn
  <2> DEFINE j == k + 1
  <2>2. j \in 1 .. Len(c)
    BY <1>1, <1>2
  <2> HIDE DEF j
  <2>3. c[j] \in Seq(Byte)
    BY <1>2, <2>2
  <2> HIDE DEF Gone
  <2> QED BY <2>1, <2>3 DEF j
<1>5. /\ version # 0 => e = Reader!EncodeV4(f)
      /\ version = 0 => e = Reader!EncodeV0(f)
  BY <1>2 DEF Reader!Encode
<1> HIDE DEF f, e, g, h
<1>6. Len(e) \in Nat /\ Len(g) \in Nat /\ Len(h) = Len(g) + Len(e)
  BY <1>4
<1>7. ASSUME version = 0
      PROVE  Len(e) >= 2 /\ (f.opcode = OpClose => Len(e) = 2)
  <2>1. f.payload \in Bytes /\ Len(f.payload) \in Nat
    BY <1>3, WrittenParts
  <2>2. /\ f.opcode = OpText => Reader!EncodeV0(f) = (<<0>> \o f.payload) \o <<255>>
        /\ f.opcode = OpClose => Reader!EncodeV0(f) = <<255, 0>>
    <3>1. f.opcode # OpBinary /\ f.opcode \in {OpText, OpBinary, OpClose}
      BY <1>3, <1>7 DEF OpText, OpBinary, OpClose
    <3> QED BY <1>3, <3>1, WireTypeV0
  <2>3. CASE f.opcode = OpText
    <3>1. Len((<<0>> \o f.payload) \o <<255>>) = Len(f.payload) + 2
      BY <2>1, TextAt
    <3>2. f.opcode # OpClose
      BY <2>3 DEF OpText, OpClose
    <3>3. Len(e) = Len(f.payload) + 2
      BY <1>5, <1>7, <2>2, <2>3, <3>1, Zenon
    <3> QED BY <2>1, <3>2, <3>3
  <2>4. CASE f.opcode = OpClose
    <3>1. e = <<255, 0>>
      BY <1>5, <1>7, <2>2, <2>4
    <3> QED BY <3>1
  <2> QED BY <1>3, <1>7, <2>3, <2>4
<1>8. ASSUME version # 0
      PROVE  Len(e) >= 2 /\ Len(e) = 2 + Len(Still(Headed(f), f))
  <2>1. Len(Reader!EncodeV4(f)) = 2 + Len(Still(Headed(f), f))
    BY <1>3, WireType
  <2>2. Still(Headed(f), f) \in Bytes
    BY <1>3, StillType
  <2>3. Len(Still(Headed(f), f)) \in Nat
    BY <2>2 DEF Bytes
  <2> QED BY <1>5, <1>8, <2>1, <2>3
<1>9. Len(e) >= 2
  BY <1>7, <1>8
<1> QED BY <1>6, <1>7, <1>8, <1>9 DEF FrameOn, f, e, g, h, c

\* What the reader of version 4 waits for belongs to the frame it is in.
LEMMA WaitsWithin ==
  ASSUME NEW s, NEW f, Plain(f), Knows(s, f)
  PROVE  LET n == Len(Still(s.readingState, f))
         IN  n \in Nat /\ Needed(s) <= n /\ n <= Len(Still(Headed(f), f)) /\ Needed(s) \in Nat
<1> DEFINE a == Len(f.length)
           b == Len(f.key)
           d == Len(f.payload)
<1>0. \A p, q \in Bytes : Len(p \o q) = Len(p) + Len(q)
  BY DEF Bytes
<1>1. Reader!Written(f)
  BY DEF Plain
<1>2. /\ f.length \in Bytes /\ a \in {1, 2, 8} /\ f.key \in Bytes /\ (f.key # <<>> => b = 4)
      /\ d \in Nat /\ Body(f) \in Bytes /\ Len(Body(f)) = d
  BY <1>1, WrittenParts, BodyType
<1>3. b \in Nat
  BY <1>2 DEF Bytes
<1> DEFINE rest == f.key \o Body(f)
<1>4. Len(rest) = b + d /\ rest \in Bytes
  <2>1. Len(f.key \o Body(f)) = Len(f.key) + Len(Body(f))
    BY <1>0, <1>2
  <2> QED BY <1>2, <2>1, BytesJoined
<1> HIDE DEF rest
<1>5. Len(f.length \o rest) = a + Len(rest)
  BY <1>0, <1>2, <1>4
<1>6. /\ Len(Still("PayloadLengthPending", f)) = a + (b + d)
      /\ Len(Still("BigPayloadLenghPending", f)) = a + (b + d)
      /\ Len(Still("MaskPending", f)) = b + d
      /\ Len(Still("PayloadBodyPending", f)) = d
  BY <1>1, <1>2, <1>4, <1>5, StillType DEF rest
<1>7. CASE s.readingState = "PayloadLengthPending" /\ a = 2
  <2>1. Headed(f) = "PayloadLengthPending" /\ Needed(s) = 2
    BY <1>7 DEF Headed, Needed
  <2> HIDE DEF a, b, d
  <2> QED BY <1>2, <1>3, <1>6, <1>7, <2>1
<1>8. CASE s.readingState = "BigPayloadLenghPending" /\ a = 8
  <2>1. Headed(f) = "BigPayloadLenghPending" /\ Needed(s) = 8
    BY <1>8 DEF Headed, Needed
  <2> HIDE DEF a, b, d
  <2> QED BY <1>2, <1>3, <1>6, <1>8, <2>1
<1>9. Headed(f) \in {"MaskPending", "PayloadLengthPending", "BigPayloadLenghPending"}
  BY DEF Headed
<1>10. Len(Still(Headed(f), f)) \in Nat /\ Len(Still(Headed(f), f)) >= b + d
  <2> HIDE DEF a, b, d
  <2> QED BY <1>2, <1>3, <1>6, <1>9
<1>11. CASE s.readingState = "MaskPending"
  <2>1. Needed(s) = IF f.key # <<>> THEN 4 ELSE 0
    BY <1>11 DEF Knows, Needed
  <2> HIDE DEF a, b, d
  <2> QED BY <1>2, <1>3, <1>6, <1>10, <1>11, <2>1
<1>12. CASE s.readingState = "PayloadBodyPending"
  <2>1. Needed(s) = d
    BY <1>12 DEF Knows, Needed, Short
  <2> HIDE DEF a, b, d
  <2> QED BY <1>2, <1>3, <1>6, <1>10, <1>12, <2>1
<1> QED
  BY <1>7, <1>8, <1>11, <1>12 DEF Knows

\* A reader that waits has reported the frames that have arrived.
LEMMA WaitsBetween ==
  ASSUME NEW s \in SocketType, NEW fs, Len(fs) \in Nat, Fits(s.version, fs), Copes(s.version, fs),
         NEW k \in 0 .. Len(fs), NEW more \in Bytes, Stands(s, fs, k, more), Waits(s),
         NEW got \in Nat, got + Len(more) = Len(Gone(Coded(s.version, fs), Len(fs)))
  PROVE  LET c == Coded(s.version, fs)
         IN  Len(Gone(c, k)) <= got /\ (k < Len(fs) => got < Len(Gone(c, k + 1)))
<1> DEFINE c == Coded(s.version, fs)
           n == Len(fs)
           all == Len(Gone(c, n))
           m == Len(more)
           b == Len(s.buffer)
           G(i) == Len(Gone(c, i))
           A(i) == Len(ToCome(c, i))
           j == k + 1
           f == fs[j]
           x == s.buffer \o more
<1>1. c \in Seq(Seq(Byte)) /\ Len(c) = n
  BY RowTypes
<1>2. n \in Nat /\ k \in 0 .. n
  OBVIOUS
<1>3. k < n => j \in 0 .. n /\ j \in 1 .. n
  BY <1>2
<1>4. s.buffer \in Bytes
  BY DEF SocketType
<1>5. b \in Nat /\ m \in Nat /\ Len(x) = b + m
  BY <1>4 DEF Bytes
<1>6. ASSUME k < n
      PROVE  /\ Len(c[j]) \in Nat /\ Len(c[j]) >= 2 /\ G(k) \in Nat /\ G(j) = G(k) + Len(c[j])
             /\ s.version = 0 /\ f.opcode = OpClose => Len(c[j]) = 2
             /\ s.version # 0 => Len(c[j]) = 2 + Len(Still(Headed(f), f))
  <2>1. FrameOn(c, s.version, f, k)
    BY <1>6, TwoBytesAtLeast
  <2> QED BY <2>1 DEF FrameOn
<1> HIDE DEF c
<1>7. \A i \in 0 .. n : G(i) + A(i) = all
  BY <1>1, RowCounts
<1>8. \A i \in 0 .. n : G(i) \in Nat /\ A(i) \in Nat
  <2> TAKE i \in 0 .. n
  <2>1. Gone(c, i) \in Seq(Byte)
    BY <1>1, GoneOn
  <2>2. ToCome(c, i) \in Seq(Byte)
    BY <1>1, AheadOn
  <2> QED BY <2>1, <2>2
<1>9. ToCome(c, n) = <<>>
  BY <1>1, AheadOn
<1>10. got + m = all
  BY DEF c
<1>11. \A i \in 0 .. n : ToCome(c, i) \in Bytes
  BY <1>1, AheadOn DEF Bytes
<1>12. G(k) + A(k) = all /\ G(k) \in Nat /\ A(k) \in Nat
  BY <1>2, <1>7, <1>8
<1>13. k < n => G(j) + A(j) = all /\ G(j) \in Nat /\ A(j) \in Nat
  BY <1>3, <1>7, <1>8
<1>14. CASE s.version = 0
  <2>1. s.buffer = <<>> /\ b = 0
    BY <1>14 DEF Waits
  <2>2. \/ x = ToCome(c, k)
        \/ k + 1 = n /\ f.opcode = OpClose /\ x = <<0>>
    BY <1>14 DEF Stands, StandsV0, PlaceV0, c
  <2>3. CASE x = ToCome(c, k)
    <3>1. b + m = A(k)
      BY <1>5, <2>3
    <3> HIDE DEF A, G, m, b, all, n, x, f, j
    <3>2. got = G(k)
      BY <1>5, <1>10, <1>12, <2>1, <3>1
    <3>3. k < n => got < G(j)
      <4> HAVE k < n
      <4>1. Len(c[j]) >= 2 /\ Len(c[j]) \in Nat /\ G(k) \in Nat /\ G(j) = G(k) + Len(c[j])
        BY <1>6
      <4> DEFINE d == Len(c[j])
      <4> HIDE DEF d
      <4> QED BY <3>2, <4>1 DEF d
    <3>4. G(k) <= got
      BY <3>2
    <3> QED BY <3>3, <3>4 DEF G, n, j, c
  <2>4. CASE k + 1 = n /\ f.opcode = OpClose /\ x = <<0>>
    <3>1. b + m = 1 /\ A(n) = 0
      BY <1>5, <1>9, <2>4
    <3>2. k < n /\ j = n /\ n \in 0 .. n
      BY <1>2, <2>4
    <3> HIDE DEF A, G, m, b, all, n, x, f, j
    <3>3. G(n) = all
      BY <1>7, <1>8, <3>1, <3>2
    <3>4. G(n) = G(k) + 2 /\ G(k) \in Nat
      BY <1>6, <1>14, <2>4, <3>2
    <3>5. got = G(k) + 1 /\ got < G(j)
      BY <1>5, <1>10, <2>1, <3>1, <3>2, <3>3, <3>4
    <3> QED BY <3>4, <3>5 DEF G, n, j, c
  <2> QED BY <2>2, <2>3, <2>4
<1>15. CASE s.version # 0
  <2>1. b < Needed(s)
    BY <1>15 DEF Waits
  <2>2. PlaceV4(s, fs, k, x)
    BY <1>15 DEF Stands, StandsV4
  <2>3. CASE s.readingState = "HeaderPending" /\ x = ToCome(c, k)
    <3>1. b + m = A(k)
      BY <1>5, <2>3
    <3>2. b < 2
      BY <2>1, <2>3 DEF Needed
    <3> HIDE DEF A, G, m, b, all, n, x, f, j
    <3>3. got = G(k) + b
      BY <1>5, <1>10, <1>12, <3>1
    <3>4. G(k) \in Nat
      BY <1>2, <1>8
    <3>5. k < n => got < G(j)
      BY <1>5, <1>6, <3>2, <3>3, <3>4
    <3>6. G(k) <= got
      BY <1>5, <3>3, <3>4
    <3> QED BY <3>5, <3>6 DEF G, n, j, c
  <2>4. CASE k < n /\ Knows(s, f) /\ x = Still(s.readingState, f) \o ToCome(c, j)
    <3> DEFINE z == Len(Still(s.readingState, f))
    <3>1. Plain(f)
      BY <1>3, <1>15, <2>4 DEF Copes
    <3>2. z \in Nat /\ Needed(s) <= z /\ z <= Len(Still(Headed(f), f)) /\ Needed(s) \in Nat
      BY <2>4, <3>1, WaitsWithin
    <3>3. Still(s.readingState, f) \in Bytes /\ ToCome(c, j) \in Bytes
      BY <1>3, <1>11, <2>4, <3>1, StillType DEF Plain
    <3>4. b + m = z + A(j)
      <4> HIDE DEF x
      <4>1. Len(x) = z + A(j)
        BY <2>4, <3>3 DEF Bytes
      <4> QED BY <1>5, <4>1
    <3>5. Len(Still(Headed(f), f)) \in Nat /\ Len(c[j]) = 2 + Len(Still(Headed(f), f))
      <4>1. Still(Headed(f), f) \in Bytes
        BY <3>1, StillType DEF Plain
      <4> QED BY <1>6, <1>15, <2>4, <4>1 DEF Bytes
    <3> DEFINE y == Len(Still(Headed(f), f))
               d == Len(c[j])
               w == Needed(s)
    <3> HIDE DEF y, d, w, A, G, m, b, all, n, x, f, z
    <3>6. z \in Nat /\ w <= z /\ z <= y /\ w \in Nat /\ y \in Nat /\ d = 2 + y /\ b < w
      BY <2>1, <3>2, <3>5 DEF y, d, w
    <3>7. G(j) = G(k) + d /\ G(k) \in Nat /\ G(j) \in Nat /\ A(j) \in Nat /\ G(j) + A(j) = all
      BY <1>6, <1>13, <2>4 DEF d
    <3>8. got + z = G(j) + b
      <4>2. got \in Nat /\ m \in Nat /\ all \in Nat /\ b \in Nat
        BY <1>5, <1>10
      <4>3. all - A(j) = got + z - b
        <5> DEFINE o == A(j)
        <5>1. o \in Nat /\ b + m = z + o
          BY <3>4, <3>7
        <5> HIDE DEF o
        <5>2. all - o = got + z - b
          BY <1>10, <3>6, <4>2, <5>1
        <5> QED BY <5>2 DEF o
      <4> QED BY <3>6, <3>7, <4>2, <4>3
    <3>9. got < G(j) /\ G(k) <= got
      BY <1>5, <3>6, <3>7, <3>8
    <3> QED BY <3>9 DEF G, n, j, c
  <2> QED BY <2>2, <2>3, <2>4 DEF PlaceV4, c
<1> QED BY <1>14, <1>15

\* A part of the frames as bytes, reports and answers.
LEMMA FirstFrames ==
  ASSUME ReaderBase, NEW n \in 0 .. Len(frames)
  PROVE  /\ Reader!Size(SubSeq(frames, 1, n)) = Len(Gone(Coded(sock.version, frames), n))
         /\ Reader!Signals(SubSeq(frames, 1, n)) = Gone(Signalled(sock.version, frames), n)
         /\ Len(Reader!Pings(SubSeq(frames, 1, n))) = Len(Gone(Answered(frames), n))
<1> DEFINE v == sock.version
           fs == SubSeq(frames, 1, n)
           c == Coded(v, frames)
           g == Signalled(v, frames)
           a == Answered(frames)
<1>1. frames \in Seq(ServerFrame) /\ Fits(v, frames) /\ Len(frames) \in Nat
  BY DEF ReaderBase
<1>2. n \in Nat /\ \A i \in 1 .. n : i \in 1 .. Len(frames)
  BY <1>1
<1>3. DOMAIN fs = 1 .. n /\ \A i \in 1 .. n : fs[i] = frames[i]
  BY <1>1, <1>2
<1> HIDE DEF fs
<1>4. \A i \in 1 .. n : /\ c[i] = Reader!Encode(v, frames[i])
                        /\ g[i] = SignalIn(v, frames[i]) /\ a[i] = AnswerOf(frames[i])
  BY <1>1, <1>2, RowTypes
<1> HIDE DEF c, g, a
<1>5. [i \in DOMAIN fs |-> Reader!Encode(v, fs[i])] = [i \in 1 .. n |-> c[i]]
  BY <1>3, <1>4
<1>6. \A f : Reader!SignalOf(f) = SignalIn(v, f)
  <2> TAKE f
  <2>1. /\ Reader!OpText = 1 /\ Reader!OpBinary = 2 /\ Reader!OpPong = 10
        /\ OpText = 1 /\ OpBinary = 2 /\ OpPong = 10
    BY SameOperators, Zenon DEF OpText, OpBinary, OpPong
  <2> DEFINE text == <<[kind |-> "text", data |-> f.payload]>>
             binary == <<[kind |-> "binary", data |-> f.payload]>>
             pong == <<[kind |-> "pong", data |-> <<>>]>>
  <2>2. Reader!SignalOf(f) =
          IF ~f.final \/ (v = 0 /\ f.payload = <<>>) THEN <<>>
          ELSE CASE f.opcode = 1 -> text [] f.opcode = 2 -> binary [] f.opcode = 10 -> pong [] OTHER -> <<>>
    BY <2>1 DEF Reader!SignalOf
  <2>3. SignalIn(v, f) =
          IF ~f.final \/ (v = 0 /\ f.payload = <<>>) THEN <<>>
          ELSE IF f.opcode = 1 THEN text ELSE IF f.opcode = 2 THEN binary
          ELSE IF f.opcode = 10 THEN pong ELSE <<>>
    BY <2>1, Zenon DEF SignalIn
  <2> HIDE DEF text, binary, pong, v
  <2>4. \A o, x, y, z, w : (CASE o = 1 -> x [] o = 2 -> y [] o = 10 -> z [] OTHER -> w)
          = IF o = 1 THEN x ELSE IF o = 2 THEN y ELSE IF o = 10 THEN z ELSE w
    OBVIOUS
  <2> QED BY <2>2, <2>3, <2>4
<1>7. [i \in DOMAIN fs |-> Reader!SignalOf(fs[i])] = [i \in 1 .. n |-> g[i]]
  BY <1>3, <1>4, <1>6
<1> DEFINE PingIn(f) == IF f.opcode = OpPing THEN <<f>> ELSE <<>>
           p == [i \in 1 .. Len(frames) |-> PingIn(frames[i])]
<1>8. p \in Seq(Seq(ServerFrame)) /\ Len(p) = Len(frames)
      /\ \A i \in 1 .. Len(frames) : Len(p[i]) = Len(Answered(frames)[i])
  <2>1. /\ Answered(frames) \in Seq(Seq(Report))
        /\ \A i \in 1 .. Len(frames) : frames[i] \in ServerFrame /\ Answered(frames)[i] = AnswerOf(frames[i])
    BY <1>1, RowTypes
  <2>2. \A f \in ServerFrame : PingIn(f) \in Seq(ServerFrame) /\ Len(PingIn(f)) = Len(AnswerOf(f))
    BY DEF AnswerOf
  <2>3. \A i \in 1 .. Len(frames) : p[i] = PingIn(frames[i])
    OBVIOUS
  <2> HIDE DEF PingIn
  <2>4. p \in Seq(Seq(ServerFrame)) /\ Len(p) = Len(frames)
    BY <1>1, <2>1, <2>2
  <2> QED BY <2>1, <2>2, <2>3, <2>4, Zenon
<1>9. [i \in DOMAIN fs |-> IF fs[i].opcode = Reader!OpPing THEN <<fs[i]>> ELSE <<>>] = [i \in 1 .. n |-> p[i]]
  BY <1>1, <1>2, <1>3, SameOperators
<1> HIDE DEF p
<1>10. \A seqs : Reader!FlattenSeq(seqs) = FlattenSeq(seqs)
  BY SameOperators
<1>11. Reader!Size(fs) = Len(Gone(c, n))
  BY <1>5, <1>10 DEF Reader!Size, Gone
<1>12. Reader!Signals(fs) = Gone(g, n)
  BY <1>7, <1>10 DEF Reader!Signals, Gone
<1>13. Reader!Pings(fs) = Gone(p, n)
  BY <1>9, <1>10 DEF Reader!Pings, Gone
<1>14. Len(Gone(p, n)) = Len(Gone(a, n))
  BY <1>1, <1>8, GoneAlike, RowTypes DEF a
<1> QED
  BY <1>11, <1>12, <1>13, <1>14 DEF fs, c, g, a

\* Of sizes that do not fall, one is the last that has been reached.
LEMMA OnePlace ==
  ASSUME NEW n \in Nat, NEW F \in [0 .. n -> Nat], \A j \in 0 .. n : \A i \in 0 .. j : F[i] <= F[j],
         NEW k \in 0 .. n, NEW got \in Nat, F[k] <= got, k < n => got < F[k + 1]
  PROVE  \A i \in 0 .. n : (F[i] <= got /\ (i = n \/ F[i + 1] > got)) <=> i = k
<1> TAKE i \in 0 .. n
<1>1. ASSUME i < k
      PROVE  ~(F[i] <= got /\ (i = n \/ F[i + 1] > got))
  <2>1. i + 1 \in 0 .. k /\ i + 1 \in 0 .. n /\ i # n
    BY <1>1
  <2>2. F[i + 1] <= F[k] /\ F[i + 1] \in Nat /\ F[k] \in Nat
    BY <2>1
  <2> QED BY <2>1, <2>2
<1>2. ASSUME i > k
      PROVE  ~(F[i] <= got)
  <2>1. k + 1 \in 0 .. i /\ k + 1 \in 0 .. n /\ k < n
    BY <1>2
  <2>2. F[k + 1] <= F[i] /\ F[k + 1] \in Nat /\ F[i] \in Nat
    BY <2>1
  <2> QED BY <2>1, <2>2
<1>3. F[k] <= got /\ (k = n \/ F[k + 1] > got)
  <2>1. k # n => k < n /\ k + 1 \in 0 .. n
    OBVIOUS
  <2>2. k # n => F[k + 1] \in Nat
    BY <2>1
  <2> QED BY <2>1, <2>2
<1> QED BY <1>1, <1>2, <1>3

\* The frames that have arrived are those a reader that waits has reported.
LEMMA WholeIsReported ==
  ASSUME Reader!FramesAreWritten, ReaderBase, ReaderKeepsUp, ~sock.running, Reader!Readable
  PROVE  \E k \in 0 .. Len(frames) : Reader!Whole = SubSeq(frames, 1, k) /\ Told(sock, frames, k)
<1> DEFINE v == sock.version
           c == Coded(v, frames)
           n == Len(frames)
           G(i) == Len(Gone(c, i))
           Final(i) == /\ Reader!Size(SubSeq(frames, 1, i)) <= arrived
                       /\ i = Len(frames) \/ Reader!Size(SubSeq(frames, 1, i + 1)) > arrived
<1>1. /\ sock \in SocketType /\ frames \in Seq(ServerFrame) /\ Fits(v, frames)
      /\ n \in Nat /\ DOMAIN frames = 1 .. n /\ arrived \in Nat
  BY DEF ReaderBase
<1>2. Copes(v, frames)
  <2>1. Reader!OpBinary = OpBinary
    BY SameOperators
  <2>2. \A i \in 1 .. n : Reader!Written(frames[i])
    BY DEF Fits, ReaderBase
  <2> QED BY <1>1, <2>1, <2>2 DEF Reader!Readable, Copes, Texts, Plain
<1>3. KeepsUp(sock, frames, wire, arrived)
  BY <1>2 DEF ReaderKeepsUp, Reader!Readable
<1>4. PICK more \in Bytes, k \in 0 .. n :
        /\ arrived + Len(more) = Len(Gone(c, n))
        /\ Stands(sock, frames, k, more) /\ Waits(sock)
  BY <1>3 DEF KeepsUp
<1>5. G(k) <= arrived /\ (k < n => arrived < G(k + 1))
  BY <1>1, <1>2, <1>4, WaitsBetween
<1>6. Told(sock, frames, k)
  BY <1>4 DEF Stands, StandsV0, StandsV4
<1>7. c \in Seq(Seq(Byte)) /\ Len(c) = n
  BY <1>1, RowTypes
<1> HIDE DEF c
<1>8. \A j \in 0 .. n : \A i \in 0 .. j : G(i) <= G(j)
  BY <1>7, RowMounts
<1>9. \A i \in 0 .. n : G(i) \in Nat
  <2> TAKE i \in 0 .. n
  <2>1. Gone(c, i) \in Seq(Byte)
    BY <1>7, GoneOn
  <2> QED BY <2>1
<1>10. \A i \in 0 .. n : Reader!Size(SubSeq(frames, 1, i)) = G(i)
  BY FirstFrames DEF c
<1> HIDE DEF G
<1> DEFINE F == [i \in 0 .. n |-> G(i)]
<1>11. F \in [0 .. n -> Nat] /\ (\A i \in 0 .. n : F[i] = G(i)) /\ (k < n => k + 1 \in 0 .. n)
  BY <1>1, <1>4, <1>9
<1> HIDE DEF F
<1>12. F[k] <= arrived /\ (k < n => arrived < F[k + 1])
  BY <1>4, <1>5, <1>11
<1>13. \A j \in 0 .. n : \A i \in 0 .. j : F[i] <= F[j]
  <2> TAKE j \in 0 .. n
  <2> TAKE i \in 0 .. j
  <2>1. i \in 0 .. n
    <3> HIDE DEF n
    <3> QED BY <1>1
  <2> QED BY <1>8, <1>11, <2>1
<1>14. \A i \in 0 .. n : (F[i] <= arrived /\ (i = n \/ F[i + 1] > arrived)) <=> i = k
  <2> HIDE DEF n
  <2> QED BY <1>1, <1>4, <1>11, <1>12, <1>13, OnePlace
<1>15. \A i \in 0 .. n : Final(i) <=> i = k
  <2> TAKE i \in 0 .. n
  <2>1. i # n => i + 1 \in 0 .. n
    <3> HIDE DEF n
    <3> QED BY <1>1
  <2>2. Reader!Size(SubSeq(frames, 1, i)) = F[i]
    <3>1. Reader!Size(SubSeq(frames, 1, i)) = G(i)
      BY <1>10
    <3>2. F[i] = G(i)
      BY <1>11
    <3> QED BY <3>1, <3>2, Zenon
  <2>3. i # n => Reader!Size(SubSeq(frames, 1, i + 1)) = F[i + 1]
    <3> HAVE i # n
    <3>1. Reader!Size(SubSeq(frames, 1, i + 1)) = G(i + 1)
      BY <1>10, <2>1, Zenon
    <3>2. F[i + 1] = G(i + 1)
      BY <1>11, <2>1
    <3> QED BY <3>1, <3>2, Zenon
  <2>4. Final(i) <=> (F[i] <= arrived /\ (i = n \/ F[i + 1] > arrived))
    <3> DEFINE x == Reader!Size(SubSeq(frames, 1, i))
               y == Reader!Size(SubSeq(frames, 1, i + 1))
    <3>1. Final(i) <=> (x <= arrived /\ (i = n \/ y > arrived))
      OBVIOUS
    <3>2. x = F[i] /\ (i # n => y = F[i + 1])
      BY <2>2, <2>3
    <3> HIDE DEF x, y, Final, n
    <3> QED BY <3>1, <3>2
  <2> HIDE DEF Final
  <2> QED BY <1>14, <2>4
<1>16. (CHOOSE i \in 0 .. n : Final(i)) = k
  <2> HIDE DEF Final
  <2> QED BY <1>4, <1>15
<1>17. Reader!Whole = SubSeq(frames, 1, k)
  BY <1>16, Zenon DEF Reader!Whole
<1> QED BY <1>4, <1>6, <1>17

\* Every field of the reader has its type, and no counter leaves its range.
THEOREM ReaderTypes ==
  ASSUME Reader!FramesAreWritten, Version \subseteq Nat, MaxFrames \in Nat
  PROVE  Reader!Spec => []Reader!TypeOK
<1>1. ReaderBase => Reader!TypeOK
  <2> HAVE ReaderBase
  <2>1. Reader!ReadingStates = ReadingStates /\ Reader!Byte = Byte
    BY SameOperators
  <2>2. /\ sock \in SocketType /\ wire \in Bytes /\ arrived \in Nat /\ budget \in 0 .. MaxFrames
    BY DEF ReaderBase
  <2>3. sock.key \in [1 .. 4 -> Byte]
    BY <2>2 DEF SocketType
  <2>4. Len(sock.key) = 4
    BY <2>3, LenProperties, IsASeq
  <2> QED BY <2>1, <2>2, <2>4 DEF Reader!TypeOK, SocketType, Bytes
<1> QED
  BY <1>1, ReaderHolds, PTL

\* Once the reader has returned it has reported the frames that have arrived,
\* no more and no less, wherever the segments were cut.
THEOREM ReaderReports ==
  ASSUME Reader!FramesAreWritten, Version \subseteq Nat, MaxFrames \in Nat
  PROVE  Reader!Spec => []Reader!WholeFramesReported
<1>1. ReaderBase /\ ReaderKeepsUp => Reader!WholeFramesReported
  <2> SUFFICES ASSUME ReaderBase, ReaderKeepsUp, ~sock.running, Reader!Readable
               PROVE  sock.emitted = Reader!Signals(Reader!Whole)
    BY DEF Reader!WholeFramesReported
  <2>1. PICK k \in 0 .. Len(frames) : Reader!Whole = SubSeq(frames, 1, k) /\ Told(sock, frames, k)
    BY WholeIsReported
  <2>2. Reader!Signals(SubSeq(frames, 1, k)) = Gone(Signalled(sock.version, frames), k)
    BY FirstFrames
  <2> QED BY <2>1, <2>2 DEF Told
<1> QED
  BY <1>1, ReaderHolds, PTL

\* And it has answered every Ping and, from version 4 on, closed upon a Close.
THEOREM ReaderAnswers ==
  ASSUME Reader!FramesAreWritten, Version \subseteq Nat, MaxFrames \in Nat
  PROVE  Reader!Spec => []Reader!ControlFramesAnswered
<1>1. ReaderBase /\ ReaderKeepsUp => Reader!ControlFramesAnswered
  <2> SUFFICES ASSUME ReaderBase, ReaderKeepsUp, ~sock.running, Reader!Readable
               PROVE  /\ Len(sock.written) = Len(Reader!Pings(Reader!Whole))
                      /\ sock.version # 0 /\ (\E i \in DOMAIN Reader!Whole : Reader!Whole[i].opcode = Reader!OpClose)
                         => sock.ws = "Unconnected"
    BY DEF Reader!ControlFramesAnswered
  <2>1. PICK k \in 0 .. Len(frames) : Reader!Whole = SubSeq(frames, 1, k) /\ Told(sock, frames, k)
    BY WholeIsReported
  <2>2. Len(Reader!Pings(SubSeq(frames, 1, k))) = Len(Gone(Answered(frames), k))
    BY FirstFrames
  <2>3. Reader!OpClose = OpClose
    BY SameOperators
  <2>4. frames \in Seq(ServerFrame)
    BY DEF ReaderBase
  <2>5. DOMAIN SubSeq(frames, 1, k) = 1 .. k /\ \A i \in 1 .. k : SubSeq(frames, 1, k)[i] = frames[i]
    BY <2>4
  <2> QED BY <2>1, <2>2, <2>3, <2>5 DEF Told
<1> QED
  BY <1>1, ReaderHolds, PTL
=============================================================================
