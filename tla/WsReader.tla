------------------------------ MODULE WsReader ------------------------------
(***************************************************************************)
(* A QWsSocket on an open connection (lib/websocket.cpp), down to the      *)
(* bytes: the readers processDataV4() and processDataV0(), close() and     *)
(* write(), as operators from a socket to a socket.  FrameReader drives    *)
(* one socket with whatever a server may send; FramePeers connects two.    *)
(*                                                                         *)
(* version              _version, as far as the code tells them apart      *)
(* ws, tcp              state() of the QWsSocket and of tcpSocket          *)
(* sent, received       closingHandshakeSent, closingHandshakeReceived     *)
(* buffer               the bytes tcpSocket has received                   *)
(* output               the bytes tcpSocket still has to send              *)
(* running              the reader has not returned                        *)
(* slot                 a slot of the user may run: the last iteration     *)
(*                      ended with a signal                                *)
(* readingState, final, hasMask, opcode, length, key, frame, code          *)
(*                      readingState, isFinalFragment, hasMask, opcode,    *)
(*                      payloadLength, maskingKey, currentFrame,           *)
(*                      closeStatusCode                                    *)
(* and, for the connection that is open now or was the last:               *)
(* emitted              frameReceived() and pong(), in order               *)
(* written              the messages given to write(), answers to Pings too *)
(* late                 something was written behind the Close frame       *)
(* closeFrames, disconnects   Close frames written, disconnected() emitted *)
(*                                                                         *)
(* payloadLength has 64 bits.  The code looks at it through an int of 32   *)
(* and as a whole: it is kept as low, the last 32 bits as that int, and    *)
(* high, the others as a number.                                           *)
(***************************************************************************)
EXTENDS WsFrames

ReadingStates ==
  {"HeaderPending", "PayloadLengthPending", "BigPayloadLenghPending",
   "MaskPending", "PayloadBodyPending", "CloseDataPending"}

Short(n) == [high |-> 0, low |-> n]

\* The constructor, given a socket that is connected.  opcode and
\* closeStatusCode have no initial value and are not read before they have one.
NewSocket(version) ==
  [version |-> version, ws |-> "Connected", tcp |-> "Connected", sent |-> FALSE, received |-> FALSE,
   buffer |-> <<>>, output |-> <<>>, running |-> FALSE, slot |-> FALSE,
   readingState |-> "HeaderPending", final |-> FALSE, hasMask |-> FALSE,
   opcode |-> OpContinue, length |-> Short(0), key |-> <<0, 0, 0, 0>>,
   frame |-> <<>>, code |-> NoCloseStatusCode,
   emitted |-> <<>>, written |-> <<>>, late |-> FALSE,
   closeFrames |-> 0, disconnects |-> 0]

----------------------------------------------------------------------------
(* Writing and closing.                                                    *)

\* tcpSocket->write()
Send(s, bytes) ==
  IF s.tcp = "Unconnected" THEN s
  ELSE [s EXCEPT !.output = @ \o bytes, !.late = @ \/ s.sent]

\* write() looks at no state.
Write(s, message, asBinary) ==
  IF s.tcp = "Unconnected" THEN s
  ELSE LET bytes == IF s.version = 0 THEN TextFrameV0(message)
                    ELSE FlattenSeq(ComposeFrames(message, asBinary))
           kind == IF asBinary /\ s.version # 0 THEN "binary" ELSE "text"
       IN  [Send(s, bytes) EXCEPT !.written = Append(@, [kind |-> kind, data |-> message])]

Ping(s) == Send(s, ComposeHeader(TRUE, OpPing, 0, <<>>))

\* tcpSocket->disconnectFromHost()
Disconnect(s) == [s EXCEPT !.tcp = IF @ = "Connected" THEN "Closing" ELSE @]

\* Mutant of SendClose: every close() writes a Close frame.
SendCloseAgain(s, closeStatusCode) ==
  [Send(s, CloseFrame(s.version, closeStatusCode)) EXCEPT !.sent = TRUE, !.closeFrames = @ + 1]

SendClose(s, closeStatusCode) ==
  IF s.sent THEN s
  ELSE [Send(s, CloseFrame(s.version, closeStatusCode)) EXCEPT !.sent = TRUE, !.closeFrames = @ + 1]

\* Mutant of Close: the second Close frame does not end the connection.
CloseWaits(s, closeStatusCode) ==
  IF s.ws = "Unconnected" THEN s
  ELSE [SendClose(s, closeStatusCode) EXCEPT !.ws = "Closing"]

Close(s, closeStatusCode) ==
  IF s.ws = "Unconnected" THEN s
  ELSE LET c == [SendClose(s, closeStatusCode) EXCEPT !.ws = "Closing"]
       IN  IF c.received
           THEN Disconnect([c EXCEPT !.ws = "Unconnected", !.disconnects = @ + 1, !.slot = TRUE])
           ELSE c

\* processTcpStateChanged(ClosingState)
TcpClosing(s) ==
  LET t == [s EXCEPT !.tcp = "Closing"]
  IN  IF s.ws = "Connected" THEN [Close(t, CloseGoingAway) EXCEPT !.ws = "Closing"] ELSE t

\* processTcpStateChanged(UnconnectedState); what was to be sent is gone.
TcpUnconnected(s) ==
  [s EXCEPT !.tcp = "Unconnected", !.ws = "Unconnected",
            !.sent = FALSE, !.received = FALSE, !.output = <<>>,
            !.disconnects = IF s.ws # "Unconnected" THEN @ + 1 ELSE @]

\* Mutant of Abort: what has been received stays to be read.
AbortKeepsBuffer(s) ==
  IF s.tcp = "Unconnected" THEN Close(s, CloseAbnormalDisconnection)
  ELSE TcpUnconnected(Close(s, CloseAbnormalDisconnection))

\* abort(): tcpSocket drops what it has received, too.
Abort(s) ==
  IF s.tcp = "Unconnected" THEN Close(s, CloseAbnormalDisconnection)
  ELSE [TcpUnconnected(Close(s, CloseAbnormalDisconnection)) EXCEPT !.buffer = <<>>]

----------------------------------------------------------------------------
(* The loop of processDataV4.                                              *)

\* The bytes without which the loop returns.  An int of 32 bits may be
\* negative: then it does not.
Needed(s) ==
  CASE s.readingState = "HeaderPending"          -> 2
    [] s.readingState = "PayloadLengthPending"   -> 2
    [] s.readingState = "BigPayloadLenghPending" -> 8
    [] s.readingState = "MaskPending"            -> IF s.hasMask THEN 4 ELSE 0
    [] s.readingState = "PayloadBodyPending"     -> s.length.low
    [] s.readingState = "CloseDataPending"       -> 0

ReadHeader(s) ==
  LET size == s.buffer[2] % 128
  IN  [s EXCEPT !.final = s.buffer[1] >= 128, !.opcode = s.buffer[1] % 16,
                !.hasMask = s.buffer[2] >= 128,
                !.length = IF size < 126 THEN Short(size) ELSE @,
                !.readingState = CASE size = 126 -> "PayloadLengthPending"
                                   [] size = 127 -> "BigPayloadLenghPending"
                                   [] size < 126 -> "MaskPending",
                !.buffer = Behind(@, 2)]

ReadLength(s) ==
  [s EXCEPT !.length = Short(256 * s.buffer[1] + s.buffer[2]),
            !.readingState = "MaskPending", !.buffer = Behind(@, 2)]

\* Four bytes, of which the first counts as given.
Number(first, bytes) == ((first * 256 + bytes[2]) * 256 + bytes[3]) * 256 + bytes[4]

ReadBigLength(s) ==
  [s EXCEPT !.length = [high |-> Number(s.buffer[1] % 128, s.buffer),
                        low  |-> Number(((s.buffer[5] + 128) % 256) - 128, Behind(s.buffer, 4))],
            !.readingState = "MaskPending", !.buffer = Behind(@, 8)]

ReadMask(s) ==
  [s EXCEPT !.key = SubSeq(s.buffer, 1, 4),
            !.readingState = IF s.opcode = OpClose THEN "CloseDataPending"
                             ELSE "PayloadBodyPending",
            !.buffer = Behind(@, 4)]

Emit(s, signal, data) ==
  [s EXCEPT !.emitted = Append(@, [kind |-> signal, data |-> data]), !.slot = TRUE]

\* A frame that ends a message.  The answer to a Ping goes through write(),
\* which makes it a binary message of two bytes.
Dispatch(s) ==
  CASE s.opcode = OpBinary -> Emit(s, "binary", s.frame)
    [] s.opcode = OpText   -> Emit(s, "text", s.frame)
    [] s.opcode = OpPing   -> [Write(s, ComposeHeader(TRUE, OpPong, 0, <<>>), TRUE)
                                EXCEPT !.slot = TRUE]
    [] s.opcode = OpPong   -> Emit(s, "pong", <<>>)
    [] s.opcode = OpClose  -> Close([s EXCEPT !.received = TRUE], s.code)
    [] OTHER               -> s

\* A status code is read as it is, without the mask, and the payload behind it
\* is taken to be as long as both.  read() returns no more than there is.
ReadStatusCode(s) ==
  IF s.opcode # OpClose THEN s
  ELSE IF s.length # Short(0) /\ s.length # Short(1) /\ Len(s.buffer) >= 2
  THEN [s EXCEPT !.code = 256 * s.buffer[1] + s.buffer[2], !.buffer = Behind(@, 2)]
  ELSE [s EXCEPT !.code = NoCloseStatusCode]

TakenOf(s) ==
  IF s.length.high = 0 /\ s.length.low \in 0 .. Len(s.buffer) THEN s.length.low ELSE Len(s.buffer)

Payload(s) ==
  LET data == SubSeq(s.buffer, 1, TakenOf(s))
  IN  [s EXCEPT !.frame = @ \o (IF s.hasMask THEN Mask(data, s.key) ELSE data),
                !.buffer = Behind(@, TakenOf(s)),
                !.readingState = "HeaderPending"]

\* Mutant of ReadBody: what a message leaves behind is not cleared.
ReadBodyKeepsFrame(s) ==
  LET p == Payload(ReadStatusCode(s))
  IN  IF p.final THEN Dispatch(p) ELSE p

ReadBody(s) ==
  LET p == Payload(ReadStatusCode(s))
  IN  IF p.final THEN [Dispatch(p) EXCEPT !.frame = <<>>] ELSE p

\* Mutant of Return: the loop waits for the rest of a frame.
ReturnWhenEmpty(s) == [s EXCEPT !.running = s.buffer # <<>>]

Return(s) == [s EXCEPT !.running = FALSE]

BodyIfThere(s) == IF Len(s.buffer) < s.length.low THEN Return(s) ELSE ReadBody(s)

\* One iteration of the loop of processDataV4.  Behind a mask the body is read at once; when it
\* is not there yet, the state says where the next call goes on, and for a
\* Close frame that is a case without code: the loop turns for ever.
IterateV4(s) ==
  IF Len(s.buffer) < Needed(s) THEN Return(s)
  ELSE CASE s.readingState = "HeaderPending"          -> ReadHeader(s)
         [] s.readingState = "PayloadLengthPending"   -> ReadLength(s)
         [] s.readingState = "BigPayloadLenghPending" -> ReadBigLength(s)
         [] s.readingState = "MaskPending"            ->
              IF s.hasMask THEN BodyIfThere(ReadMask(s))
              ELSE [s EXCEPT !.readingState = "PayloadBodyPending"]
         [] s.readingState = "PayloadBodyPending"     -> ReadBody(s)
         [] s.readingState = "CloseDataPending"       -> s

----------------------------------------------------------------------------
(* processDataV0, which reads byte by byte and takes a byte that is not    *)
(* there yet for a zero.                                                   *)

ReportV0(s) ==
  IF s.frame = <<>> THEN s ELSE [Emit(s, "text", s.frame) EXCEPT !.frame = <<>>]

\* The end of the text is looked for until it is found: there is no way out.
ReadTextV0(s) ==
  LET ends == {i \in DOMAIN s.buffer : s.buffer[i] = 255}
  IN  IF ends = {} THEN s
      ELSE ReportV0([s EXCEPT !.frame = @ \o SubSeq(s.buffer, 2, Min(ends) - 1),
                              !.buffer = Behind(@, Min(ends))])

\* Digits of seven bits, the last one below 128, of which a 0 is skipped; the
\* sum is a quint8.
LengthV0(digits) ==
  FoldLeft(LAMBDA n, b : IF b = 0 THEN n ELSE (128 * n + (b % 128)) % 256, 0, digits)

\* A Close frame is discarded.
DiscardV0(s) ==
  LET last   == Min({i \in 2 .. Len(s.buffer) : s.buffer[i] < 128} \cup {Len(s.buffer)})
  IN  ReportV0([s EXCEPT !.buffer = Behind(@, last + LengthV0(SubSeq(@, 2, last)))])

\* One call of the recursion.
IterateV0(s) ==
  IF s.buffer = <<>> THEN Return(s)
  ELSE CASE s.buffer[1] = 0          -> ReadTextV0(s)
         [] s.buffer[1] \in 1 .. 127 -> Return([s EXCEPT !.buffer = <<>>])
         [] s.buffer[1] = 255        -> DiscardV0(s)
         [] OTHER                    ->
              Return(Close([s EXCEPT !.buffer = Behind(@, 1)], NoCloseStatusCode))

Iterate(current) ==
  LET s == [current EXCEPT !.slot = FALSE]
  IN  IF s.version = 0 THEN IterateV0(s) ELSE IterateV4(s)

\* Data arrives: readyRead() calls the reader.
Receive(s, bytes) == [s EXCEPT !.buffer = @ \o bytes, !.running = TRUE]

\* The user's code runs between two events, or in a slot.
UserRuns(s) == ~s.running \/ s.slot
=============================================================================
