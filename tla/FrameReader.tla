----------------------------- MODULE FrameReader -----------------------------
(***************************************************************************)
(* One QWsSocket and the bytes a server sends it, cut into segments        *)
(* anywhere, over several connections of the same object.  What happens    *)
(* between two connections is the subject of WsConnection; here it is one  *)
(* step, and what matters is what it leaves behind.                        *)
(*                                                                         *)
(* The server keeps to RFC 6455 in the order of its frames; how it writes  *)
(* one (the width of a length, a mask) is up to ServerFrame.  A server of  *)
(* version 0 has texts, other data with a length in front, and Close.      *)
(***************************************************************************)
EXTENDS WsReader

CONSTANTS
  Version,          \* of the protocol: 0, or one for all those from 4 on
  ServerFrame,      \* the frames the server may send
  MaxFrames         \* bound: frames sent in one behaviour

VARIABLES
  sock,
  wire,             \* bytes on their way to sock
  frames,           \* the frames the server has sent on this connection
  arrived,          \* how many of their bytes have arrived
  clean,            \* the last connection did not end within a message
  budget            \* frames that may still be sent

vars == <<sock, wire, frames, arrived, clean, budget>>

(***************************************************************************)
(* A frame of the server: final, opcode, the bytes of its length (1, 2 or  *)
(* 8, as many as it likes), its mask (none, or 4 bytes) and its payload.   *)
(***************************************************************************)
EncodeV0(f) ==
  CASE f.opcode = OpText   -> <<0>> \o f.payload \o <<255>>
    [] f.opcode = OpBinary -> <<128, Len(f.payload)>> \o f.payload
    [] f.opcode = OpClose  -> <<255, 0>>

EncodeV4(f) ==
  LET mask == IF f.key = <<>> THEN 0 ELSE 128
      size == CASE Len(f.length) = 1 -> <<mask + f.length[1]>>
                [] Len(f.length) = 2 -> <<mask + 126>> \o f.length
                [] Len(f.length) = 8 -> <<mask + 127>> \o f.length
  IN  <<(IF f.final THEN 128 ELSE 0) + f.opcode>> \o size \o f.key
        \o (IF f.key = <<>> THEN f.payload ELSE Mask(f.payload, f.key))

Encode(version, f) == IF version = 0 THEN EncodeV0(f) ELSE EncodeV4(f)

IsControl(f) == f.opcode >= OpClose

\* A length of 2 GB is more than the reader's 31 bits hold.
Ordinary(f) ==
  Len(f.length) = 8 => f.length[5] < 128 /\ \A i \in 1 .. 4 : f.length[i] = 0

\* The number whose bytes a length is, if it is an ordinary one.
Announced(length) ==
  CASE Len(length) = 1 -> length[1]
    [] Len(length) = 2 -> 256 * length[1] + length[2]
    [] Len(length) = 8 -> Number(length[5], Behind(length, 4))

\* What can be written: a length of one byte is less than 126, a control frame
\* is not a part of a message (RFC 6455, 5.5), and a text is UTF-8.
Written(f) ==
  /\ f \in [final : BOOLEAN, opcode : {OpContinue, OpText, OpBinary, OpClose, OpPing, OpPong},
            length : Seq(Byte), key : Seq(Byte), payload : Seq(Byte)]
  /\ Len(f.length) \in {1, 2, 8} /\ (Len(f.length) = 1 => f.length[1] < 126)
  /\ Len(f.key) \in {0, 4}
  /\ IsControl(f) => f.final
  /\ f.opcode = OpText => \A i \in DOMAIN f.payload : f.payload[i] # 255
  /\ Ordinary(f) => Len(f.payload) = Announced(f.length)

FramesAreWritten == \A f \in ServerFrame : Written(f)

ASSUME ServerFramesAreWritten == FramesAreWritten
ASSUME VersionsAreNats == Version \subseteq Nat
ASSUME MaxFramesIsNat == MaxFrames \in Nat

\* A message is open: its last frame is still to come.
MessageOpen(fs) ==
  \E i \in DOMAIN fs :
    /\ ~IsControl(fs[i]) /\ ~fs[i].final
    /\ \A j \in i + 1 .. Len(fs) : IsControl(fs[j])

\* The data of version 0 have a length of one digit here.
Conforms(version, fs, f) ==
  /\ version = 0 => f.final /\ f.opcode \in {OpText, OpBinary, OpClose}
  /\ version = 0 /\ f.opcode = OpBinary => Len(f.payload) < 128
  /\ \A i \in DOMAIN fs : fs[i].opcode # OpClose
  /\ IsControl(f) \/ (f.opcode = OpContinue <=> MessageOpen(fs))

Init ==
  /\ sock \in {NewSocket(version) : version \in Version} /\ wire = <<>>
  /\ frames = <<>> /\ arrived = 0 /\ clean = TRUE /\ budget = MaxFrames

ServerSends(f) ==
  /\ sock.tcp = "Connected" /\ budget > 0 /\ Conforms(sock.version, frames, f)
  /\ wire' = wire \o Encode(sock.version, f) /\ frames' = Append(frames, f) /\ budget' = budget - 1
  /\ UNCHANGED <<sock, arrived, clean>>

\* tcpSocket reads on until it is closing.
Arrive ==
  /\ sock.tcp = "Connected" /\ ~sock.running
  /\ \E n \in 1 .. Len(wire) :
       /\ sock' = Receive(sock, SubSeq(wire, 1, n))
       /\ wire' = Behind(wire, n) /\ arrived' = arrived + n
  /\ UNCHANGED <<frames, clean, budget>>

ProcessData ==
  /\ sock.running
  /\ sock' = Iterate(sock)
  /\ UNCHANGED <<wire, frames, arrived, clean, budget>>

DisconnectFromHost ==
  /\ UserRuns(sock)
  /\ sock' = Close(sock, NoCloseStatusCode)
  /\ UNCHANGED <<wire, frames, arrived, clean, budget>>

\* By either side, by the network, or after the closing handshake.
ConnectionEnds ==
  /\ ~sock.running /\ sock.tcp # "Unconnected"
  /\ sock' = TcpUnconnected(sock) /\ wire' = <<>>
  /\ UNCHANGED <<frames, arrived, clean, budget>>

\* connectToHost() and an opening handshake that was accepted: tcpSocket
\* forgets what it had received, the reader keeps its state.
Reconnect ==
  /\ sock.tcp = "Unconnected" /\ ~sock.running /\ budget > 0
  /\ sock' = [sock EXCEPT !.ws = "Connected", !.tcp = "Connected", !.buffer = <<>>,
                          !.emitted = <<>>, !.written = <<>>, !.late = FALSE,
                          !.closeFrames = 0, !.disconnects = 0]
  /\ frames' = <<>> /\ arrived' = 0
  /\ clean' = (sock.readingState = "HeaderPending" /\ sock.frame = <<>>)
  /\ UNCHANGED <<wire, budget>>

Next ==
  \/ \E f \in ServerFrame : ServerSends(f)
  \/ Arrive \/ ProcessData \/ DisconnectFromHost \/ ConnectionEnds \/ Reconnect

Spec == Init /\ [][Next]_vars

\* The loop is not interrupted, and TCP delivers.
FairSpec == Spec /\ WF_vars(ProcessData) /\ WF_vars(Arrive)

----------------------------------------------------------------------------
Size(fs) == Len(FlattenSeq([i \in DOMAIN fs |-> Encode(sock.version, fs[i])]))

\* What TCP had time to deliver: the frames of which every byte has arrived.
Whole ==
  LET last == CHOOSE n \in 0 .. Len(frames) :
                /\ Size(SubSeq(frames, 1, n)) <= arrived
                /\ n = Len(frames) \/ Size(SubSeq(frames, 1, n + 1)) > arrived
  IN  SubSeq(frames, 1, last)

\* A frame in one piece is reported as it is; the pieces of a longer message
\* are dropped, and version 0 has no empty texts.
SignalOf(f) ==
  IF ~f.final \/ (sock.version = 0 /\ f.payload = <<>>) THEN <<>>
  ELSE CASE f.opcode = OpText   -> <<[kind |-> "text", data |-> f.payload]>>
         [] f.opcode = OpBinary -> <<[kind |-> "binary", data |-> f.payload]>>
         [] f.opcode = OpPong   -> <<[kind |-> "pong", data |-> <<>>]>>
         [] OTHER               -> <<>>

Signals(fs) == FlattenSeq([i \in DOMAIN fs |-> SignalOf(fs[i])])

Pings(fs) == FlattenSeq([i \in DOMAIN fs |-> IF fs[i].opcode = OpPing THEN <<fs[i]>> ELSE <<>>])

MaskedClose(f) == f.opcode = OpClose /\ f.key # <<>>

\* What the reader of this version can cope with, whatever the cuts.  Version 0
\* closes upon data that are no text.
Readable ==
  clean /\ \A i \in DOMAIN frames :
    IF sock.version = 0 THEN frames[i].opcode # OpBinary
    ELSE Ordinary(frames[i]) /\ ~MaskedClose(frames[i])

TypeOK ==
  /\ sock.readingState \in ReadingStates
  /\ sock.buffer \in Seq(Byte) /\ sock.output \in Seq(Byte) /\ wire \in Seq(Byte)
  /\ sock.frame \in Seq(Byte) /\ Len(sock.key) = 4 /\ sock.opcode \in 0 .. 15
  /\ sock.length \in [high : Nat, low : Int]
  /\ arrived \in Nat /\ budget \in 0 .. MaxFrames

\* Whatever the cuts, once the reader has returned it has reported the frames
\* that have arrived, in order, no more and no less: none is held back and none
\* is reported in part (351-486; version 0: 279-349).  That needs a connection
\* the reader was ready for, frames of less than 2 GB, and a Close frame
\* without a mask.
WholeFramesReported ==
  ~sock.running /\ Readable => sock.emitted = Signals(Whole)

\* Under the same conditions every Ping that has arrived got one answer, of
\* whatever form, and none was answered that has not arrived in whole; and a
\* Close frame has ended the connection, whoever began (465-475).  Version 0 has
\* no Ping and discards a Close frame (338).
ControlFramesAnswered ==
  ~sock.running /\ Readable =>
    /\ Len(sock.written) = Len(Pings(Whole))
    /\ sock.version # 0 /\ (\E i \in DOMAIN Whole : Whole[i].opcode = OpClose) => sock.ws = "Unconnected"

\* No loop has a bound or a case that fails.  That of version 4 and later
\* returns from whatever arrives but a masked Close frame, on its own connection
\* or, cut off by the end of that, on the next one (358, 419-427, 482); those of
\* version 0 as long as no segment ends within a text (303-309).
ReaderReturns ==
  /\ sock.running /\ clean
  /\ \A i \in DOMAIN frames :
       IF sock.version = 0 THEN frames[i].opcode = OpText ELSE ~MaskedClose(frames[i])
  /\ sock.version = 0 => arrived = Size(Whole)
  ~> ~sock.running

----------------------------------------------------------------------------
\* websocket.cpp:427 lets the case that reads a mask run on into the one that
\* reads the payload: what it leaves to a later call is read then.
MaskedBodyIsRead ==
  sock.running /\ sock.readingState = "CloseDataPending" ~> sock.readingState = "HeaderPending"
=============================================================================
