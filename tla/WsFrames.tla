------------------------------ MODULE WsFrames ------------------------------
(***************************************************************************)
(* What a QWsSocket writes (lib/websocket.cpp): frames as sequences of     *)
(* bytes, those of version 4 and later unless said otherwise.  Texts are   *)
(* given as their UTF-8 bytes, on both sides.  A Close frame is written    *)
(* without a reason: only abort() takes one, and throws the frame away     *)
(* with the connection.                                                    *)
(***************************************************************************)
EXTENDS Integers, Sequences, SequencesExt

CONSTANTS
  MaxBytesPerFrame,   \* maxBytesPerFrame, a public variable (1400 at first)
  MaskingKey          \* what generateMaskingKey returns

Byte == 0 .. 255

MaxInt == 2147483647     \* the largest int, which maxBytesPerFrame is (7)

ASSUME MaxBytesArePositive == MaxBytesPerFrame \in Nat \ {0}
ASSUME MaxBytesAreInt == MaxBytesPerFrame <= MaxInt
ASSUME KeyIsFourBytes == MaskingKey \in Seq(Byte) /\ Len(MaskingKey) = 4

OpContinue == 0
OpText     == 1
OpBinary   == 2
OpClose    == 8
OpPing     == 9
OpPong     == 10

Behind(bytes, n) == SubSeq(bytes, n + 1, Len(bytes))     \* without the first n

\* What a byte counts in a number, from the last one on.
Weight == <<1, 256, 65536, 16777216>>

\* Mutant of SerializeInt: no byte is cut off a number.
SerializeUncut(number, nbBytes) ==
  [i \in 1 .. nbBytes |-> number \div Weight[nbBytes - i + 1]]

\* The last nbBytes bytes of a number, four at most, the most significant one
\* first.
SerializeInt(number, nbBytes) ==
  [i \in 1 .. nbBytes |-> (number \div Weight[nbBytes - i + 1]) % 256]

\* The bits in which two bytes differ.
Xor(a, b) ==
  LET Bit(w) == w * (((a \div w) + (b \div w)) % 2)
  IN  Bit(1) + Bit(2) + Bit(4) + Bit(8) + Bit(16) + Bit(32) + Bit(64) + Bit(128)

Mask(data, maskingKey) ==
  [i \in DOMAIN data |-> Xor(data[i], maskingKey[((i - 1) % 4) + 1])]

\* maskingKey has four bytes, or none.
ComposeHeader(end, opcode, payloadLength, maskingKey) ==
  LET mask == IF Len(maskingKey) = 4 THEN 128 ELSE 0
      size == IF payloadLength <= 125 THEN <<mask + payloadLength>>
              ELSE IF payloadLength <= 65535
              THEN <<mask + 126>> \o SerializeInt(payloadLength, 2)
              ELSE <<mask + 127, 0, 0, 0, 0>> \o SerializeInt(payloadLength, 4)
  IN  <<(IF end THEN 128 ELSE 0) + opcode>> \o size \o maskingKey

\* Mutant of FramesOf: no frame behind a full one.
FramesRoundedUp(size) == (size + MaxBytesPerFrame - 1) \div MaxBytesPerFrame

\* One more than are full: a message of just maxBytesPerFrame bytes takes two.
FramesOf(size) == size \div MaxBytesPerFrame + 1

ComposeFrames(byteArray, asBinary) ==
  LET nbFrames == FramesOf(Len(byteArray))
      Data(i)  == SubSeq(byteArray, (i - 1) * MaxBytesPerFrame + 1,
                         IF i = nbFrames THEN Len(byteArray) ELSE i * MaxBytesPerFrame)
      opcode(i) == IF i > 1 THEN OpContinue ELSE IF asBinary THEN OpBinary ELSE OpText
  IN  [i \in 1 .. nbFrames |->
         ComposeHeader(i = nbFrames, opcode(i), Len(Data(i)), <<>>) \o Data(i)]

NoCloseStatusCode          == 0
CloseGoingAway             == 1001
CloseAbnormalDisconnection == 1006

\* Version 0 has one kind of frame for data.
TextFrameV0(byteArray) == <<0>> \o byteArray \o <<255>>

\* The header announces a mask; the status code behind it is not masked.
CloseFrame(version, closeStatusCode) ==
  IF version = 0 THEN <<255, 0>>
  ELSE IF closeStatusCode = NoCloseStatusCode
  THEN ComposeHeader(TRUE, OpClose, 0, <<>>)
  ELSE ComposeHeader(TRUE, OpClose, 2, MaskingKey) \o SerializeInt(closeStatusCode, 2)
=============================================================================
