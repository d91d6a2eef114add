---------------------------- MODULE MCFrameReader ----------------------------
\* TLC instance of FrameReader: frames with payloads of at most two bytes.  For
\* version 0 the payloads matter, and whether it is Close.
EXTENDS FrameReader

Key == <<1, 2, 3, 4>>

Frame(final, opcode, length, key, payload) ==
  [final |-> final, opcode |-> opcode, length |-> length, key |-> key, payload |-> payload]

\* Every way to write a length, with and without a mask; a message in two
\* frames and what may come between them; a length of 2 GB and a byte.
Frames ==
  {Frame(TRUE, OpText, <<0>>, <<>>, <<>>),
   Frame(TRUE, OpText, <<0, 1>>, <<>>, <<65>>),
   Frame(TRUE, OpBinary, <<0, 0, 0, 0, 0, 0, 0, 2>>, Key, <<65, 129>>),
   Frame(FALSE, OpText, <<1>>, <<>>, <<66>>),
   Frame(TRUE, OpContinue, <<1>>, Key, <<67>>),
   Frame(TRUE, OpPing, <<1>>, <<>>, <<68>>),
   Frame(TRUE, OpPong, <<0>>, <<>>, <<>>),
   Frame(TRUE, OpClose, <<0>>, <<>>, <<>>),
   Frame(TRUE, OpClose, <<2>>, <<>>, <<3, 232>>),
   Frame(TRUE, OpClose, <<1>>, Key, <<3>>),
   Frame(TRUE, OpBinary, <<0, 0, 0, 0, 128, 0, 0, 1>>, <<>>, <<65, 65>>)}
=============================================================================
