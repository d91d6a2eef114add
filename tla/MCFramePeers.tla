---------------------------- MODULE MCFramePeers ----------------------------
\* TLC instance of FramePeers: a text that fits a frame of three bytes, and
\* binary data that fill it.
EXTENDS FramePeers

Key == <<1, 2, 3, 4>>

Messages ==
  {[data |-> <<65>>, asBinary |-> FALSE], [data |-> <<66, 67, 68>>, asBinary |-> TRUE]}
=============================================================================
