\* Every order of user calls, TCP events and server answers, over any number
\* of connections.
SPECIFICATION FairSpec
INVARIANTS
  TypeOK
  NothingLeftOver
  FlagsMatchState
  OneCloseFrame
  DisconnectedOnce
PROPERTIES
  NoHandshakeAfterClose
  OpensInOrder
  ClosingEnds
\* A destroyed socket does nothing.
CHECK_DEADLOCK FALSE
