\* Two calls of write() and ping(), any number of closing and aborting ones.
SPECIFICATION FairSpec
CONSTANTS
  MaxBytesPerFrame = 3
  MaskingKey <- Key
  Message <- Messages
  MaxCalls = 2
INVARIANT TypeOK
PROPERTIES
  MessagesInOrder
  LivesAsConnection
  NothingAfterDisconnected
  BothEnd
\* Both ends are unconnected.
CHECK_DEADLOCK FALSE
