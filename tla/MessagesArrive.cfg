\* Messages that fit a frame and messages that fill it, against what the header
\* says of write().
SPECIFICATION Spec
CONSTANTS
  MaxBytesPerFrame = 3
  MaskingKey <- Key
  Message <- Messages
  MaxCalls = 2
INVARIANT MessagesArrive
\* Both ends are unconnected.
CHECK_DEADLOCK FALSE
