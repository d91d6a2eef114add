\* Three frames, on one connection or on several.
SPECIFICATION FairSpec
CONSTANTS
  MaxBytesPerFrame = 3
  MaskingKey <- Key
  Version = {0, 13}
  ServerFrame <- Frames
  MaxFrames = 3
INVARIANTS
  TypeOK
  WholeFramesReported
  ControlFramesAnswered
PROPERTY ReaderReturns
\* The server may have sent all it is allowed to.
CHECK_DEADLOCK FALSE
