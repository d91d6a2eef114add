\* A masked Close frame, cut between its mask and its payload.
SPECIFICATION FairSpec
CONSTANTS
  MaxBytesPerFrame = 3
  MaskingKey <- Key
  Version = {13}
  ServerFrame <- Frames
  MaxFrames = 1
PROPERTY MaskedBodyIsRead
CHECK_DEADLOCK FALSE
