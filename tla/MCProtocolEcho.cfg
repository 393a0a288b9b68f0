\* The byte, the header, the limit and the buffers are scaled down; the
\* header still has a number of two bytes.
CONSTANTS
  CheapPrepend = 1
  Byte = 2
  IdSize = 1
  LenSize = 2
  SeqSize = 1
  MaxBody = 1
  Frames <- MCFrames
  MaxFrames = 3
  InitialSize = 2
  Extra = 3
  Window = 3
SPECIFICATION Spec
INVARIANTS TypeOK NoByteLost InputBounded
PROPERTIES ImplementsFrameStream AllEchoed
CHECK_DEADLOCK FALSE
