SPECIFICATION RingsSpec
CONSTANTS
  Readers = {0}
  Slots = 2
  MaxHead = 5
  RingBytes = 3
  ChunkBytes = 2
  FrameBytes = 2
  MaxTotal = 6
  Lines <- SomeLines
INVARIANTS
  TypeOK
  LossIsCounted
  NeverWedged
  EveryGapMarked
  DownloadWhole
PROPERTIES
  LogSpec
  BacklogDrains
  SinkCatchesUp
  SilenceNamed
