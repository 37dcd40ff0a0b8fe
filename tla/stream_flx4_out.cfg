CONSTANTS
  Capacity = 12
  WriterFrames = 4
  ReaderFrames = 4
  Readers = {r1}
  Surplus = 1
  Window = 4
SPECIFICATION FairSpec
PROPERTY
  SettlesDown
