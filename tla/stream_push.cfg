CONSTANTS
  Capacity = 14
  WriterFrames = 2
  ReaderFrames = 3
  Readers = {r1, r2}
  Surplus = 0
  Window = 4
SPECIFICATION FairSpec
INVARIANTS
  StreamInv
  FewGlitches
  BacklogLasts
PROPERTIES
  LossEndsSilence
  SettlesDown
  ClientsStarve
