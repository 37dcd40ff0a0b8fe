CONSTANT
  StableAfter = 2
SPECIFICATION HelperFairSpec
INVARIANTS
  HelperInv
  ResamplerAlive
  ReadyStays
  NothingLeftBehind
  PublishedTruly
  RegionOutlivesCallbacks
  ExitIsClean
PROPERTIES
  DeletesUnused
  ImplementsConnection
  QuitCompletes
