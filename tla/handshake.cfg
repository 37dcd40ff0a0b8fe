CONSTANTS
  MaxLaunches = 2
  MaxAttempts = 3
  QueueLimit = 2
SPECIFICATION FairSpec
INVARIANTS
  HandshakeInv
  RequestInv
  TypeOK
  ServerOutlivesThread
  ReadyBeforeOffered
  CleanExitSaysOffline
  FreshRegion
  NoRequestVanishes
PROPERTIES
  AnsweredOnce
  MappingIsKept
  OkMeansRunningOrKilled
  ImplementsConnection
  QuitTerminates
  StartIOReturns
