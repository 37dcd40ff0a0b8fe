CONSTANTS
  MaxLaunches = 2
  MaxAttempts = 2
  QueueLimit = 1
SPECIFICATION HostRetries
PROPERTY
  SamePages
