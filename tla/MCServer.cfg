SPECIFICATION Spec
CONSTANTS
  Clients = {c1, c2}
  MaxListeners = 3
  MaxFd = 6
INVARIANTS
  DescriptorsExact
  ModeKept
  StealsOnce
PROPERTIES
  CrashOnlyAfterStopOrFull
  ClientsServed
  StopLosesWaiters
CHECK_DEADLOCK FALSE
