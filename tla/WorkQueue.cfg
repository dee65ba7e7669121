SPECIFICATION FairSpec
CONSTANTS
  a = a
  b = b
  x = x
  y = y
  z = z
  work_thread = work_thread
  NULL = NULL
  Client <- TwoClients
  Work <- ThreeWorks
  User <- MCUser
  Careful = TRUE
INVARIANTS NoWorkAsleep WorkAccounted FlagsExact
PROPERTIES SyncReturns
