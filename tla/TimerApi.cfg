SPECIFICATION FairSpec
CONSTANTS
  a = a
  b = b
  Timer <- TwoTimers
  TickMod = 8
  Times <- ZeroTwo
  MaxCalls = 1
  Features = {"detach", "control"}
INVARIANTS ActiveListed NextTimeoutEarliest
PROPERTIES ServiceSpec HandlerEnds
