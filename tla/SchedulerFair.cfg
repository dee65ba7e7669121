SPECIFICATION FairSpec
CONSTANTS
  a = a
  b = b
  idle = idle
  main = main
  Thread <- ThreeEquals
  Idle = idle
  Main = main
  RT_THREAD_PRIORITY_MAX = 2
  InitPriority <- EqualPriority
  InitTick <- MixedTick
  MaxNest = 1
  Calls = {"create", "critical"}
  TimedDelete = FALSE
PROPERTY NoStarvation
