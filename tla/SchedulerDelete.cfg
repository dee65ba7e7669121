SPECIFICATION Spec
CONSTANTS
  a = a
  b = b
  idle = idle
  main = main
  Thread <- MCThread
  Idle = idle
  Main = main
  RT_THREAD_PRIORITY_MAX = 3
  InitPriority <- MCInitPriority
  InitTick <- OneTick
  MaxNest = 1
  Calls = {"create", "exit", "wait", "delete"}
  TimedDelete = TRUE
VIEW LiveState
INVARIANT ClosedUnlinked
