SPECIFICATION Spec
CONSTANTS
  high = high
  mid = mid
  low = low
  m = m
  n = n
  NULL = NULL
  Thread <- ThreeThreads
  Mutex <- TwoMutexes
  RT_THREAD_PRIORITY_MAX = 3
  InitPriority <- MCInitPriority
  RT_MUTEX_HOLD_MAX = 2
  Nested = TRUE
  Detaches = FALSE
INVARIANTS Inherited
CHECK_DEADLOCK FALSE
