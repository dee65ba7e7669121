SPECIFICATION Spec
CONSTANTS
  a = a
  b = b
  c = c
  m1 = m1
  m2 = m2
  Thread <- ThreeThreads
  current_priority <- MCPriority
  Flag = "RT_IPC_FLAG_PRIO"
  TickMod = 4
  Timeouts <- MCTimeouts
  Msg <- MCMsg
  Objects = {"sem"}
  MaxObjects = 1
  MaxLag = 2
  TimedDetach = TRUE
  RT_SEM_VALUE_MAX = 2
  Bit <- MCBit
  Block <- MCBlock
  mb_size = 2
  max_msgs = 2
  dq_size = 2
  lwm = 0
  Signals = {}
  Polite = TRUE
INVARIANTS ResumesThread
VIEW LiveState
SYMMETRY Equals
