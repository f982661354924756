SPECIFICATION PtSpec
CONSTANTS
  NoInsts <- MCNoInsts
  Insts <- MCInsts
  Anon = {14}
  Modules = {}
  Kernel = {20, 21, 22, 30}
  Pgds = {1, 2}
  PerfedPgd = 1
  MAX_NO_CTXS = 3
  NO_INIT_CTXS = 1
  CALL_STACK_LEN = 3
  TNT_QUEUE_LEN = 3
  TIP_QUEUE_LEN = 3
  Packets <- HistoryPackets
  INTEL_PT_PKT_HISTORY = 4
INVARIANTS InterruptPairs
PROPERTIES OpensAtSource
CHECK_DEADLOCK FALSE
