SPECIFICATION PtSpec
CONSTANTS
  NoInsts <- MCNoInsts
  Insts <- MCInsts
  Anon = {14}
  Modules = {}
  Kernel = {20, 21, 22, 30}
  Pgds = {1, 2}
  PerfedPgd = 1
  MAX_NO_CTXS = 2
  NO_INIT_CTXS = 1
  CALL_STACK_LEN = 3
  TNT_QUEUE_LEN = 3
  TIP_QUEUE_LEN = 3
  Packets <- MovePackets
  INTEL_PT_PKT_HISTORY = 3
INVARIANTS PtTypeOK FreshAbove InputOnlyInCurrent BitsAtHand InBounds
PROPERTIES SuspendedFrozen LostUntilRestarted
CHECK_DEADLOCK FALSE
