SPECIFICATION TraceSpec
CONSTANTS
  Insts <- WideInsts
  NoInsts = 11
  Anon = {}
  Modules = {}
  Kernel = {30, 31, 32, 40, 41, 50, 51}
  Pgds = {1, 2}
  PerfedPgd = 1
  MAX_NO_CTXS = 3
  NO_INIT_CTXS = 2
  CALL_STACK_LEN = 8
  TNT_QUEUE_LEN = 4
  TIP_QUEUE_LEN = 4
  Packets = {}
  INTEL_PT_PKT_HISTORY = 3
  InitThread <- WideThreads
  Targets <- TaskTargets
  Foreign = {20}
  SyscallEntry = 30
  IrqEntry = 40
  SwitchPoints = {50}
  PtOffPoints = {}
  PtOnPoints = {}
  Fillers <- NoFillers
  MaxBits = 1
  MaxIrqs = 1
  Losses = FALSE
  PsbPluses = FALSE
INVARIANTS StopsOnlyWhenFull PositionAgrees
CHECK_DEADLOCK FALSE
