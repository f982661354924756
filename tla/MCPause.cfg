SPECIFICATION TraceSpec
CONSTANTS
  Insts <- PauseInsts
  NoInsts = 9
  Anon = {}
  Modules = {}
  Kernel = {40, 41, 42, 43, 44, 45, 46}
  Pgds = {1}
  PerfedPgd = 1
  MAX_NO_CTXS = 2
  NO_INIT_CTXS = 2
  CALL_STACK_LEN = 8
  TNT_QUEUE_LEN = 4
  TIP_QUEUE_LEN = 4
  Packets = {}
  INTEL_PT_PKT_HISTORY = 3
  InitThread <- TaskThreads
  Targets <- TaskTargets
  Foreign = {}
  SyscallEntry = 30
  IrqEntry = 40
  SwitchPoints = {}
  PtOffPoints = {42}
  PtOnPoints = {45}
  Fillers <- NoFillers
  MaxBits = 1
  MaxIrqs = 1
  Losses = TRUE
  PsbPluses = FALSE
INVARIANTS AlwaysLocated
PROPERTIES WalkReturns 
