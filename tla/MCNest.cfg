SPECIFICATION TraceSpec
CONSTANTS
  Insts <- NestInsts
  NoInsts = 6
  Anon = {}
  Modules = {}
  Kernel = {40, 41, 42, 43}
  Pgds = {1}
  PerfedPgd = 1
  MAX_NO_CTXS = 3
  NO_INIT_CTXS = 2
  CALL_STACK_LEN = 8
  TNT_QUEUE_LEN = 4
  TIP_QUEUE_LEN = 4
  Packets = {}
  INTEL_PT_PKT_HISTORY = 3
  InitThread <- TaskThreads
  Targets <- TaskTargets
  Foreign = {}
  SyscallEntry = 30
  IrqEntry = 40
  SwitchPoints = {}
  PtOffPoints = {}
  PtOnPoints = {}
  Fillers <- NoFillers
  MaxBits = 2
  MaxIrqs = 2
  Losses = TRUE
  PsbPluses = FALSE
INVARIANTS NoError CtxPerInterrupt
