SPECIFICATION TraceSpec
CONSTANTS
  Insts <- IretInsts
  NoInsts = 10
  Anon = {}
  Modules = {}
  Kernel = {30, 31, 32, 40, 41, 42}
  Pgds = {1}
  PerfedPgd = 1
  MAX_NO_CTXS = 3
  NO_INIT_CTXS = 2
  CALL_STACK_LEN = 8
  TNT_QUEUE_LEN = 4
  TIP_QUEUE_LEN = 4
  Packets = {}
  INTEL_PT_PKT_HISTORY = 4
  InitThread <- TaskThreads
  Targets <- TaskTargets
  Foreign = {}
  SyscallEntry = 30
  IrqEntry = 40
  SwitchPoints = {}
  PtOffPoints = {}
  PtOnPoints = {}
  Fillers <- TaskFillers
  MaxBits = 2
  MaxIrqs = 1
  Losses = TRUE
  PsbPluses = TRUE
INVARIANTS NoOpenCallAtIret
