SPECIFICATION UnwinderSpec
CONSTANTS
  NoInsts = 4
  Insts <- MCInsts
  Anon = {}
  Modules = {}
  Kernel = {40, 41}
  Pgds = {1}
  PerfedPgd = 1
  CACHE_LENGTH = 2
  vm_us = 20
  vm_kernel_ks = 40
  vm_kernel_me = 42
  NoRows = 4
  Rows <- MCRows
  UNWIND_QUEUE_LEN = 3
  Stacks <- MCStacks
  Lookups = {11, 14, 41}
  MaxNow = 4
INVARIANTS SearchFinds WholeStacks FifoUntilBroken
CHECK_DEADLOCK FALSE
