SPECIFICATION RingSpec
CONSTANTS
  DataSize = 20
  AuxSize = 4
  AuxFlags = {0, 1}
  Stretches = {1}
  MaxBytes = 3
  MaxOthers = 0
  AUX_ALIGNMENT = 2
  AUX_BUFFER_SIZE = 8
  MaxSignals = 1
INVARIANT TailInStep
CHECK_DEADLOCK FALSE
