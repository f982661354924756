SPECIFICATION RingSpec
CONSTANTS
  DataSize = 9
  AuxSize = 4
  AuxFlags = {0, 1}
  Stretches = {1, 3}
  MaxBytes = 5
  MaxOthers = 1
  AUX_ALIGNMENT = 2
  AUX_BUFFER_SIZE = 8
  MaxSignals = 2
INVARIANTS RingTypeOK TailsFollow InStep SpinsOnlyOnGaps
PROPERTIES DeliversStream StopsWhenAsked
CHECK_DEADLOCK FALSE
