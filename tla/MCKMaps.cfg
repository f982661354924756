SPECIFICATION KMapsSpec
CONSTANTS
  NoVmPages = 6
  MAX_NO_PAGES = 5
  MaxCalls = 4
INVARIANTS KMapsTypeOK PinsBalanced NoRequestLost ReadsRight
PROPERTY RequestServed
CHECK_DEADLOCK FALSE
