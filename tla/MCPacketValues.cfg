SPECIFICATION ValuesSpec
CONSTANTS
  Ips <- MCIps
  tsc_ratio = 2
  CtcRange = 3
  base_factor = 2
  bus_hz = 1
  Cbrs = {1, 2}
  MaxNow = 8
  MaxOvf = 1
INVARIANTS ValuesTypeOK IpAgrees TimeTracks
PROPERTY NeverBack
CHECK_DEADLOCK FALSE
