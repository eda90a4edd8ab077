SPECIFICATION Spec
CONSTANTS
  p = p
  q = q
  Fields <- String
  Contents <- Written
  Packets <- TwoPackets
  MaxEntries = 2
  MaxArrays = 3
SYMMETRY Twins
INVARIANTS ReusableKeepsMutex
CHECK_DEADLOCK FALSE
