SPECIFICATION Spec
CONSTANTS
  Base = 4
  MustEscape = {7}
  LongBytes = 4
  Added <- TwoFields
  MaxFields = 2
  CobsBytes = 2
  OtherSizes = {8}
  Contents <- MCContents
  HeaderSize = 8
  Seed = 26
  WordMod = 32
INVARIANTS EmptyArrives
CHECK_DEADLOCK FALSE
