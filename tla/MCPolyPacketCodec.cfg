SPECIFICATION Spec
CONSTANTS
  Base = 4
  MustEscape = {7}
  LongBytes = 4
  Added <- FourFields
  MaxFields = 4
  CobsBytes = 2
  OtherSizes = {8}
  Contents <- MCContents
  HeaderSize = 8
  Seed = 26
  WordMod = 64
INVARIANTS TypeOK RoundTrip DamageDetected PackedFits JsonRoundTrip
CHECK_DEADLOCK FALSE
