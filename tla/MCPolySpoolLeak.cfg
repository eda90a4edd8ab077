SPECIFICATION Spec
CONSTANTS
  a = a
  b = b
  c = c
  h = h
  MaxEntries = 2
  Packets <- ThreePackets
  NoPacket = NoPacket
  Priority <- MCPriority
  AckType <- MCAckType
  Token <- MCToken
  AckFlag <- MCAckFlag
  IntMax = 7
  Tokens = {1, 2}
  TickSizes = {1, 2}
  RetryLimits = {1, 2}
  TimeOuts = {0, 2}
SYMMETRY Twins
INVARIANTS NoLeak
CHECK_DEADLOCK FALSE
