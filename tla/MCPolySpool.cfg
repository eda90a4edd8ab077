SPECIFICATION Spec
CONSTANTS
  a = a
  b = b
  c = c
  h = h
  MaxEntries = 2
  Packets <- ThreePackets
  NoPacket = NoPacket
  Priority <- MCPriority
  AckType <- MCAckType
  Token <- MCToken
  AckFlag <- MCAckFlag
  IntMax = 7
  Tokens = {1, 2}
  TickSizes = {1, 2}
  RetryLimits = {1, 2}
  TimeOuts = {0, 2, 9}
SYMMETRY Twins
INVARIANTS TypeOK CountsExact EntriesHoldSpooled TrashHoldsPacket RetryBudget CleanedOnce
PROPERTIES FinalIsFinal TimeoutHonoured ContractSpec
CHECK_DEADLOCK FALSE
