SPECIFICATION ThreadSpec
CONSTANTS
  a = a
  b = b
  h = h
  MaxEntries = 2
  Packets = {a, b, h}
  NoPacket = NoPacket
  Priority <- MCPriority
  AckType <- MCAckType
  Token <- MCToken
  AckFlag <- MCAckFlag
  IntMax = 7
  Tokens = {1}
  TickSizes = {2}
  RetryLimits = {1, 2}
  TimeOuts = {0, 2}
INVARIANTS CallbackIsOfAcked
