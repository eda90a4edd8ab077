SPECIFICATION FairSpec
CONSTANTS
  MaxEntries = 2
  Packets <- MCPackets
  NoPacket = NoPacket
  Priority <- MCPriority
  AckType <- MCAckType
  Token <- MCToken
  AckFlag <- MCAckFlag
  IntMax = 7
  TypeOf <- MCTypeOf
  Malformed <- NoFrames
  Overridden <- NoTypes
  Foreign <- NoFrames
  Commands <- MCCommands
  TickSizes = {1}
  Retries = 2
  TimeOut = 1
  MaxSent = 2
INVARIANTS TypeOK AckedWasHandled
PROPERTIES HandledIsAcked
CHECK_DEADLOCK FALSE
