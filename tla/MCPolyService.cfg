SPECIFICATION FairSpec
CONSTANTS
  garbage = garbage
  MaxEntries = 2
  Packets <- AllKinds
  NoPacket = NoPacket
  Priority <- MCPriority
  AckType <- MCAckType
  Token <- MCToken
  AckFlag <- MCAckFlag
  IntMax = 7
  InterfaceCount = 2
  TypeOf <- MCTypeOf
  Malformed <- Garbage
  Overridden = {"GetData"}
  Foreign <- OtherVersion
  Outgoing <- OneCmd
  Incoming <- AllArriving
  MaxFed = 2
  TickSizes = {1}
  Retries = 2
  TimeOut = 1
INVARIANTS TypeOK AnswersStayOnInterface AcksComeBack
PROPERTIES FramesAreParsed ReadyIsTransmitted
CHECK_DEADLOCK FALSE
