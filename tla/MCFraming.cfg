SPECIFICATION Spec
CONSTANTS
  StringLimit = 3
  Messages <- MCMessages
  MaxMessages = 2
  Window = 4
INVARIANTS
  TypeOK
  ParsedAsAsked
PROPERTIES
  FramingImplementsChannel
  EveryPacketArrives
CHECK_DEADLOCK FALSE
