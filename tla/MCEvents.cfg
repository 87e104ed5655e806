SPECIFICATION Spec
CONSTANTS
  Threads = {"t1", "t2", "t3"}
  Clients = {"http", "redis"}
  EventType <- TypesOfClients
  Uses <- OneSharedClient
  Lengths <- LengthsAtTheLimits
  MaxCalls = 2
INVARIANTS
  SizesAgree
  FitsScratchBuffer
  CommandsParse
  CommandsTellOneCall
CHECK_DEADLOCK FALSE
