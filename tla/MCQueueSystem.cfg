SPECIFICATION Spec
CONSTANTS
  low = low
  high = high
  late = late
  ult = ult
  u1 = u1
  u2 = u2
  Intents <- MCIntents
  Queues <- MCQueues
  Units <- MCUnits
  Windows <- MCWindows
  Home <- MCHome
  Family <- MCFamily
  Priority <- MCPriority
  Kind <- MCKind
  WaitFor <- MCWaitFor
  RetargetTo <- MCRetargetTo
  Sourced <- MCSourced
  ValidIn <- MCValidIn
  IntentRank <- MCIntentRank
  Inserts <- MCInserts
  MaxIssued = 3
  MaxClock = 1
INVARIANTS
  EntriesAccounted
PROPERTIES
  SameIntentInOrder
  EveryEntrySettles
CHECK_DEADLOCK FALSE
