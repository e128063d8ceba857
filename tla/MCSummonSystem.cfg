SPECIFICATION Spec
CONSTANTS
  c1 = c1
  c2 = c2
  m1 = m1
  d1 = d1
  d2 = d2
  NoUnit = NoUnit
  Owners <- MCOwners
  Servants <- MCServants
  OwnerOf <- MCOwnerOf
  Summoners <- MCSummoners
  Queues <- MCQueues
  MaxIndex = 3
  MaxEffects = 2
  MaxTurns = 2
INVARIANTS
  RegistryIsValid
  RemovedIsForgotten
PROPERTIES
  OwnersKeepTheirs
  ServantsLeaveTogether
  OrphansLeave
CHECK_DEADLOCK FALSE
