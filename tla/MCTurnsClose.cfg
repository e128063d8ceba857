SPECIFICATION FairSpec
CONSTANTS
  c1 = c1
  c2 = c2
  m1 = m1
  d1 = d1
  d2 = d2
  NoUnit = NoUnit
  Owners <- MCOwners
  Servants <- MCServants
  OwnerOf <- MCOwnerOf
  Summoners <- MCSummoners
  Queues <- MCQueues
  MaxIndex = 3
  MaxEffects = 2
  MaxTurns = 1
PROPERTIES
  TurnsClose
CHECK_DEADLOCK FALSE
