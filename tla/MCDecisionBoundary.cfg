SPECIFICATION Spec
CONSTANTS
  blocked = blocked
  Contents <- MCContents
  Choices <- MCChoices
  Blocked = blocked
  Battles <- MCBattles
  MaxSteps = 2
INVARIANTS
  NoProgressIsACycle
  AdvanceIsExact
PROPERTIES
  TokensActInOrder
CHECK_DEADLOCK FALSE
