SPECIFICATION Spec
CONSTANTS
  hero = hero
  foe = foe
  pet = pet
  Absent = Absent
  NoUnit = NoUnit
  NoFrame = NoFrame
  Units <- MCUnits
  MaxHp <- MCMaxHp
  InitialUnits <- MCInitialUnits
  Amounts = {2}
  MaxChanges = 4
  MaxGraphs = 2
INVARIANTS
  PublishedIsWhole
  PlansExplainStates
  DefeatIsHandedOverWhole
  StepsCompose
PROPERTIES
  UnitsFollowTheirLives
CHECK_DEADLOCK FALSE
