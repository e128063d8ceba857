SPECIFICATION Spec
CONSTANTS
  e1 = e1
  e2 = e2
  Units <- MCUnits
  MaxHp = 2
  MaxToughness <- MCMaxToughness
  Locked <- MCLocked
  Sources <- MCSources
  Priority <- MCPriority
  Absorbs <- MCAbsorbs
  Amounts <- MCAmounts
  BreakAmounts <- MCBreakAmounts
  ListenerFamilies <- MCListenerFamilies
  Plans <- MCPlans
  MaxActions = 2
  MaxAnswers = 2
INVARIANT
  DefeatsAreCredited
CHECK_DEADLOCK FALSE
