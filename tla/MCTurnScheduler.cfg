SPECIFICATION FairSpec
CONSTANTS
  a1 = a1
  a2 = a2
  e1 = e1
  e2 = e2
  NoUnit = NoUnit
  NoPriority = NoPriority
  Allies <- MCAllies
  Enemies <- MCEnemies
  Waves <- MCWaves
  Gauge <- MCGauge
  TiePriority <- MCTiePriority
  EntryPriority <- MCEntryPriority
  Inserts <- MCInserts
  MaxQueue = 2
  MaxEffects = 4
  MaxTurns = 3
INVARIANTS
  OpenTurnMatchesPhase
  DecisionBelongsToTurn
  LifecycleTickedOnce
  WavesInOrder
  StallsAreDiagnosed
PROPERTIES
  ReachesDecision
  DeferredTurnEnds
  TurnBeginsInOrder
  QueueKeepsTurn
  BattleOnlyProgresses
  TurnsFollowTheCycle
CHECK_DEADLOCK FALSE
