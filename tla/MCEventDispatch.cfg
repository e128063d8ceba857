SPECIFICATION Spec
CONSTANTS
    UnitOrder <- MCUnitOrder
    Instances <- MCInstances
    NoInstance = "-"
    Owner <- MCOwner
    Modifier <- MCModifier
    Boosting <- MCBoosting
    Watched <- MCWatched
    Callbacks <- MCCallbacks
    Of <- MCOf
    On <- MCOn
    Scope <- MCScope
    Rank <- MCRank
    Executable <- MCCallbacks
    Enter <- MCEnter
    Exit <- MCExit
    Effects <- MCEffects
    MaxDepth = 2
INVARIANTS
  LogExplainsField
PROPERTIES
  TouchedWatchersSettle
  EveryDispatchReturns
