CONSTANTS
  burn = burn
  cool = cool
  markA = markA
  markB = markB
  auraA = auraA
  auraB = auraB
  Burn = Burn
  Mark = Mark
  Aura = Aura
  Effects <- MCEffects
  Modifiers <- MCModifiers
  Modifier <- MCModifier
  Source <- MCSource
  Duration <- MCDuration
  MaxLayer <- MCMaxLayer
  LayerDelta <- MCLayerDelta
  LifeStep <- MCLifeStep
  Refreshing = {burn, cool}
  Replacing = {Mark}
  OnPhase1 = {Burn}
  OnPhase2 = {Burn}
  Dispellable = {Burn, Mark}
  MaxOps = 6
SPECIFICATION Spec
INVARIANTS
  CountsStayPositive
  ListMatchesDetails
  OneInstancePerModifier
  SweepCountsOnce
