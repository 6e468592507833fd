SPECIFICATION Spec
CONSTANTS
  None = None
  p1 = p1
  p2 = p2
  i1 = i1
  i2 = i2
  kr = kr
  gold = gold
  iron = iron
  Proc = {p1, p2}
  Region = {kr}
  RunId = {i1, i2}
  Tier = {gold, iron}
  MaxVersion = 2
  PhaseOrder <- SomePhases
  PerTierPhaseIDs <- SomePerTier
  Profiles <- BothStrategies
  ResumeFlags <- NoFlags
  SessionsMayDrop = FALSE
  MaxFaults = 2
SYMMETRY Sym
INVARIANT TypeOK
INVARIANT OneExecutorPerRegion
INVARIANT OneExecutorPerRun
INVARIANT VersionPinned
INVARIANT CleanSlate
INVARIANT OnePassRunCollectedEveryTier
INVARIANT CompletedRunDrained
PROPERTY NewRunOnlyWhenIdle
PROPERTY CheckpointMovesForward
PROPERTY ImplementsRegionExecutor
