SPECIFICATION Spec
CONSTANTS
  None = None
  p1 = p1
  p2 = p2
  i1 = i1
  i2 = i2
  kr = kr
  gold = gold
  iron = iron
  Proc = {p1}
  Region = {kr}
  RunId = {i1}
  Tier = {gold, iron}
  MaxVersion = 1
  PhaseOrder <- AllPhases
  PerTierPhaseIDs <- AllPerTier
  Profiles <- PipelineProfile
  ResumeFlags <- NoFlags
  SessionsMayDrop = FALSE
  MaxFaults = 1
INVARIANT CompletedRunCollectedEveryTier
