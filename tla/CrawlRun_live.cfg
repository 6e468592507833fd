SPECIFICATION FairSpec
CONSTANTS
  None = None
  p1 = p1
  p2 = p2
  i1 = i1
  i2 = i2
  kr = kr
  gold = gold
  iron = iron
  Proc = {p1, p2}
  Region = {kr}
  RunId = {i1, i2}
  Tier = {gold, iron}
  MaxVersion = 1
  PhaseOrder <- UpToFetch
  PerTierPhaseIDs <- UpToFetchPerTier
  Profiles <- SequentialProfile
  ResumeFlags <- NoFlags
  SessionsMayDrop = TRUE
  MaxFaults = 1
PROPERTY RegionIsReleased
PROPERTY ParkedRunIsSettled
