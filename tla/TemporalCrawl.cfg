SPECIFICATION FairSpec
CONSTANTS
  None = None
  w1 = w1
  w2 = w2
  i1 = i1
  i2 = i2
  i3 = i3
  gold = gold
  iron = iron
  kr = kr
  euw = euw
  Region = {kr, euw}
  Riot = {kr}
  WfId = {w1}
  RunId = {i1, i2, i3}
  Tier = {gold, iron}
  MaxVersion = 2
  Profiles <- AllProfiles
  LatePhases <- Late
  MaxAttempts <- TwoAttempts
  MaxFaults = 2
INVARIANT CompletedRunCollectedEveryTier
INVARIANT VersionPinned
INVARIANT WorkflowSettlesItsRun
PROPERTY WorkflowEnds
CHECK_DEADLOCK FALSE
