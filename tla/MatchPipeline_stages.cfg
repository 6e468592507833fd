SPECIFICATION Spec
CONSTANTS
  None = None
  w1 = w1
  m1 = m1
  m2 = m2
  q1 = q1
  q2 = q2
  Proc = {w1}
  Match = {m1, m2}
  Player = {q1}
  Builds = 2
  MaxSlots = 3
  MaxRetries = 2
  PageSize = 1
  MaxFaults = 2
SYMMETRY Sym
INVARIANT TypeOK
INVARIANT StagesInOrder
INVARIANT DoneMeansStored
INVARIANT RetryBudget
INVARIANT ApiFailuresAreHarmless
PROPERTY TierIsKept
