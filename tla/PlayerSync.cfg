SPECIFICATION Spec
CONSTANTS
  None = None
  r1 = r1
  r2 = r2
  q1 = q1
  q2 = q2
  RunId = {r1, r2}
  Player = {q1, q2}
  MaxTime = 4
  MaxPatches = 1
  MaxFaults = 2
SYMMETRY Sym
INVARIANT SyncTimeIsKept
INVARIANT LabelIsPatch
INVARIANT UndisturbedRunIsComplete
CHECK_DEADLOCK FALSE
