SPECIFICATION Spec
CONSTANTS
  Absent = Absent
  Null = Null
  m1 = m1
  r1 = r1
  r2 = r2
  w1 = w1
  w2 = w2
  Match = {m1}
  Info <- MCInfo
  Request = {r1, r2}
  Query <- MCQuery
  Writer = {w1}
  Version <- MCVersion
  TTL = 1
  MaxLoad = 1
  MaxTime = 2
SYMMETRY Sym
INVARIANT PageIsRecent
INVARIANT ErrorsHaveACause
CHECK_DEADLOCK FALSE
