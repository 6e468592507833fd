SPECIFICATION Spec
CONSTANTS
  None = None
  a1 = a1
  b1 = b1
  b2 = b2
  r1 = r1
  r2 = r2
  r3 = r3
  u1 = u1
  u2 = u2
  t1 = t1
  t2 = t2
  t3 = t3
  Account = {a1}
  Browser = {b1, b2}
  Owner <- OnePerson
  Request = {r1, r2}
  UserId = {u1, u2}
  TokenId = {t1, t2, t3}
  MaxFaults = 1
SYMMETRY Sym
INVARIANT OneShot
INVARIANT JarIsUsable
INVARIANT OneUserPerAccount
PROPERTY BindingIsKept
CHECK_DEADLOCK FALSE
