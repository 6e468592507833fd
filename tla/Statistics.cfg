SPECIFICATION PhaseSpec
CONSTANTS
  None = None
  LadderLP <- Ends
  ApexLP <- ApexPoints
  MaxRows = 2
  b1 = b1
  m1 = m1
  m2 = m2
  m3 = m3
  m4 = m4
  Match = {m1, m2, m3, m4}
  Info <- Played
  Absent = Absent
  Null = Null
  Buyer = {b1}
  Catalog <- Sold
  MaxShop = 5
  MaxClock = 2
CHECK_DEADLOCK FALSE
INVARIANT HigherIsNotRatedLower
INVARIANT AverageIsBetween
INVARIANT KeptIsHeld
INVARIANT StartersAreStored
INVARIANT PagesAddUp
