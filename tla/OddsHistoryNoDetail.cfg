\* A game whose detail the fallback refused, dated of its start.
CONSTANTS
  g1 = g1  g2 = g2  s1 = s1  s2 = s2  o1 = o1  o2 = o2
  Absent = Absent  Kept <- Exact
  Games = {g1}
  Selections = {s1, s2}
  Odds = {o1}
  Faults = {"noDetail"}
  StartTs = 3  MaxTs = 4  MaxMoves = 3  MaxInFlight = 1  MaxCrashes = 1
SPECIFICATION Spec
INVARIANT MemoryMatchesTable
