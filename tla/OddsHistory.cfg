\* Two games: responses in flight, withdrawals, a restart, a reload that fails.
CONSTANTS
  g1 = g1  g2 = g2  s1 = s1  s2 = s2  o1 = o1  o2 = o2
  Absent = Absent  Kept <- Exact
  Games = {g1, g2}
  Selections = {s1}
  Odds = {o1}
  Faults = {"preload"}
  StartTs = 2  MaxTs = 3  MaxMoves = 2  MaxInFlight = 2  MaxCrashes = 1
SPECIFICATION FairSpec
INVARIANTS HistoryIsFaithful EveryRowIsAChange MemoryMatchesTable
PROPERTIES CatchesUp ImplementsStore
