\* Two leagues; the site fails in every way, nothing crashes the loops.
SPECIFICATION Spec
CONSTANTS
  l1 = l1
  l2 = l2
  NoJob = NoJob
  Leagues = {l1, l2}
  QueueMaxsize = 2
  ProbeCycles = 2
  Faults = {"blocked", "parser", "server"}
  MaxCycles = 2
  MaxRestarts = 0
SYMMETRY Symmetry
INVARIANTS
  NothingLost
  WrittenInOrder
  QueuedAtStopIsWritten
  NoProducerStranded
CHECK_DEADLOCK FALSE
