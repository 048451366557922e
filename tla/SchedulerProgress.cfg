\* One league, every kind of failure, a crash and a restart: what a crash can lose, and
\* what ends up happening.
SPECIFICATION FairSpec
CONSTANTS
  l1 = l1
  l2 = l2
  NoJob = NoJob
  Leagues = {l1}
  QueueMaxsize = 1
  ProbeCycles = 2
  Faults = {"blocked", "parser", "server", "circuit", "db"}
  MaxCycles = 4
  MaxRestarts = 1
INVARIANTS
  LogFollowsData
  CrashLossBounded
PROPERTIES
  StopTerminates
  FetchedIsStored
  FallbackIsProbed
CHECK_DEADLOCK FALSE
