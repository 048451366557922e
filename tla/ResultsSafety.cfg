\* Two crashes at any step; the collector is blind for less than the lookback.
CONSTANTS
  FirstRun = 7  DaysBack = 7  Window = 3  Lookback = 4  Delay = 1  MaxBlind = 3
  Unreadable = {3}  MaxTime = 13  MaxCrashes = 2  None = None
SPECIFICATION FairSpec
INVARIANTS CheckpointIsHonest NoHole
PROPERTY BackfillCompletes
