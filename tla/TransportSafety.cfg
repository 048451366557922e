\* Three tasks on one circuit and one limiter.
CONSTANTS
  c1 = c1  c2 = c2  c3 = c3
  Callers = {c1, c2, c3}
  MaxAttempts = 2  Threshold = 3  Recovery = 2  Interval = 2
SPECIFICATION FairSpec
INVARIANT OneLateSend
PROPERTIES StartsAreSpaced OpensOnStreak CallsReturn
