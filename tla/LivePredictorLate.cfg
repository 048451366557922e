\* No fault at all: a round told by the round table before the score counts it.
CONSTANTS
  None = None  Deleted = Deleted
  MaxRounds = 2  WithDetail = {1}  MaxEditFailures = 2  MaxFaults = 0
SPECIFICATION Spec
INVARIANT PredictedBeforeResult
