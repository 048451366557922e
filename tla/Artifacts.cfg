CONSTANTS
  Targets = 2
  ExamSizes <- DaysWithRounds
  AnyHour = FALSE
  MaxRuns = 2
  MaxDay = 2
  MaxRounds = 1
  MaxFaults = 1
SPECIFICATION FairSpec
INVARIANTS
  ChampionsAreWhole
  LossIsExplained
  ReportsAreAccounted
PROPERTIES
  ReplacedAfterExam
  ServesChampions
CHECK_DEADLOCK FALSE
