CONSTANTS
  Targets = 2
  ExamSizes <- AllDays
  AnyHour = FALSE
  MaxRuns = 2
  MaxDay = 2
  MaxRounds = 0
  MaxFaults = 0
SPECIFICATION Spec
PROPERTY ReplacedAfterExam
CHECK_DEADLOCK FALSE
