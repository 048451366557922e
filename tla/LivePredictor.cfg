\* Two rounds, one fault of any kind, a new message after two failed edits.
CONSTANTS
  None = None  Deleted = Deleted
  MaxRounds = 2  WithDetail = {1}  MaxEditFailures = 2  MaxFaults = 1
SPECIFICATION FairSpec
INVARIANTS OneOpenPrediction JournalledOnce MessagesAreAccounted
PROPERTIES SavedIsJournalled MessageIsCompleted MatchIsForgotten
