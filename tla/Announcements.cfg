\* Two rounds, a countdown of one, one failure of any kind.
CONSTANTS
  None = None  Deleted = Deleted
  MaxRounds = 2  MaxLeft = 1  MaxQueue = 2  MaxFaults = 1
SPECIFICATION FairSpec
INVARIANTS FeedRowIsHonest ExtraMessagesAreExplained
PROPERTIES MessagesGoForward FeedIsCompleted
