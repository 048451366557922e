\* One league and the other tasks; three images, one of which contradicts the others.
CONSTANTS
  Leagues = {l1}  Other = other  Dictionary = dictionary  Cooldown = 2  None = None
  Collector = collector  Runners = {collector, operator}
  Versions = {1, 2}  Checksums = {"a", "b"}  Ghost = Ghost
  Images <- Releases
SPECIFICATION FairSpec
INVARIANTS RelapseIsTold
PROPERTIES ImplementsSchema BlockIsTold OutageIsTold
