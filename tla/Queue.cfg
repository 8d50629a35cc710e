\* Three jobs of two priorities on two slots, one drain.
CONSTANTS
  MaxJobs = 3
  Concurrency = 2
  Priorities = {1, 2}
  Drains = {d1}
  Clock = {0, 1}
SPECIFICATION FairSpec
INVARIANTS
  SlotsAreUsed
  LineIsOrdered
PROPERTIES
  DrainIsTrue
  DrainResolves
