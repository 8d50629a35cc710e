\* Three callers and a drain in the middle of whatever they do, with validation.
CONSTANTS
  Callers = {c1, c2, c3}
  Drains = {d1}
  MaxSize = 1
  Validate = TRUE
  IdleTimeout = TRUE
  MaxCreated = 3
  None = None
SPECIFICATION FairSpec
CHECK_DEADLOCK FALSE
INVARIANTS
  ResourcesAreCounted
  DrainingIsEmpty
  SerialFits
PROPERTIES
  LendsAsPromised
  DrainCompletes
