\* A handler that pauses the queue before it returns, with two slots.
CONSTANTS
  MaxJobs = 2
  Concurrency = 2
  Priorities = {1}
  Drains = {}
  Clock = {0}
SPECIFICATION Spec
PROPERTY NothingStartsWhilePaused
