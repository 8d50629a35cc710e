\* all() of a task that hangs and one that fails.
CONSTANTS
  Subjects = {"task"}
  Callers = {c1}
  Careless = {}
  Permits = 1
  MaxSurplus = 0
  Receivers = {r1}
  Capacity = 1
  MaxSends = 1
  Users = {u1, u2}
  FailureThreshold = 1
  SuccessThreshold = 1
  Timeout = 1
  MaxSetBacks = 0
  Requests = {q1}
  Hanging = {}
  Derivers = 2
  Teardown = TRUE
  MaxSignals = 3
  Scripts <- SomeScripts
  MaxStreams = 1
  MaxCalls = 3
  Trees <- HangingAll
  MaxRuns = 1
  MaxExecutions = 3
  Chunks = 1
  Adapters = {"node", "bun", "deno"}
  MaxChunks = 1
  Exchanges = {q1}
  NeedsDuplex = FALSE
  Bodies = {}
SPECIFICATION FairSpec
PROPERTY AllShortCircuits
