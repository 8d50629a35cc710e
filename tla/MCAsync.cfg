\* Each part by itself, at sizes at which what it may do happens.
CONSTANTS
  Subjects = {"semaphore", "channel", "breaker", "service", "push", "task", "subprocess", "server"}
  \* Four callers on two permits, two of which may release twice, once each or one twice.
  Callers = {c1, c2, c3, c4}
  Careless = {c1, c2}
  Permits = 2
  MaxSurplus = 2
  \* Three consumers, a buffer of two, ten sends: up to eight blocked at once.
  Receivers = {r1, r2, r3}
  Capacity = 2
  MaxSends = 10
  \* Three users, thresholds of two, a timeout of two ticks, one set-back.
  Users = {u1, u2, u3}
  FailureThreshold = 2
  SuccessThreshold = 2
  Timeout = 2
  MaxSetBacks = 1
  \* Two requests, one of which may hang, two derivers, three signals.
  Requests = {q1, q2}
  Hanging = {q2}
  Derivers = 2
  Teardown = TRUE
  MaxSignals = 3
  \* Up to two sources of up to three items, three calls of next().
  Scripts <- SomeScripts
  MaxStreams = 2
  MaxCalls = 3
  \* Each of seven trees of combinators is run once.
  Trees <- SomeTrees
  MaxRuns = 1
  MaxExecutions = 16
  \* A child that writes twice.
  Chunks = 2
  \* The two requests through each of the three adapters.
  Adapters = {"node", "bun", "deno"}
  MaxChunks = 1
  Exchanges = {q1, q2}
  NeedsDuplex = FALSE
  Bodies = {}
SPECIFICATION FairSpec
INVARIANTS
  PermitsAreKept
  ValuesMove
  ResultsAreCounted
  EndsAreTold
  NothingIsLost
  AttemptsAreOrdered
  CallTells
  AnswersAreWhole
PROPERTIES
  KeepsPromise
  ActsAsOneLine
  WaiterRuns
  ChannelSettles
  OpenIgnoresResults
  BreakerRecovers
  ServiceEnds
  EveryCallSettles
