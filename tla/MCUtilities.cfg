\* Each part by itself, at sizes at which what it may do happens.
CONSTANTS
  Subjects = {"emitter", "cache", "cron", "limiter", "search", "map", "vec", "sums", "optics", "orders", "lists", "schemas", "records", "accessors", "types", "streams", "machine", "lazies", "programs", "router", "release", "terminal", "net", "paths", "args", "crypto", "ports", "lambda"}
  \* An emitter with two handlers, two once() and emits nested twice.
  Handlers = {h1, h2}
  MaxOnce = 2
  MaxSets = 2
  MaxLength = 2
  MaxDepth = 2
  \* A cache of two entries for three keys.
  CacheKeys = {k1, k2, k3}
  MaxSize = 2
  TTLs = {0, 1}
  Lookups = {c1, c2}
  MaxNow = 2
  \* A runner over the turn of a month.
  Calendar <- TurnOfMonth
  Schedule <- MidnightAndTen
  RunImmediately = TRUE
  \* A bucket of three.
  Capacity = 3
  RefillRate = 2
  Interval = 3
  MaxClock = 12
  \* Days of three hours of two minutes, and so on, with the clock put forward and back.
  CronLines <- Expressions
  SearchStarts <- Instants
  SpringForward = 4
  FallBack = 14
  MinutesPerHour = 2
  HoursPerDay = 3
  DaysPerMonth = 3
  MonthsPerYear = 2
  DaysPerWeek = 2
  Years = 1
  \* Two maps with three keys and NaN, on nodes of two branches, three levels deep.
  MapKeys = {"a", "b", "c"}
  NaN = "nan"
  MapValues = {1, 2}
  HashOf <- Hashes
  Width = 2
  Levels = 3
  MaxNaNs = 1
  \* Four insertions, one of them of undefined.
  MaxInserts = 4
  Nothing = {2}
  \* A record of records and a list, and paths of POSIX and of Windows.
  Documents <- Nested
  Addresses <- InNested
  Systems = {"posix", "windows"}
  \* Two versions, and three commits, made by hand with one in both manifests or in one.
  MaxVersion = 2
  MaxCommits = 3
  ByHand <- SomeCommits
  \* Four calls of receive() and three chunks; two machines and up to nine hooks; seven hosts.
  MaxReceives = 4
  MaxArrivals = 3
  Configs <- SomeMachines
  Names = {"go", "stay", "back"}
  Inherited = {}
  MaxHooks = 9
  Hosts <- SomeHosts
  Segments = {"a", "b", "x", "y", "*"}
  Patterns <- SomePatterns
  RouteMethods = {"GET", "ALL"}
  Pathnames <- SomePathnames
  RequestMethods = {"GET", "POST"}
  MaxRoutes = 3
SPECIFICATION Spec
CHECK_DEADLOCK FALSE
INVARIANTS
  OnceFiresOnce
  EmitReaches
  NeverTwice
  LazyIsEager
  HandlesAreTrue
  NextIsFirst
  LawsHold
  DataIsFaithful
  PipelineIsComposition
  MachineIsTrue
  RoutesAreServed
  RuntimeAnswers
  ReceivesAreOrdered
PROPERTIES
  LeastRecentGoesFirst
  ReleaseHolds
