\* Writes to a list in a list, with a property which they do not have.
CONSTANTS
  Subjects = {"records"}
  Handlers = {h1}
  MaxOnce = 1
  MaxSets = 1
  MaxLength = 1
  MaxDepth = 1
  CacheKeys = {k1}
  MaxSize = 1
  TTLs = {0}
  Lookups = {c1}
  MaxNow = 0
  Calendar <- TurnOfMonth
  Schedule <- MidnightAndTen
  RunImmediately = FALSE
  Capacity = 1
  RefillRate = 1
  Interval = 1
  MaxClock = 1
  CronLines <- Expressions
  SearchStarts <- Instants
  SpringForward = 2
  FallBack = 14
  MinutesPerHour = 2
  HoursPerDay = 3
  DaysPerMonth = 3
  MonthsPerYear = 2
  DaysPerWeek = 2
  Years = 1
  MapKeys = {"a"}
  NaN = "nan"
  MapValues = {1}
  HashOf <- Hashes
  Width = 2
  Levels = 3
  MaxNaNs = 1
  MaxInserts = 1
  Nothing = {}
  Documents <- Matrix
  Addresses <- InMatrix
  Systems = {"posix"}
  MaxVersion = 2
  MaxCommits = 3
  ByHand <- SomeCommits
  MaxReceives = 1
  MaxArrivals = 1
  Configs <- SomeMachines
  Names = {"go", "stay", "back"}
  Inherited = {}
  MaxHooks = 1
  Hosts <- SomeHosts
  Segments = {"a", "b", "x", "y", "*"}
  Patterns <- SomePatterns
  RouteMethods = {"GET", "ALL"}
  Pathnames <- SomePathnames
  RequestMethods = {"GET", "POST"}
  MaxRoutes = 3
SPECIFICATION Spec
CHECK_DEADLOCK FALSE
INVARIANT ProduceIsMutation
