---------------------------- MODULE MCUtilities ----------------------------
(***************************************************************************)
(* The parts of the program that share nothing with one another, on small  *)
(* instances: only the subject moves, and each behaviour is one of it.     *)
(* MCUtilities.cfg gives the constants of the modules that are extended;   *)
(* the instances of the others are defined here.                           *)
(***************************************************************************)
EXTENDS EventEmitter, Cache, Cron, RateLimiter, HashMap, StableVec, Release, Net, Machine, Ports, Router

CONSTANTS Subjects,                       \* those that are checked
          Documents, Addresses,           \* what produce() writes to, and where
          Systems                         \* whose paths are resolved

VARIABLES subject,
          items, collected, parted,                                            \* Core
          document,                                                            \* Optics
          comparison,                                                          \* Core
          arrays, held, lists, wrote, last,                                    \* Lists
          parsed,                                                              \* Schema
          record, earlier, log, direct, recipe, writes, made,                  \* Records
          pathRecording, pathBuf, accessors, recorded,
          types, caches, composed, errors,                                     \* Nominal
          source, pulled, stages, ended,                                       \* StreamPull
          lazies, answers, read, picked,                                       \* Effects
          runtime, tty, typed, input, raw, stream, reads, calls,               \* Terminal
          paths, argv,                                                         \* Platform
          secrets, sealed,                                                     \* Crypto
          lambda                                                               \* ServerAdapters

sumVars == <<items, collected, parted>>
listVars == <<arrays, held, lists, wrote, last>>
recordVars == <<record, earlier, log, direct, recipe, writes, made>>
accessorVars == <<pathRecording, pathBuf, accessors, recorded>>
nominalVars == <<types, caches, composed, errors>>
pullVars == <<source, pulled, stages, ended>>
lazyVars == <<lazies, answers, read>>
terminalVars == <<runtime, tty, typed, input, raw, stream, reads, calls>>
cryptoVars == <<secrets, sealed>>

utilityGroup == <<emitterVars, cacheVars, cronVars, limiterVars, searchVars, mapVars, stableVars>>
dataGroup == <<sumVars, document, comparison, listVars, parsed, recordVars, accessorVars, nominalVars>>
programGroup == <<pullVars, machineVars, lazyVars, picked, routerVars, releaseVars>>
runtimeGroup == <<terminalVars, netVars, paths, argv, cryptoVars, portVars, lambda>>
vars == <<subject, utilityGroup, dataGroup, programGroup, runtimeGroup>>

-----------------------------------------------------------------------------
(* The runner and the search for the next time it is due.                       *)

At(year, month, date, hour, day) ==
  [year |-> year, month |-> month, date |-> date, hour |-> hour, minute |-> 0, day |-> day]

\* The turn of January 2025, as the months of 31 days all turn.
TurnOfMonth == <<At(2025, 0, 31, 0, 5), At(2025, 0, 31, 9, 5), At(2025, 0, 31, 10, 5),
                 At(2025, 1, 1, 0, 6), At(2025, 1, 1, 10, 6)>>

\* 0 0,10 * * *
MidnightAndTen == [minutes |-> {0}, hours |-> {0, 10}, daysOfMonth |-> 1..31, months |-> 1..12, daysOfWeek |-> 0..6]

All(step) == [kind |-> "all", from |-> 0, to |-> 0, step |-> step]
Span(from, to) == [kind |-> "range", from |-> from, to |-> to, step |-> 1]
One(n) == [kind |-> "single", from |-> n, to |-> n, step |-> 1]
Expressions == [minutes : {<<All(1)>>, <<One(1)>>, <<One(0), All(0)>>},
                hours : {<<All(2)>>, <<Span(1, 2)>>, <<One(1)>>, <<One(0)>>},
                daysOfMonth : {<<All(1)>>, <<Span(1, 2)>>, <<Span(2, 1)>>},
                months : {<<All(1)>>, <<One(2), One(1)>>, <<One(1)>>},
                daysOfWeek : {<<All(1)>>, <<One(1)>>}]
Instants == -8..20

\* Keys that collide: "b" in the first chunk with the others, those with one another in both.
Hashes == [k \in AnyKeys |-> IF k = "b" THEN 4 ELSE 0]

-----------------------------------------------------------------------------
(* Data.                                                                        *)

OpticOf == INSTANCE Optics WITH Limit <- 3, Documents <- {}, OpticSet <- {}
Then(a, b) == OpticOf!Compose(a, b)
Cell(i) == Then(OpticOf!Prop("cells"), OpticOf!Index(i))
Cells == {<<>>, <<[tag |-> "err", value |-> 0]>>, <<[tag |-> "ok", value |-> 1], [tag |-> "err", value |-> 0]>>}
Op == INSTANCE Optics WITH
  Limit <- 3,
  Documents <- [cells : Cells, bio : {-1, 0}, age : {1}],
  OpticSet <- {Then(Then(OpticOf!Id, Cell(0)), OpticOf!Prism), Then(Cell(1), Then(OpticOf!Prism, OpticOf!Iso)),
               Then(OpticOf!Prop("cells"), Then(OpticOf!Index(-1), OpticOf!Prop("value"))),
               Then(OpticOf!Id, OpticOf!Nullable("bio")),
               Then(OpticOf!Nullable("bio"), Then(OpticOf!Reversed, OpticOf!Iso)),
               Then(Then(OpticOf!Prop("age"), OpticOf!Iso), Then(OpticOf!Id, OpticOf!Reversed)),
               Then(Cell(-2), Then(Then(OpticOf!Prism, OpticOf!Iso), OpticOf!Reversed))}

Number(n) == [number |-> n]
OrderOf(is, on) == [is |-> is, on |-> on]
Reverse2(o) == [is |-> "reverse", of |-> o, on |-> o.on]
ComparedBy(o, f) == [is |-> "contramap", of |-> o, field |-> f, on |-> "points"]
Co == INSTANCE Core WITH
  SumValues <- {1, 2}, SumErrors <- {"e", "f"}, MaxItems <- 3,
  Compared <- [numbers |-> {Number(n) : n \in {-2, 0, 1, 3}},
               points |-> [x : {Number(0), Number(1)}, y : {Number(0), Number(1)}]],
  Ords <- {OrderOf("number", "numbers"), OrderOf("string", "numbers"), Reverse2(OrderOf("number", "numbers")),
           Reverse2(Reverse2(OrderOf("number", "numbers"))),
           ComparedBy(OrderOf("number", "points"), "x"), Reverse2(ComparedBy(OrderOf("string", "points"), "y"))},
  Eqs <- {OrderOf("same", "numbers"), ComparedBy(OrderOf("same", "numbers"), "y"),
          [is |-> "struct", on |-> "points", fields |-> [x |-> OrderOf("same", "numbers"), y |-> OrderOf("same", "numbers")]]}

Li == INSTANCE Lists WITH
  Elements <- {[key |-> 1, tag |-> "p"], [key |-> 1, tag |-> "q"], [key |-> 2, tag |-> "p"]},
  MaxArrays <- 2, MaxLength <- 4

V == INSTANCE Values

\* A record of records and a list, and one with a list in a list.
Nested == {V!Object([a |-> V!Object([x |-> V!Num(1), y |-> V!Object([z |-> V!Num(1)])]),
                     l |-> V!List(<<V!Num(1), V!Object([x |-> V!Num(2)])>>)])}
InNested == {<<"a">>, <<"a", "x">>, <<"a", "y", "z">>, <<"a", "w">>, <<"l", "2">>, <<"l", "1", "x">>, <<"l", "1">>, <<"l">>}
Matrix == {V!Object([m |-> V!List(<<V!List(<<V!Num(1)>>)>>)])}
InMatrix == {<<"m", "0", "0">>, <<"m", "0">>}
Re == INSTANCE Records WITH
  Bases <- Documents, Paths <- Addresses, Written <- {V!Num(5), V!Object([x |-> V!Num(6)])},
  MaxWrites <- 3, MaxSteps <- 1, MaxNesting <- 2, MaxTouches <- 2

No == INSTANCE Nominal WITH
  Scalars <- <<"Str", "Int">>, MaxTypes <- 4, MaxCauses <- 1,
  Durations <- {0, 1, 999, 1000, 59999, 60000, 3599999, 3600000, 86399999, 86400000, 90061001, -1, -3661000, 172800000}

-----------------------------------------------------------------------------
(* Schemas and codecs: the shapes, and what is parsed by them.                  *)

Of(is) == [is |-> is]
By(is, of) == [is |-> is, of |-> of]
Keyed(shape) == [is |-> "object", keys |-> SelectSeq(<<"t", "a", "b">>, LAMBDA k : k \in DOMAIN shape), shape |-> shape]
Refine(of, p) == [is |-> "refine", of |-> of, by |-> p]
Default(of, v) == [is |-> "default", of |-> of, fallback |-> v]
Doubling == [is |-> "transform", by |-> "double", of |-> Of("number")]
Tree == Keyed([a |-> Of("number"), b |-> By("optional", By("array", [is |-> "lazy", name |-> "tree"]))])
ByTag == [is |-> "tagged", on |-> "t", mapping |->
           [p |-> Keyed([t |-> [is |-> "enum", values |-> {V!Str("p")}], a |-> Refine(Of("number"), Of("positive"))]),
            q |-> Keyed([t |-> [is |-> "enum", values |-> {V!Str("q")}], b |-> Of("string")])]]
AnA == V!Object([a |-> V!Num(2)])
Tagged(tag, value) == V!Object([tag |-> V!Str(tag), value |-> value])

Inputs ==
  {V!Undefined, V!Null, V!Str(""), V!Str(" "), V!Str("x"), V!Num(0), V!Num(3), V!Num(-2), [nan |-> TRUE], V!Bool(TRUE),
   V!List(<<>>), V!List(<<V!Num(2)>>), V!List(<<V!Num(2), V!Num(-2)>>), V!List(<<V!Num(2), V!Str("x")>>),
   V!List(<<V!Str("x"), V!Null>>), V!List(<<[bytes |-> <<>>]>>), V!List(<<[bytes |-> <<1>>]>>),
   AnA, V!Object([b |-> V!Null]), V!Object([a |-> V!Null, b |-> V!Str("x")]), V!Object([a |-> V!Num(0), b |-> V!Str("x")]),
   V!Object([a |-> V!List(<<V!Num(3)>>)]), V!Object([a |-> V!Num(2), b |-> V!List(<<AnA>>)]),
   V!Object([a |-> V!Num(2), b |-> V!List(<<AnA, V!Object([a |-> V!Num(3), b |-> V!List(<<AnA, V!Object([b |-> V!Null])>>)])>>)]),
   V!Object([t |-> V!Str("p"), a |-> V!Num(2)]), V!Object([t |-> V!Str("q"), b |-> V!Str("x")]),
   V!Object([t |-> V!Str("constructor"), a |-> V!Num(2)]), V!Object([t |-> V!Num(2)]),
   Tagged("Some", V!Num(2)), Tagged("Some", Tagged("Some", V!Bool(TRUE))), Tagged("None", V!Num(2)),
   Tagged("Left", V!Str("x")), Tagged("Right", Tagged("Some", V!Num(2))),
   V!Object([a |-> Tagged("Left", V!Str("x")), b |-> Tagged("Right", V!Num(3))])}

SchemaOf == INSTANCE Schema WITH
  Inputs <- {}, Schemas <- {}, Codecs <- {}, Lazies <- [tree |-> Tree], OwnKeys <- <<>>, Inherited <- {}, Blank <- {}
Scalar(name) == SchemaOf!Scalar(name)
Maybe(type) == SchemaOf!Maybe(type)
Either(left, right) == SchemaOf!Either(left, right)

Schemas ==
  {Of("string"), Of("number"), Of("boolean"), Tree, ByTag, Doubling, By("optional", Of("string")), Default(Of("number"), V!Num(2)),
   SchemaOf!Vec(Scalar("UInt")), SchemaOf!Vec(Scalar("Bytes")), SchemaOf!Pair(Scalar("Int"), Scalar("Str")),
   SchemaOf!Tuple(<<Scalar("Str"), Scalar("Nil")>>), SchemaOf!Dict(SchemaOf!Vec(Scalar("Num"))),
   SchemaOf!Dict(Either(Scalar("Str"), Scalar("Num"))),
   Maybe(Scalar("Num")), Maybe(Maybe(Scalar("Bool"))), Either(Scalar("Str"), Maybe(Scalar("Num"))),
   Refine(Of("string"), Of("nonEmpty")), Refine(Of("string"), [is |-> "minLength", n |-> 1]),
   Refine(Of("string"), [is |-> "maxLength", n |-> 0]), Refine(Of("number"), Of("int")), Refine(Of("number"), Of("nonNegative")),
   Refine(Of("number"), [is |-> "range", n |-> 0, m |-> 2]), Refine(Tree, [is |-> "size", n |-> 1]),
   Refine(Refine(Of("number"), [is |-> "min", n |-> 0]), [is |-> "max", n |-> 2]),
   By("array", Doubling), By("array", Default(Of("number"), V!Num(2))), By("record", By("array", Of("number"))),
   [is |-> "tuple", items |-> <<Of("number"), Of("string")>>],
   By("record", [is |-> "union", items |-> <<Of("number"), By("array", Of("string")), Of("string")>>]),
   [is |-> "union", items |-> <<ByTag, Keyed([a |-> Default(Of("number"), V!Num(2))]),
                                [is |-> "tuple", items |-> <<Of("string"), By("optional", Of("string"))>>]>>],
   [is |-> "both", first |-> Keyed([a |-> Default(Of("number"), V!Num(2))]),
                   second |-> Keyed([b |-> Of("string"), a |-> Default(Of("number"), V!Num(0))])],
   [is |-> "both", first |-> Of("string"), second |-> Refine(Of("string"), [is |-> "maxLength", n |-> 1])],
   [is |-> "codec", codec |-> By("nullable", Of("number"))]}

Pipe(a, b) == [is |-> "pipe", first |-> a, second |-> b]
Plus == Of("plus")
Times == Of("times")
Codecs ==
  {Of("string"), Of("boolean"), By("array", Pipe(Times, Plus)), By("nullable", Pipe(Plus, Times)),
   Keyed([a |-> Pipe(Times, Pipe(Plus, Times)), b |-> [is |-> "schema", schema |-> Default(Of("string"), V!Str("x"))]]),
   Keyed([b |-> By("array", Keyed([a |-> Times]))]),
   [is |-> "schema", schema |-> ByTag], Keyed([a |-> By("nullable", Of("number"))])}

Sc == INSTANCE Schema WITH
  Lazies <- [tree |-> Tree], OwnKeys <- <<"tag", "value", "t", "a", "b">>, Inherited <- {"constructor"}, Blank <- {"", " "}

-----------------------------------------------------------------------------
(* Programs.                                                                    *)

\* An operator of a stream with its argument; those that may come before others, and those
\* that take numbers.
Stage(name, n) == [name |-> name, n |-> n, kept |-> 0]
Stages == {Stage(o, 1) : o \in {"map", "filter", "flatMap", "mapErr", "takeWhile", "scan", "distinctUntilChanged", "concat", "zip"}}
          \cup {Stage(o, 2) : o \in {"chunk", "window", "take", "drop"}} \cup {Stage("take", 0)}
Grouping == {Stage("chunk", 2), Stage("window", 2), Stage("zip", 1)}
Numeric == (Stages \cup {Stage("throttle", 2)}) \ Grouping
Collect == Stage("collect", 1)
Pipelines ==
  {<<a, b, Stage(c, 1)>> : a \in Numeric, b \in Stages \ Grouping, c \in {"collect", "reduce", "first", "groupBy"}}
  \cup {<<a, b, Stage(c, 1)>> : a \in Numeric, b \in Grouping, c \in {"collect", "first"}}
  \cup {<<a, b, Collect>> : a \in Grouping, b \in {Stage("mapErr", 1), Stage("concat", 1), Stage("take", 2), Stage("drop", 2), Stage("chunk", 2)}}
St == INSTANCE StreamPull WITH
  Values <- {1, 2}, MaxLength <- 3, Pipelines <- Pipelines,
  Other <- <<[isOk |-> TRUE, value |-> 1], [isOk |-> FALSE, value |-> 7], [isOk |-> TRUE, value |-> 2]>>

To(target) == [to |-> target]
Goes(target, guard, action) == [target |-> target, guard |-> guard, action |-> action]
MachineOf(initial, onExit, onEntry, transitions) ==
  [initial |-> initial, onExit |-> onExit, onEntry |-> onEntry, states |-> {"idle", "busy", "done"}, transitions |-> transitions]
SomeMachines ==
  {MachineOf("idle", {"idle", "busy"}, {"idle", "busy"},
             [idle |-> [go |-> To("busy"), stay |-> Goes("idle", TRUE, TRUE)],
              busy |-> [go |-> Goes("done", TRUE, FALSE), back |-> Goes("idle", FALSE, TRUE)]]),
   MachineOf("busy", {"idle", "busy", "done"}, {"idle", "busy", "done"},
             [busy |-> [go |-> Goes("done", TRUE, TRUE)],
              done |-> [back |-> To("busy"), stay |-> Goes("done", TRUE, FALSE)]])}

\* map() of a Lazy, and flatMap() of that to another; programs of State and Env; a type of
\* three variants with the arms that may be given for it.
Lazies == <<[kind |-> "base"], [kind |-> "map", of |-> 1], [kind |-> "base"], [kind |-> "flatMap", of |-> 2, then |-> 3]>>
Variants == [Red |-> {}, Blue |-> {"x"}, Green |-> {"x", "y"}]
Do(op) == [op |-> op]
OfProgram(op, of) == [op |-> op, of |-> of]
FlatMap(of, then) == [op |-> "flatMap", of |-> of, then |-> then]
ThenSets == [v \in 0..3 |-> [op |-> "set", value |-> (v + 1) % 3]]
ThenMayFail == [v \in 0..3 |-> IF v % 2 = 0 THEN [op |-> "of", value |-> 1] ELSE Do("fails")]
Ef == INSTANCE Effects WITH
  Shapes <- Lazies, MaxRuns <- 2, Numbers <- 4, MaxArms <- 3, Variants <- Variants,
  Arms <- [kind : {"tag"}, tag : DOMAIN Variants] \cup [kind : {"when"}, has : {{"x"}, {"y"}}],
  Programs <- {[op |-> "of", value |-> 2], Do("get"), Do("modify"), [op |-> "set", value |-> 1], Do("fails"),
               OfProgram("map", Do("get")), OfProgram("tap", Do("get")), OfProgram("mapErr", Do("fails")),
               OfProgram("mapErr", OfProgram("mapErr", Do("fails"))),
               OfProgram("provide", Do("get")), FlatMap(Do("modify"), [v \in 0..3 |-> Do("get")]),
               FlatMap(Do("get"), ThenSets), FlatMap(Do("get"), ThenMayFail)}

ByHandCommit(pkg, jsr) == [pkg |-> pkg, jsr |-> jsr, bump |-> FALSE]
SomeCommits == {ByHandCommit(1, 1), ByHandCommit(2, 1)}

Static(name) == [kind |-> "static", name |-> name]
Param(name) == [kind |-> "param", name |-> name]
Wild == [kind |-> "wild", name |-> "*"]
SomePatterns == {<<>>, <<Static("a")>>, <<Param("x")>>, <<Param("y"), Static("b")>>, <<Static("a"), Param("x")>>,
                 <<Param("x"), Param("y")>>, <<Param("x"), Param("x")>>, <<Static("a"), Wild>>, <<Wild>>,
                 <<Param("x"), Wild, Static("b")>>}
SomePathnames == UNION {[1..n -> {"a", "b"}] : n \in 0..3}

-----------------------------------------------------------------------------
(* Around the runtime.                                                          *)

Te == INSTANCE Terminal WITH
  MaxCalls <- 3,
  Scripts <- {<<<<"a", "b">>, <<"cr", "nl">>, <<"y", "nl">>, <<"a">>>>,
              <<<<"a", "del", "b", "nl">>, <<"q", "nl">>, <<"n", "nl">>>>,
              <<<<"y", "nl", "a", "nl">>, <<"abort">>, <<"bell", "b", "eof">>, <<"nl">>>>}

\* Paths in which no two names are next to each other, and command lines.
Separators == {"/", "\\"}
PathInputs ==
  {p \in UNION {[1..n -> Separators \cup {"C:", "a", "b", "..", "."}] : n \in 1..2} :
     Len(p) = 2 => p[1] \in Separators \/ p[2] \in Separators}
  \cup {<<"/", "a", "/">>, <<"/", "a", "/", "b">>, <<"/", "/", "a">>, <<"C:", "\\", "a">>, <<"C:", "\\", "a", "\\", "b">>,
        <<"a", "/", "..", "/", "..">>, <<"/", "a", "/", "..">>, <<"/", "..", "/", "a">>, <<"C:", "/", "..">>,
        <<"/", "a", "/", ".", "/", "b">>}
Pl == INSTANCE Platform WITH
  PathInputs <- PathInputs, Drives <- {"C:"}, Cwd <- [posix |-> <<"/", "w">>, windows |-> <<"C:", "\\", "w">>],
  ArgLists <- UNION {[1..n -> {[flag |-> "a"], [flag |-> "b"], [flag |-> "a", value |-> "1"], [word |-> "x"]}] : n \in 1..4},
  Fields <- <<"a", "b">>, Accepts <- [a |-> {"1", "x"}, b |-> {"true", "x", "undefined"}]

Cr == INSTANCE Crypto WITH
  keys <- secrets, Families <- {"AES-CBC", "ECDSA", "RSA-OAEP", "ECDH"}, Texts <- {"t", "u"}, Hashes <- {"SHA-256", "SHA-384"},
  MaxKeys <- 3, MaxSealed <- 2, Byte <- 4, Mantissa <- 64, MaxRange <- 18

Host(deno, process, importable, requirable, navigator, lacks) ==
  [deno |-> deno, process |-> process, importable |-> importable, requirable |-> requirable,
   navigator |-> navigator, lacks |-> lacks]
SomeHosts ==
  {Host(TRUE, TRUE, TRUE, TRUE, TRUE, {}),
   Host(TRUE, FALSE, FALSE, FALSE, FALSE, {"osRelease", "loadavg", "networkInterfaces", "uid", "gid", "uptime", "ppid",
                                          "execPath", "memoryUsage", "chown", "dns", "symlink"}),
   Host(FALSE, TRUE, TRUE, TRUE, TRUE, {}), Host(FALSE, TRUE, TRUE, TRUE, FALSE, {"uid", "gid"}),
   Host(FALSE, TRUE, FALSE, FALSE, FALSE, {"Compression.gzip"}), Host(FALSE, FALSE, FALSE, FALSE, TRUE, {}),
   Host(FALSE, FALSE, FALSE, FALSE, FALSE, {})}

La == INSTANCE ServerAdapters WITH
  Exchanges <- {}, Adapters <- {}, MaxChunks <- 0, NeedsDuplex <- FALSE,
  Bodies <- UNION {[1..n -> {"low", "high"}] : n \in 0..3},
  served <- 0, server <- 0, aborted <- 0, promise <- 0, exchange <- 0

-----------------------------------------------------------------------------
\* Who does not move has one initial state.
Init ==
  /\ subject \in Subjects
  /\ EmitterInit /\ CacheInit
  /\ CronInit /\ (subject # "cron" => today = 1)
  /\ LimiterInit /\ (subject # "limiter" => clock = 0)
  /\ IF subject = "search" THEN SearchInit
     ELSE expression = <<>> /\ fields = <<>> /\ after = 0 /\ start = 0 /\ current = 0 /\ found = "none"
  /\ MapInit /\ StableInit
  /\ IF subject = "sums" THEN Co!SumInit ELSE items = <<>> /\ collected = <<>> /\ parted = <<>>
  /\ Op!OpticInit /\ (subject # "optics" => document = [cells |-> <<>>, bio |-> 0, age |-> 1])
  /\ Co!OrderInit /\ Li!ListInit /\ Sc!SchemaInit
  /\ Re!PathInit
  /\ IF subject = "records" THEN Re!RecordInit
     ELSE record = <<>> /\ earlier = <<>> /\ log = <<>> /\ direct = <<>> /\ recipe = FALSE /\ writes = 0 /\ made = 0
  /\ IF subject = "types" THEN No!NominalInit ELSE types = <<>> /\ caches = <<>> /\ composed = {} /\ errors = <<>>
  /\ IF subject = "streams" THEN St!PullInit
     ELSE source = <<>> /\ pulled = 0 /\ stages = <<>> /\ ended = FALSE
  /\ MachineInit /\ (subject # "machine" => config.initial = "idle")
  /\ Ef!PickInit /\ RouterInit /\ ReleaseInit
  /\ IF subject \in {"lazies", "programs"} THEN Ef!LazyInit ELSE lazies = <<>> /\ answers = <<>> /\ read = [of |-> 0]
  /\ IF subject = "terminal" THEN Te!TerminalInit
     ELSE runtime = "node" /\ tty = FALSE /\ typed = <<>> /\ input = <<>> /\ raw = FALSE /\ stream = "paused" /\ reads = <<>> /\ calls = <<>>
  /\ NetInit /\ (subject # "net" => netRuntime = "node")
  /\ IF subject = "paths" THEN Pl!PathsInit ELSE Pl!ArgsInit
  /\ Cr!CryptoInit
  /\ PortsInit /\ (subject # "ports" => host = Host(FALSE, FALSE, FALSE, FALSE, FALSE, {}))
  /\ La!LambdaInit

UtilityNext ==
  \/ subject = "emitter" /\ EmitterNext
     /\ UNCHANGED <<cacheVars, cronVars, limiterVars, searchVars, mapVars, stableVars>>
  \/ subject = "cache" /\ CacheNext
     /\ UNCHANGED <<emitterVars, cronVars, limiterVars, searchVars, mapVars, stableVars>>
  \/ subject = "cron" /\ CronNext
     /\ UNCHANGED <<emitterVars, cacheVars, limiterVars, searchVars, mapVars, stableVars>>
  \/ subject = "limiter" /\ LimiterNext
     /\ UNCHANGED <<emitterVars, cacheVars, cronVars, searchVars, mapVars, stableVars>>
  \/ subject = "search" /\ SearchNext
     /\ UNCHANGED <<emitterVars, cacheVars, cronVars, limiterVars, mapVars, stableVars>>
  \/ subject = "map" /\ MapNext
     /\ UNCHANGED <<emitterVars, cacheVars, cronVars, limiterVars, searchVars, stableVars>>
  \/ subject = "vec" /\ StableNext
     /\ UNCHANGED <<emitterVars, cacheVars, cronVars, limiterVars, searchVars, mapVars>>

DataNext ==
  \/ subject = "sums" /\ Co!SumNext
     /\ UNCHANGED <<document, comparison, listVars, parsed, recordVars, accessorVars, nominalVars>>
  \/ subject = "optics" /\ Op!OpticNext
     /\ UNCHANGED <<sumVars, comparison, listVars, parsed, recordVars, accessorVars, nominalVars>>
  \/ subject = "orders" /\ Co!OrderNext
     /\ UNCHANGED <<sumVars, document, listVars, parsed, recordVars, accessorVars, nominalVars>>
  \/ subject = "lists" /\ Li!ListNext
     /\ UNCHANGED <<sumVars, document, comparison, parsed, recordVars, accessorVars, nominalVars>>
  \/ subject = "schemas" /\ Sc!SchemaNext
     /\ UNCHANGED <<sumVars, document, comparison, listVars, recordVars, accessorVars, nominalVars>>
  \/ subject = "records" /\ Re!RecordNext
     /\ UNCHANGED <<sumVars, document, comparison, listVars, parsed, accessorVars, nominalVars>>
  \/ subject = "accessors" /\ Re!PathNext
     /\ UNCHANGED <<sumVars, document, comparison, listVars, parsed, recordVars, nominalVars>>
  \/ subject = "types" /\ No!NominalNext
     /\ UNCHANGED <<sumVars, document, comparison, listVars, parsed, recordVars, accessorVars>>

ProgramNext ==
  \/ subject = "streams" /\ St!PullNext
     /\ UNCHANGED <<machineVars, lazyVars, picked, routerVars, releaseVars>>
  \/ subject = "machine" /\ MachineNext
     /\ UNCHANGED <<pullVars, lazyVars, picked, routerVars, releaseVars>>
  \/ subject = "lazies" /\ Ef!LazyNext
     /\ UNCHANGED <<pullVars, machineVars, picked, routerVars, releaseVars>>
  \/ subject = "programs" /\ Ef!PickNext
     /\ UNCHANGED <<pullVars, machineVars, lazyVars, routerVars, releaseVars>>
  \/ subject = "router" /\ RouterNext
     /\ UNCHANGED <<pullVars, machineVars, lazyVars, picked, releaseVars>>
  \/ subject = "release" /\ ReleaseNext
     /\ UNCHANGED <<pullVars, machineVars, lazyVars, picked, routerVars>>

RuntimeNext ==
  \/ subject = "terminal" /\ Te!TerminalNext
     /\ UNCHANGED <<netVars, paths, argv, cryptoVars, portVars, lambda>>
  \/ subject = "net" /\ NetNext
     /\ UNCHANGED <<terminalVars, paths, argv, cryptoVars, portVars, lambda>>
  \/ subject = "paths" /\ Pl!PathsNext
     /\ UNCHANGED <<terminalVars, netVars, argv, cryptoVars, portVars, lambda>>
  \/ subject = "args" /\ Pl!ArgsNext
     /\ UNCHANGED <<terminalVars, netVars, paths, cryptoVars, portVars, lambda>>
  \/ subject = "crypto" /\ Cr!CryptoNext
     /\ UNCHANGED <<terminalVars, netVars, paths, argv, portVars, lambda>>
  \/ subject = "ports" /\ PortsNext
     /\ UNCHANGED <<terminalVars, netVars, paths, argv, cryptoVars, lambda>>
  \/ subject = "lambda" /\ La!LambdaNext
     /\ UNCHANGED <<terminalVars, netVars, paths, argv, cryptoVars, portVars>>

Next ==
  /\ UNCHANGED subject
  /\ \/ UtilityNext /\ UNCHANGED <<dataGroup, programGroup, runtimeGroup>>
     \/ DataNext /\ UNCHANGED <<utilityGroup, programGroup, runtimeGroup>>
     \/ ProgramNext /\ UNCHANGED <<utilityGroup, dataGroup, runtimeGroup>>
     \/ RuntimeNext /\ UNCHANGED <<utilityGroup, dataGroup, programGroup>>

Spec == Init /\ [][Next]_vars
-----------------------------------------------------------------------------
\* The combinators of results, options, validations, optics, orders and lists obey the laws
\* that they are used by, deferred programs are run once and as they are composed, and the
\* first arm that fits is taken (Core.tla, Optics.tla, Lists.tla, Effects.tla).
LawsHold ==
  /\ subject = "sums" => Co!SumsAgree
  /\ subject = "optics" => Op!OpticsAreLawful
  /\ subject = "orders" => Co!OrdersAreLawful
  /\ subject = "lists" => Li!ListsAreFaithful
  /\ subject \in {"lazies", "programs"} => Ef!EffectsAreFaithful

\* What is parsed, written or named is what the schema, the recipe or the composer says, and a
\* map made of tries answers as a map does, whatever keys collide (Schema.tla, Records.tla,
\* Nominal.tla, HashMap.tla); the state of what is proved about is of its type.
DataIsFaithful ==
  /\ subject = "schemas" => Sc!SchemasAreFaithful
  /\ subject \in {"records", "accessors"} => Re!RecordsAreFaithful
  /\ subject = "types" => No!NominalIsFaithful
  /\ subject = "map" => TrieIsAMap /\ QuantifiersHold /\ EqualsIsEquality
  /\ subject = "emitter" => EmitterTypeOK
  /\ subject = "cache" => CacheTypeOK
  /\ subject = "cron" => CronTypeOK
  /\ subject = "limiter" => LimiterTypeOK

\* A pipeline of operators answers what they do one after the other (StreamPull.tla).
PipelineIsComposition == subject = "streams" => St!PipelineIsComposition

\* What is resolved by looking for it answers as the runtime found does, or says that there
\* is none; paths, arguments and keys are what they were made of, and what is typed or
\* answered arrives once and in its order (Ports.tla, Platform.tla, Crypto.tla, Terminal.tla,
\* ServerAdapters.tla).
RuntimeAnswers ==
  /\ subject = "ports" => PortsAnswer
  /\ subject = "paths" => Pl!PathsAgree
  /\ subject = "args" => Pl!ArgsAreTaken
  /\ subject = "crypto" => Cr!CryptoIsFaithful
  /\ subject = "terminal" => Te!TerminalIsFaithful
  /\ subject = "lambda" => La!ResultIsTheResponse

-----------------------------------------------------------------------------
\* What the comments promise and the code does not do.

\* produce() writes as assignments to the object would (Records.tla).
ProduceIsMutation == subject = "records" => Re!ProduceIsMutation

\* "Handles base64-encoded bodies from API Gateway binary payloads" (ServerAdapters.tla)
BodyArrives == subject = "lambda" => La!BodyArrives
=============================================================================
