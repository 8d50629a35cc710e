------------------------------ MODULE Effects ------------------------------
(* Computations that are run later, and what picks one: async/lazy.ts,        *)
(* core/state.ts, async/env.ts, core/match.ts and data/adt.ts.                *)
(*                                                                            *)
(* The functions of map(), flatMap() and tap() are Succ, a program for each   *)
(* value, and the list of what they were called with.                         *)
EXTENDS Integers, FiniteSets, Sequences, SequencesExt

CONSTANTS Shapes,   \* the lazies: [kind, of, then] by number
          MaxRuns,  \* bound on the thunks that return
          Programs, \* what is run with a state, or with an environment
          Numbers,  \* how many states, environments and values there are
          Variants, \* the variants of the ADT, with the keys of their payload
          Arms,     \* the arms that may be given to a Match
          MaxArms

VARIABLES lazies,  \* each Lazy: its value, and what is left of it
          answers, \* what it has ever answered
          read,    \* the last read: of which, what there was before, and the answer
          picked   \* what is run: a program, or a Match of some value with its arms

lazyVars == <<lazies, answers, read>>

\* An answer is the sequence of one value, or that none came.
Thrown == <<>>
States == 0 .. Numbers - 1
Succ(n) == (n + 1) % Numbers
-----------------------------------------------------------------------------
(* Lazy.  A thunk that returns answers with a number that is new, so that two   *)
(* runs of it tell.                                                             *)

Pending == [value |-> 0, thunk |-> TRUE, evaluated |-> FALSE, disposed |-> FALSE]
Disposed(lazy) == [lazy EXCEPT !.value = 0, !.thunk = FALSE, !.disposed = TRUE]
Evaluated(lazy, v) == [lazy EXCEPT !.value = v, !.thunk = FALSE, !.evaluated = TRUE]

\* The value getter: what is left of the lazies, and the answer.  how is what the thunk of
\* a base does: it may dispose the Lazy that is being read.
RECURSIVE ValueOf(_, _, _, _)
ValueOf(ls, l, how, new) ==
  IF ls[l].disposed \/ (~ls[l].evaluated /\ ~ls[l].thunk) THEN [lazies |-> ls, answer |-> Thrown]
  ELSE IF ls[l].evaluated THEN [lazies |-> ls, answer |-> <<ls[l].value>>]
  ELSE LET shape == Shapes[l]
           base == IF shape.kind = "base"
                   THEN [lazies |-> IF how = "disposes" THEN [ls EXCEPT ![l] = Disposed(@)] ELSE ls,
                         answer |-> IF how = "throws" THEN Thrown ELSE <<new>>]
                   ELSE ValueOf(ls, shape.of, how, new)
           \* fn(this.value) of map(), and fn(this.value).value of flatMap()
           thunk == IF shape.kind = "flatMap" /\ base.answer # Thrown
                    THEN ValueOf(base.lazies, shape.then, how, new)
                    ELSE IF shape.kind = "map" /\ base.answer # Thrown
                    THEN [base EXCEPT !.answer = <<10 + @[1]>>]
                    ELSE base
       IN  IF thunk.answer = Thrown THEN thunk
           ELSE [thunk EXCEPT !.lazies[l] = Evaluated(@, thunk.answer[1])]

\* unwrapOr(), toOption() and toResult() catch what is thrown.
Forms == {"value", "unwrapOr", "toOption", "toResult"}
InForm(form, answer) ==
  CASE form = "value" -> answer
    [] form = "unwrapOr" -> IF answer = Thrown THEN <<"fallback">> ELSE answer
    [] form = "toOption" -> IF answer = Thrown THEN <<"None">> ELSE <<"Some", answer[1]>>
    [] form = "toResult" -> IF answer = Thrown THEN <<"Err">> ELSE <<"Ok", answer[1]>>

Read(l, how, form) ==
  LET new == 1 + Cardinality(UNION {answers[m] : m \in DOMAIN Shapes})
      r == ValueOf(lazies, l, how, new)
  IN  /\ new <= MaxRuns
      /\ lazies' = r.lazies
      /\ answers' = IF r.answer = Thrown THEN answers ELSE [answers EXCEPT ![l] = @ \cup {r.answer[1]}]
      /\ read' = [of |-> l, before |-> lazies, answer |-> InForm(form, r.answer), form |-> form]

Dispose(l) ==
  /\ lazies' = [lazies EXCEPT ![l] = Disposed(@)]
  /\ UNCHANGED <<answers, read>>
-----------------------------------------------------------------------------
(* State and Env.  One run of a program: its value, or its error, the state it  *)
(* leaves, and what tap() has been called with.  An environment is a state that *)
(* only provide() changes, for what is inside.                                  *)

RECURSIVE RunState(_, _)
RunState(p, s) ==
  CASE p.op = "of" -> [value |-> p.value, state |-> s, taps |-> <<>>]
    [] p.op = "get" -> [value |-> s, state |-> s, taps |-> <<>>]
    [] p.op = "set" -> [value |-> 0, state |-> p.value, taps |-> <<>>]
    [] p.op = "modify" -> [value |-> 0, state |-> Succ(s), taps |-> <<>>]
    [] p.op = "map" -> LET r == RunState(p.of, s) IN [r EXCEPT !.value = Succ(@)]
    [] p.op = "flatMap" ->
         LET r == RunState(p.of, s)
             next == RunState(p.then[r.value], r.state)
         IN  [next EXCEPT !.taps = r.taps \o @]
    [] p.op = "tap" -> LET r == RunState(p.of, s) IN [r EXCEPT !.taps = Append(@, r.value)]

Eval(p, s) == RunState(p, s).value
Exec(p, s) == RunState(p, s).state

\* What run() settles with: Ok, Err, the plain object that mapErr() makes for an Err and that
\* has no methods ("bare"), or a rejection.
Outcome(is, value) == [value |-> value, is |-> is, taps |-> <<>>]

RECURSIVE RunEnv(_, _)
RunEnv(p, env) ==
  CASE p.op = "of" -> Outcome("Ok", p.value)
    [] p.op = "get" -> Outcome("Ok", env)
    [] p.op = "fails" -> Outcome("Err", env)
    [] p.op = "map" -> LET r == RunEnv(p.of, env) IN IF r.is = "Ok" THEN [r EXCEPT !.value = Succ(@)] ELSE r
    [] p.op = "mapErr" ->
         LET r == RunEnv(p.of, env)
         IN  (CASE r.is \in {"Ok", "rejects"} -> r
                [] r.is = "Err" -> [r EXCEPT !.value = Succ(@), !.is = "bare"]
                \* r.unwrapErr is undefined
                [] r.is = "bare" -> [r EXCEPT !.value = 0, !.is = "rejects"])
    [] p.op = "flatMap" ->
         LET r == RunEnv(p.of, env)
             next == RunEnv(p.then[r.value], env)
         IN  IF r.is = "Ok" THEN [next EXCEPT !.taps = r.taps \o @] ELSE r
    [] p.op = "tap" -> LET r == RunEnv(p.of, env) IN IF r.is = "Ok" THEN [r EXCEPT !.taps = Append(@, r.value)] ELSE r
    [] p.op = "provide" -> RunEnv(p.of, Succ(env))

OfState == {"of", "get", "set", "modify", "map", "flatMap", "tap"}
OfEnv == {"of", "get", "fails", "map", "mapErr", "flatMap", "tap", "provide"}

RECURSIVE Within(_, _)
Within(p, ops) ==
  /\ p.op \in ops
  /\ "of" \in DOMAIN p => Within(p.of, ops)
  /\ "then" \in DOMAIN p => \A v \in DOMAIN p.then : Within(p.then[v], ops)
-----------------------------------------------------------------------------
(* ADT, Match and pipe.                                                         *)

\* Object.assign({ tag }, payload): a payload that has a tag of its own overwrites it.
Construct(name, payload) == payload @@ [tag |-> name]
Is(name, value) == "tag" \in DOMAIN value /\ value.tag = name

Meets(value, arm) == IF arm.kind = "tag" THEN Is(arm.tag, value) ELSE DOMAIN value \cap arm.has # {}

\* The loop of tryMatch(): the first arm that the value meets, if any.
TryMatch(value, arms) ==
  LET hits == {i \in DOMAIN arms : Meets(value, arms[i])}
  IN  IF hits = {} THEN <<>> ELSE <<arms[Min(hits)]>>

With(arms, arm) == Append(arms, arm)
Otherwise(value, arms, fallback) == LET m == TryMatch(value, arms) IN IF m = <<>> THEN fallback ELSE m[1]
Exhaustive(value, arms) == LET m == TryMatch(value, arms) IN IF m = <<>> THEN Thrown ELSE m

Instances == {Construct(name, [key \in Variants[name] |-> "p"]) : name \in DOMAIN Variants}
-----------------------------------------------------------------------------
LazyInit ==
  /\ lazies = [l \in DOMAIN Shapes |-> Pending]
  /\ answers = [l \in DOMAIN Shapes |-> {}]
  /\ read = [of |-> 0]

LazyNext ==
  \E l \in DOMAIN Shapes :
    Dispose(l) \/ \E how \in {"returns", "throws", "disposes"}, form \in Forms : Read(l, how, form)

PickInit == picked = [nothing |-> TRUE]

PickProgram(p, k) == "nothing" \in DOMAIN picked /\ picked' = [program |-> p, then |-> k]
PickValue(v) == "nothing" \in DOMAIN picked /\ picked' = [value |-> v, arms |-> <<>>]

GiveArm(arm) ==
  /\ "arms" \in DOMAIN picked /\ Len(picked.arms) < MaxArms
  /\ picked' = [picked EXCEPT !.arms = With(@, arm)]

PickNext ==
  \/ \E p, k \in Programs : PickProgram(p, k)
  \/ \E v \in Instances : PickValue(v)
  \/ \E arm \in Arms : GiveArm(arm)
-----------------------------------------------------------------------------
\* l has to be read to read m.
RECURSIVE Needs(_, _, _)
Needs(ls, m, l) ==
  \/ m = l
  \/ /\ ~ls[m].evaluated /\ ~ls[m].disposed
     /\ \/ Shapes[m].kind # "base" /\ Needs(ls, Shapes[m].of, l)
        \/ Shapes[m].kind = "flatMap" /\ Needs(ls, Shapes[m].then, l)

\* "evaluating the thunk on first call" and "After disposal, .value throws and derived Lazy
\* instances will also fail": whatever is read, disposed and thrown in between, a Lazy never
\* has two answers, and there is none of one that needs a disposed one.
LazyIsSteady ==
  /\ \A l \in DOMAIN Shapes : Cardinality(answers[l]) <= 1
  /\ read.of # 0 /\ (\E l \in DOMAIN Shapes : Needs(read.before, read.of, l) /\ read.before[l].disposed)
       => read.answer = InForm(read.form, Thrown)

FlatMap(p, k) == [op |-> "flatMap", of |-> p, then |-> k]
Of(v) == [op |-> "of", value |-> v]
MapErr(p) == [op |-> "mapErr", of |-> p]
Always(q) == [v \in States |-> q]

\* A program may be taken apart anywhere: what flatMap() is nested in does not matter, map()
\* is a flatMap() to what of() makes, and what a step reads is what the step before left.
\* An environment is the same for all steps, and provide() may go inside.  An Err may pass
\* one mapErr() only: what comes out has no methods, and whatever is done in between, the
\* next mapErr() makes run() reject.
ProgramsCompose ==
  "program" \in DOMAIN picked =>
    \A s \in States :
    LET p == picked.program
        k == [v \in States |-> FlatMap(picked.then, [w \in States |-> Of(v)])]
        h == [v \in States |-> [op |-> "tap", of |-> FlatMap(p, Always(Of(v)))]]
        nested == FlatMap(FlatMap(p, k), h)
        flat == FlatMap(p, [v \in States |-> FlatMap(k[v], h)])
        mapped == [op |-> "map", of |-> p]
        afterwards == FlatMap(p, [v \in States |-> Of(Succ(v))])
    IN  /\ Within(p, OfState) /\ Within(picked.then, OfState) =>
             /\ RunState(nested, s) = RunState(flat, s)
             /\ RunState(mapped, s) = RunState(afterwards, s)
             /\ Eval(FlatMap(p, Always([op |-> "get"])), s) = Exec(p, s)
             /\ Exec(FlatMap([op |-> "set", value |-> 0], Always(p)), s) = Exec(p, 0)
        /\ Within(p, OfEnv) /\ Within(picked.then, OfEnv) =>
             /\ RunEnv(nested, s) = RunEnv(flat, s)
             /\ RunEnv(mapped, s) = RunEnv(afterwards, s)
             /\ RunEnv(p, s).is = "Ok" => RunEnv(FlatMap(p, Always([op |-> "get"])), s).value = s
             /\ RunEnv([op |-> "provide", of |-> FlatMap(p, k)], s)
                  = RunEnv(FlatMap([op |-> "provide", of |-> p], [v \in States |-> [op |-> "provide", of |-> k[v]]]), s)
             /\ RunEnv(p, s).is = "Err" => RunEnv(FlatMap(MapErr(p), k), s).is = "bare"
                                           /\ RunEnv(MapErr(FlatMap(MapErr(p), k)), s).is = "rejects"
             /\ RunEnv(p, s).is \in {"Ok", "Err"} => RunEnv(MapErr(p), s).is # "rejects"

\* The arm that is picked is the first that fits, so that what is added later changes
\* nothing, and an arm for each variant is exhaustive: a value is one variant only.
FirstArmFits ==
  "arms" \in DOMAIN picked =>
    LET v == picked.value
        arms == picked.arms
        m == TryMatch(v, arms)
    IN  /\ m # <<>> => \A arm \in Arms : Otherwise(v, With(arms, arm), "fallback") = m[1]
        /\ m # <<>> => \A i \in DOMAIN arms : Meets(v, arms[i]) => \E j \in 1..i : arms[j] = m[1]
        /\ (\A name \in DOMAIN Variants : \E i \in DOMAIN arms : arms[i] = [kind |-> "tag", tag |-> name])
             => Exhaustive(v, arms) # Thrown
        /\ Cardinality({name \in DOMAIN Variants : Is(name, v)}) = 1

\* What the instance checks of all of this.
EffectsAreFaithful == LazyIsSteady /\ ProgramsCompose /\ FirstArmFits
=============================================================================
