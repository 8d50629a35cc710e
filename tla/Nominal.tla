------------------------------ MODULE Nominal ------------------------------
(* types/: the composers of runtime types with their caches (composers.ts),   *)
(* errors (error.ts) and durations (duration.ts).                             *)
EXTENDS Integers, FiniteSets, Sequences, SequencesExt, TLC

CONSTANTS Scalars,     \* the types that are there before, as "Str"
          MaxTypes,    \* bound on the types
          Durations,   \* milliseconds that are formatted
          MaxCauses    \* bound on the errors, one the cause of another

VARIABLES types,  \* the types: [composer, inner], with the types they are made of, by their number
          caches, \* of each composer but Tuple: what it has built, by the inner types
          composed, \* the calls of composers: [composer, inner, type]
          errors  \* the errors: [tag, metadata, cause]

nominalVars == <<types, caches, composed, errors>>

Unary == {"Vec", "Maybe"}
Binary == {"Pair", "Dict", "Either"}

\* Each composer has a cache of its own.
CacheOf(composer) == composer

\* makeMemo1() and makeMemo2(), a map of maps: the type that the cache has, else a new one.
Built(composer, inner) == {e \in caches[CacheOf(composer)] : e.inner = inner}

Compose(composer, inner) ==
  IF composer # "Tuple" /\ Built(composer, inner) # {}
  THEN /\ composed' = composed \cup {[composer |-> composer, inner |-> inner, type |-> (CHOOSE e \in Built(composer, inner) : TRUE).type]}
       /\ UNCHANGED <<types, caches, errors>>
  ELSE LET new == Len(types) + 1
       IN  /\ new <= MaxTypes
           /\ types' = Append(types, [composer |-> composer, inner |-> inner])
           /\ caches' = IF composer = "Tuple" THEN caches
                        ELSE [caches EXCEPT ![CacheOf(composer)] = @ \cup {[inner |-> inner, type |-> new]}]
           /\ composed' = composed \cup {[composer |-> composer, inner |-> inner, type |-> new]}
           /\ UNCHANGED errors

\* The tag of a type, which names the types that it is made of.
TagOf[t \in 1..MaxTypes] ==
  IF types[t].inner = <<>> THEN <<types[t].composer>>
  ELSE <<types[t].composer>> \o FlattenSeq([i \in DOMAIN types[t].inner |-> TagOf[types[t].inner[i]]])

-----------------------------------------------------------------------------
\* ErrType(tag)(message, options): with a key "cause", the options are its metadata and its
\* cause, otherwise all of it is metadata.
MakeError(tag, options) ==
  IF "cause" \in DOMAIN options
  THEN [tag |-> tag, metadata |-> IF "metadata" \in DOMAIN options THEN options.metadata ELSE <<>>, cause |-> options.cause]
  ELSE [tag |-> tag, metadata |-> options, cause |-> 0]

Fail(tag, options) ==
  /\ Len(errors) < MaxCauses
  /\ errors' = Append(errors, MakeError(tag, options))
  /\ UNCHANGED <<types, caches, composed>>

\* toJSON() and toString() of an error, each with its causes within: here, the tags in order.
ToJSON[e \in 0..MaxCauses] == IF e = 0 THEN <<>> ELSE <<[tag |-> errors[e].tag, metadata |-> errors[e].metadata]>> \o ToJSON[errors[e].cause]
ToText[e \in 0..MaxCauses] == IF e = 0 THEN <<>> ELSE <<errors[e].tag>> \o ToText[errors[e].cause]
-----------------------------------------------------------------------------
\* Duration: the factories, and the format: the parts that are not zero, from the largest.
Milliseconds(unit) == CASE unit = "d" -> 86400000 [] unit = "h" -> 3600000 [] unit = "m" -> 60000 [] unit = "s" -> 1000 [] unit = "ms" -> 1
Units == <<"d", "h", "m", "s", "ms">>
Abs(n) == IF n < 0 THEN -n ELSE n

Format(ms) ==
  LET larger(i) == Milliseconds(Units[i - 1])
      count(i) == IF i = 1 THEN Abs(ms) \div Milliseconds("d") ELSE (Abs(ms) % larger(i)) \div Milliseconds(Units[i])
      parts == SelectSeq([i \in 1..5 |-> <<count(i), Units[i]>>], LAMBDA p : p[1] > 0)
  IN  IF ms = 0 THEN [minus |-> FALSE, parts |-> <<<<0, "ms">>>>] ELSE [minus |-> ms < 0, parts |-> parts]

Add(a, b) == a + b
Subtract(a, b) == a - b
Multiply(d, factor) == d * factor
CompareDurations(a, b) == IF a - b < 0 THEN -1 ELSE IF a - b > 0 THEN 1 ELSE 0
-----------------------------------------------------------------------------
NominalInit ==
  /\ types = [i \in DOMAIN Scalars |-> [composer |-> Scalars[i], inner |-> <<>>]]
  /\ caches = [composer \in Unary \cup Binary |-> {}]
  /\ composed = {} /\ errors = <<>>

NominalNext ==
  \/ \E composer \in Unary, t \in DOMAIN types : Compose(composer, <<t>>)
  \/ \E composer \in Binary \cup {"Tuple"}, a, b \in DOMAIN types : Compose(composer, <<a, b>>)
  \/ \E tag \in {"NotFound", "DbError"}, cause \in 0..Len(errors), metadata \in {<<>>, [id |-> 7]} :
       \E options \in {[cause |-> cause], [cause |-> cause, metadata |-> metadata], metadata} : Fail(tag, options)

NominalSpec == NominalInit /\ [][NominalNext]_nominalVars
-----------------------------------------------------------------------------
\* composers.ts:24 "same inner(s) produce the same class", but of Tuple; and other inner types
\* or another composer give another.
TypesAreOne ==
  \A a, b \in composed :
    /\ a.composer # "Tuple" => (a.type = b.type <=> a.composer = b.composer /\ a.inner = b.inner)
    /\ a.type = b.type => a.composer = b.composer /\ a.inner = b.inner

\* The tag says of what a type is made.
TagsTell ==
  \A a \in composed : TagOf[a.type] = <<a.composer>> \o FlattenSeq([i \in DOMAIN a.inner |-> TagOf[a.inner[i]]])

\* error.ts:320: the JSON of an error holds each of its causes, with its metadata.
CausesAreKept ==
  \A e \in DOMAIN errors :
    /\ Len(ToJSON[e]) = Len(ToText[e])
    /\ \A i \in DOMAIN ToJSON[e] : \E c \in 1..e : errors[c].tag = ToText[e][i] /\ ToJSON[e][i].metadata = errors[c].metadata

\* duration.ts:93 "Format a duration as a human-readable string": the parts add up to the
\* duration, each is less than one of the next larger unit, and those of longer durations are
\* larger.
FormatAddsUp ==
  \A d \in Durations :
    LET f == Format(d)
        total == FoldLeft(LAMBDA n, p : Add(n, Multiply(Milliseconds(p[2]), p[1])), 0, f.parts)
    IN  /\ (IF f.minus THEN Subtract(0, total) ELSE total) = d
        /\ f.parts # <<>> /\ (f.minus <=> CompareDurations(d, 0) = -1)
        /\ \A i \in 1 .. Len(f.parts) - 1 :
             CompareDurations(Milliseconds(f.parts[i][2]), Multiply(Milliseconds(f.parts[i + 1][2]), f.parts[i + 1][1])) = 1

NominalIsFaithful == TypesAreOne /\ TagsTell /\ CausesAreKept /\ FormatAddsUp
=============================================================================
