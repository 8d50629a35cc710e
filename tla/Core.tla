-------------------------------- MODULE Core --------------------------------
(* core/result.ts, core/option.ts and core/validation.ts: the methods of the    *)
(* six variants, and the loops of collect(), traverse() and partition(), which  *)
(* run here side by side over the same results, one item at a time.  Then       *)
(* core/ord.ts and core/eq.ts: orders and equalities, and those made of them.   *)
(*                                                                              *)
(* A function that a method is given is a TLA+ function on values or errors;    *)
(* one that is called for its effect only is left out.                          *)
EXTENDS Integers, FiniteSets, Sequences, SequencesExt

CONSTANTS SumValues,
          SumErrors,
          MaxItems    \* bound on what the loops are given

VARIABLES items,     \* what the loops have been given
          collected, \* Result, Option and Validation: what the loop has by now
          parted     \* partition()'s two arrays

sumVars == <<items, collected, parted>>

OkOf(v) == [tag |-> "Ok", value |-> v]
ErrOf(e) == [tag |-> "Err", error |-> e]
SomeOf(v) == [tag |-> "Some", value |-> v]
NoneOf == [tag |-> "None"]
ValidOf(v) == [tag |-> "Valid", value |-> v]
InvalidOf(es) == [tag |-> "Invalid", errors |-> es]
Thrown == [tag |-> "thrown"]

ResultSet == {OkOf(v) : v \in SumValues} \cup {ErrOf(e) : e \in SumErrors}
-----------------------------------------------------------------------------
(* One method of each of the variants; "x" is its argument.                     *)

OkDoes(r, method, x) ==
  CASE method = "map" -> OkOf(x[r.value])
    [] method = "flatMap" -> x[r.value]
    [] method \in {"mapErr", "tap", "tapErr"} -> r
    [] method \in {"unwrap", "unwrapOr", "unwrapOrElse"} -> r.value
    [] method = "unwrapErr" -> Thrown
    [] method = "match" -> x.Ok[r.value]
    [] method = "toOption" -> SomeOf(r.value)
    [] method = "zip" -> IF x.tag = "Ok" THEN OkOf(<<r.value, x.value>>) ELSE x
    [] method = "ap" -> IF x.tag = "Ok" THEN OkOf(x.value[r.value]) ELSE x

ErrDoes(r, method, x) ==
  CASE method = "mapErr" -> ErrOf(x[r.error])
    [] method \in {"map", "flatMap", "tap", "tapErr", "zip", "ap"} -> r
    [] method = "unwrap" -> Thrown
    [] method = "unwrapOr" -> x
    [] method = "unwrapOrElse" -> x[r.error]
    [] method = "unwrapErr" -> r.error
    [] method = "match" -> x.Err[r.error]
    [] method = "toOption" -> NoneOf

SomeDoes(o, method, x) ==
  CASE method = "map" -> SomeOf(x[o.value])
    [] method = "flatMap" -> x[o.value]
    [] method = "filter" -> IF x[o.value] THEN o ELSE NoneOf
    [] method \in {"tap", "or"} -> o
    [] method \in {"unwrap", "unwrapOr", "unwrapOrElse"} -> o.value
    [] method = "match" -> x.Some[o.value]
    [] method = "toResult" -> OkOf(o.value)
    [] method = "zip" -> IF x.tag = "Some" THEN SomeOf(<<o.value, x.value>>) ELSE NoneOf
    [] method = "ap" -> IF x.tag = "Some" THEN SomeOf(x.value[o.value]) ELSE NoneOf

NoneDoes(method, x) ==
  CASE method \in {"map", "flatMap", "filter", "tap", "zip", "ap"} -> NoneOf
    [] method = "unwrap" -> Thrown
    [] method \in {"unwrapOr", "unwrapOrElse", "or"} -> x
    [] method = "match" -> x.None
    [] method = "toResult" -> ErrOf(x)

ValidDoes(r, method, x) ==
  CASE method = "map" -> ValidOf(x[r.value])
    [] method = "flatMap" -> x[r.value]
    [] method \in {"mapErr", "tap", "tapErr"} -> r
    [] method \in {"unwrap", "unwrapOr", "unwrapOrElse"} -> r.value
    [] method = "unwrapErr" -> Thrown
    [] method = "match" -> x.Valid[r.value]
    [] method = "toOption" -> SomeOf(r.value)
    [] method = "toResult" -> OkOf(r.value)
    [] method = "zip" -> IF x.tag = "Valid" THEN ValidOf(<<r.value, x.value>>) ELSE x
    [] method = "ap" -> IF x.tag = "Valid" THEN ValidOf(x.value[r.value]) ELSE x

\* Mutant of InvalidDoes: the first of two failures is enough.
InvalidDoesStop(r, method, x) ==
  CASE method \in {"map", "flatMap", "tap", "tapErr", "zip", "ap"} -> r
    [] method = "toResult" -> ErrOf(r.errors)
    [] method = "mapErr" -> InvalidOf([i \in DOMAIN r.errors |-> x[r.errors[i]]])
    [] method = "toOption" -> NoneOf

\* zip() and ap() are where errors add up.
InvalidDoes(r, method, x) ==
  CASE method = "mapErr" -> InvalidOf([i \in DOMAIN r.errors |-> x[r.errors[i]]])
    [] method \in {"map", "flatMap", "tap", "tapErr"} -> r
    [] method \in {"zip", "ap"} -> IF x.tag = "Invalid" THEN InvalidOf(r.errors \o x.errors) ELSE r
    [] method = "unwrap" -> Thrown
    [] method = "unwrapOr" -> x
    [] method = "unwrapOrElse" -> x[r.errors]
    [] method = "unwrapErr" -> r.errors
    [] method = "match" -> x.Invalid[r.errors]
    [] method = "toOption" -> NoneOf
    [] method = "toResult" -> ErrOf(r.errors)

Does(s, method, x) ==
  CASE s.tag = "Ok" -> OkDoes(s, method, x)
    [] s.tag = "Err" -> ErrDoes(s, method, x)
    [] s.tag = "Some" -> SomeDoes(s, method, x)
    [] s.tag = "None" -> NoneDoes(method, x)
    [] s.tag = "Valid" -> ValidDoes(s, method, x)
    [] s.tag = "Invalid" -> InvalidDoes(s, method, x)

\* fromResult()
FromResult(r) == IF r.tag = "Ok" THEN ValidOf(r.value) ELSE InvalidOf(<<r.error>>)
-----------------------------------------------------------------------------
(* The loops, between two items.                                                *)

SumInit ==
  /\ items = <<>>
  /\ collected = [result |-> OkOf(<<>>), option |-> SomeOf(<<>>), values |-> <<>>, errors |-> <<>>]
  /\ parted = [ok |-> <<>>, err |-> <<>>]

\* collectResults() and traverseResults() return at the first error.
CollectsResult(soFar, r) ==
  IF soFar.tag = "Err" THEN soFar ELSE IF r.tag = "Err" THEN r ELSE OkOf(Append(soFar.value, r.value))

\* collectOptions() and traverseOptions()
CollectsOption(soFar, o) ==
  IF soFar.tag = "None" \/ o.tag = "None" THEN NoneOf ELSE SomeOf(Append(soFar.value, o.value))

\* collectValidations() and traverseValidations() go on.
CollectsValidation(soFar, v) ==
  IF v.tag = "Valid" THEN [soFar EXCEPT !.values = Append(@, v.value)]
  ELSE [soFar EXCEPT !.errors = @ \o v.errors]

\* What collectValidations() returns.
Validated == IF collected.errors # <<>> THEN InvalidOf(collected.errors) ELSE ValidOf(collected.values)

\* partitionResults()
Parts(soFar, r) ==
  IF r.tag = "Ok" THEN [soFar EXCEPT !.ok = Append(@, r.value)] ELSE [soFar EXCEPT !.err = Append(@, r.error)]

Item(r) ==
  /\ Len(items) < MaxItems
  /\ items' = Append(items, r)
  /\ collected' = [CollectsValidation(collected, FromResult(r)) EXCEPT
                     !.result = CollectsResult(@, r),
                     !.option = CollectsOption(@, Does(r, "toOption", 0))]
  /\ parted' = Parts(parted, r)

SumNext == \E r \in ResultSet : Item(r)
SumSpec == SumInit /\ [][SumNext]_sumVars
-----------------------------------------------------------------------------
\* The loops are told apart by what they do after the first error: the three collect the
\* same values, a Result has the first of the errors that a Validation has all of, in
\* order, and an Option has none; partition() loses nothing of either.
LoopsAgree ==
  /\ collected.result = IF parted.err = <<>> THEN OkOf(parted.ok) ELSE ErrOf(parted.err[1])
  /\ collected.option = Does(collected.result, "toOption", 0)
  /\ Validated = IF parted.err = <<>> THEN ValidOf(parted.ok) ELSE InvalidOf(parted.err)
  /\ LET oks == SelectSeq(items, LAMBDA r : r.tag = "Ok")
         errs == SelectSeq(items, LAMBDA r : r.tag = "Err")
     IN  parted = [ok |-> [i \in DOMAIN oks |-> oks[i].value], err |-> [i \in DOMAIN errs |-> errs[i].error]]

Curried == [SumValues -> ResultSet]

\* What the methods have in common, for the items as they are: a Validation's errors add up
\* however zip() is nested; flatMap() is associative; ap() is what flatMap() and map() make
\* of the two, except that of two errors it has its own and not the function's.
MethodsAgree ==
  LET vs == [i \in DOMAIN items |-> FromResult(items[i])]
      all(v) == IF v.tag = "Invalid" THEN v.errors ELSE <<>>
  IN  /\ \A i, j, k \in DOMAIN items :
           LET left == Does(Does(vs[i], "zip", vs[j]), "zip", vs[k])
               right == Does(vs[i], "zip", Does(vs[j], "zip", vs[k]))
               applied == Does(vs[i], "ap", Does(vs[j], "map", [v \in SumValues |-> [u \in SumValues |-> v]]))
           IN  /\ all(left) = all(vs[i]) \o all(vs[j]) \o all(vs[k])
               /\ all(right) = all(left)
               /\ all(applied) = all(vs[i]) \o all(vs[j])
      /\ \A r \in {items[i] : i \in DOMAIN items}, f, g \in Curried :
           LET gf == [v \in SumValues |-> Does(f[v], "flatMap", g)]
           IN  /\ Does(Does(r, "flatMap", f), "flatMap", g) = Does(r, "flatMap", gf)
               /\ Does(FromResult(r), "toResult", 0) = Does(r, "mapErr", [e \in SumErrors |-> <<e>>])
               /\ r.tag = "Ok" => Does(Does(r, "toOption", 0), "toResult", 0) = r
      /\ \A i, j \in DOMAIN items :
           LET fn == Does(items[j], "map", [v \in SumValues |-> [u \in SumValues |-> <<v, u>>]])
               ap == Does(items[i], "ap", fn)
               monadic == IF fn.tag = "Err" THEN fn ELSE Does(items[i], "map", fn.value)
           IN  ap = IF items[i].tag = "Err" THEN items[i] ELSE monadic

SumsAgree == LoopsAgree /\ MethodsAgree
-----------------------------------------------------------------------------
(* Orders and equalities.  A number is [number |-> n], [infinite |-> 1 or -1]   *)
(* or [nan |-> TRUE]; strings are compared as they are, by their place in order.*)

CONSTANTS Compared,  \* what is compared
          Ords,      \* the orders
          Eqs        \* the equalities

VARIABLE comparison  \* an order or an equality and three values, if any yet

orderVars == <<comparison>>

Finite(n) == [number |-> n]
IsFinite(a) == DOMAIN a = {"number"}
IsNaN(a) == DOMAIN a = {"nan"}

\* a - b
Minus(a, b) ==
  CASE IsFinite(a) /\ IsFinite(b) -> Finite(a.number - b.number)
    [] IsNaN(a) \/ IsNaN(b) \/ (a = b) -> [nan |-> TRUE]
    [] ~IsFinite(a) -> a
    [] OTHER -> [infinite |-> -b.infinite]

Sign(n) ==
  CASE IsNaN(n) -> 0
    [] IsFinite(n) -> IF n.number < 0 THEN -1 ELSE IF n.number > 0 THEN 1 ELSE 0
    [] OTHER -> n.infinite

RECURSIVE Compares(_, _, _), Equals(_, _, _)

\* What fromCompare() is given by string, number and date, reverse() and contramap().
Comparing(o, a, b) ==
  CASE o.is = "string" -> Finite(IF a.number < b.number THEN -1 ELSE IF a.number > b.number THEN 1 ELSE 0)
    [] o.is = "number" -> Minus(a, b)
    [] o.is = "reverse" -> Finite(Compares(o.of, b, a))
    [] o.is = "contramap" -> Finite(Compares(o.of, a[o.field], b[o.field]))

\* compare() and equals() of fromCompare().
Compares(o, a, b) == Sign(Comparing(o, a, b))
OrdEquals(o, a, b) == Comparing(o, a, b) = Finite(0)

OrdMin(o, a, b) == IF Compares(o, a, b) <= 0 THEN a ELSE b
OrdMax(o, a, b) == IF Compares(o, a, b) >= 0 THEN a ELSE b

Clamp(o, low, high, v) ==
  IF Compares(o, v, low) < 0 THEN low ELSE IF Compares(o, v, high) > 0 THEN high ELSE v
Between(o, low, high, v) == Compares(o, v, low) >= 0 /\ Compares(o, v, high) <= 0

\* string, number, boolean and date by ===, struct() and contramap() of Eq.
Equals(e, a, b) ==
  CASE e.is = "same" -> a = b /\ ~IsNaN(a)
    [] e.is = "struct" -> \A key \in DOMAIN e.fields : Equals(e.fields[key], a[key], b[key])
    [] e.is = "contramap" -> Equals(e.of, a[e.field], b[e.field])

OrderInit == comparison = <<>>

OrderNext ==
  /\ comparison = <<>>
  /\ \E o \in Ords \cup Eqs : \E a, b, c \in Compared[o.on] :
       comparison' = <<[by |-> o, a |-> a, b |-> b, c |-> c]>>

OrderSpec == OrderInit /\ [][OrderNext]_orderVars

-----------------------------------------------------------------------------
IsLawful(o, a, b, c) ==
  /\ Compares(o, a, b) = -Compares(o, b, a)
  /\ Compares(o, a, b) <= 0 /\ Compares(o, b, c) <= 0 => Compares(o, a, c) <= 0
  /\ OrdMin(o, a, b) \in {a, b} /\ Compares(o, OrdMin(o, a, b), OrdMax(o, a, b)) <= 0
  /\ Compares(o, a, b) <= 0 => /\ Between(o, a, b, Clamp(o, a, b, c))
                               /\ Between(o, a, b, c) <=> Clamp(o, a, b, c) = c

IsEquality(e, a, b, c) ==
  /\ Equals(e, a, a)
  /\ Equals(e, a, b) <=> Equals(e, b, a)
  /\ Equals(e, a, b) /\ Equals(e, b, c) => Equals(e, a, c)

\* The orders that are made of orders are orders: antisymmetric, transitive, and min(),
\* max(), clamp() and between() agree about them; the equalities are equivalences.
OrdersAreLawful ==
  comparison # <<>> =>
  LET p == comparison[1]
  IN  IF p.by \in Ords THEN IsLawful(p.by, p.a, p.b, p.c) ELSE IsEquality(p.by, p.a, p.b, p.c)
=============================================================================
