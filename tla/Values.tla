------------------------------- MODULE Values -------------------------------
(* The values of JavaScript, as the data modules take and return them: a     *)
(* record of one field, which is their type.  Strings and numbers are what   *)
(* the instance makes of them; an object is a function of its keys.          *)
EXTENDS Integers, SequencesExt

Undefined == [undefined |-> TRUE]
Null == [null |-> TRUE]
Str(s) == [string |-> s]
Num(n) == [number |-> n]
Bool(b) == [boolean |-> b]
List(s) == [list |-> s]
Object(f) == [object |-> f]

IsA(v, type) == DOMAIN v = {type}

\* The keys of a list, as strings, and what the keys of an object are of.
Position(i) == <<"0", "1", "2", "3", "4", "5">>[i]
IsIndex(key) == key \in {Position(i) : i \in 1..6}
IndexOf(key) == CHOOSE i \in 1..6 : Position(i) = key
Positions(s) == [i \in DOMAIN s |-> Position(i)]

\* Object.keys(), as a set, and the object that spreading a value makes.
Keys(v) ==
  CASE IsA(v, "object") -> DOMAIN v.object
    [] IsA(v, "list") -> ToSet(Positions(v.list))
    [] IsA(v, "string") -> {Position(i) : i \in 1..Len(v.string)}
    [] OTHER -> {}

\* v[key] of what has keys.
Item(v, key) ==
  IF key \notin Keys(v) THEN Undefined
  ELSE IF IsA(v, "object") THEN v.object[key]
  ELSE IF IsA(v, "list") THEN v.list[IndexOf(key)]
  ELSE Str(key)

Spread(v) == [key \in Keys(v) |-> Item(v, key)]
=============================================================================
