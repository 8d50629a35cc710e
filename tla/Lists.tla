------------------------------- MODULE Lists -------------------------------
(* data/list.ts, data/non-empty-list.ts and data/constructors.ts: lists that *)
(* wrap an array, what their methods make of it, and the arrays that others  *)
(* hold as well.  An element is [key |-> number, tag |-> model value], so    *)
(* that what an order does not tell apart still is told apart.               *)
EXTENDS Values

CONSTANTS Elements,   \* what the lists hold
          MaxArrays,  \* arrays, in all
          MaxLength   \* of an array

VARIABLES
  arrays,  \* the arrays, by the order they were made in
  held,    \* those that a caller can write to
  lists,   \* [raw, nonEmpty, was]: the array, the brand, and what was in it when it was made
  wrote,   \* history: the arrays of lists that a caller has written to
  last     \* the last operation: its name, the list it was of, what it answered

listVars == <<arrays, held, lists, wrote, last>>

Idle == [op |-> "none", of |-> <<>>, args |-> <<>>, answer |-> <<>>]

ListInit == arrays = <<>> /\ held = {} /\ lists = {} /\ wrote = {} /\ last = Idle

Room == Len(arrays) < MaxArrays

\* A list of an array of its own.
Wraps(op, of, args, s, nonEmpty) ==
  /\ Room /\ Len(s) <= MaxLength
  /\ arrays' = Append(arrays, s)
  /\ lists' = lists \cup {[raw |-> Len(arrays) + 1, nonEmpty |-> nonEmpty, was |-> s]}
  /\ last' = [op |-> op, of |-> of, args |-> args, answer |-> s]
  /\ UNCHANGED <<held, wrote>>

\* One is enough to begin with.
NewArray(s) ==
  /\ arrays = <<>>
  /\ arrays' = <<s>>
  /\ held' = {1}
  /\ UNCHANGED <<lists, wrote, last>>

\* List(): the array itself, which is not frozen, is what is wrapped, and who had it has it.
NewList(a, nonEmpty) ==
  /\ a \in held
  /\ lists' = lists \cup {[raw |-> a, nonEmpty |-> nonEmpty, was |-> arrays[a]]}
  /\ last' = Idle
  /\ UNCHANGED <<arrays, held, wrote>>

\* NonEmptyList.from(): None if there is nothing in it.
NonEmptyFrom(a) == a \in held /\ arrays[a] # <<>> /\ NewList(a, TRUE)

CloneList(a) == a \in held /\ Wraps("clone", arrays[a], <<>>, arrays[a], FALSE)

CallerWrites(a, s) ==
  /\ a \in held
  /\ arrays' = [arrays EXCEPT ![a] = s]
  /\ wrote' = wrote \cup ({a} \cap {l.raw : l \in lists})
  /\ last' = Idle
  /\ UNCHANGED <<held, lists>>

ToMutable(l) ==
  /\ Room
  /\ arrays' = Append(arrays, arrays[l.raw])
  /\ held' = held \cup {Len(arrays) + 1}
  /\ last' = Idle
  /\ UNCHANGED <<lists, wrote>>

\* $raw and toJSON(): the array itself.
HandOut(l) ==
  /\ held' = held \cup {l.raw}
  /\ last' = Idle
  /\ UNCHANGED <<arrays, lists, wrote>>

Raw(l) == arrays[l.raw]

\* at(): counted from the end below 0.  A sequence of no element or one.
At(s, index) ==
  LET n == IF index < 0 THEN Len(s) + index ELSE index
  IN  IF n >= 0 /\ n < Len(s) THEN <<s[n + 1]>> ELSE <<>>

ListFirst(s) == IF Len(s) > 0 THEN <<s[1]>> ELSE <<>>
ListLast(s) == IF Len(s) > 0 THEN <<s[Len(s)]>> ELSE <<>>

\* c[index] = value: past the end it leaves holes, and below 0 it is no element.
Put(s, index, e) ==
  IF index < 0 THEN s
  ELSE [i \in 1..(IF index < Len(s) THEN Len(s) ELSE index + 1) |->
          IF i = index + 1 THEN e ELSE IF i <= Len(s) THEN s[i] ELSE Undefined]

\* What the callers' functions do, also to a hole.
Twice(e) == IF e = Undefined THEN <<>> ELSE <<e, e>>
Changed(e) == IF e = Undefined THEN e ELSE [e EXCEPT !.key = 3 - @]
Chosen(e) == e # Undefined /\ e.key = 1
SameKey(e, f) == IF e = Undefined \/ f = Undefined THEN e = f ELSE e.key = f.key
KeyOf(e) == IF e = Undefined THEN 3 ELSE e.key

Without(s, index) == SubSeq(s, 1, index) \o SubSeq(s, index + 2, Len(s))
Removed(s, index) == IF index + 1 \in DOMAIN s THEN Without(s, index) ELSE s

\* Array.prototype.slice(), and sort(), which is stable and puts undefined last without
\* asking the order.
Bound(n, s) == IF n < 0 THEN Max({Len(s) + n, 0}) ELSE Min({n, Len(s)})
Sliced(s, start, end) == SubSeq(s, Bound(start, s) + 1, Bound(end, s))
Sorted(s, dir) ==
  FoldLeft(LAMBDA acc, e : SelectSeq(acc, LAMBDA f : dir * (f.key - e.key) <= 0) \o <<e>>
                           \o SelectSeq(acc, LAMBDA f : dir * (f.key - e.key) > 0),
           <<>>, SelectSeq(s, LAMBDA e : e # Undefined))
    \o SelectSeq(s, LAMBDA e : e = Undefined)

\* The loop of uniqBy(): the first of those that are equal is kept.
Unique(s) == FoldLeft(LAMBDA kept, e : IF \E i \in DOMAIN kept : SameKey(e, kept[i]) THEN kept ELSE Append(kept, e), <<>>, s)

\* groupBy(): each under its key, in the order they were in.
Groups(s) == [key \in {KeyOf(s[i]) : i \in DOMAIN s} |-> SelectSeq(s, LAMBDA e : KeyOf(e) = key)]

ListAppend(l, e) == Wraps("append", Raw(l), <<e>>, Append(Raw(l), e), l.nonEmpty)
Prepend(l, e) == Wraps("prepend", Raw(l), <<e>>, <<e>> \o Raw(l), l.nonEmpty)
Concat(l, m) == Wraps("concat", Raw(l), Raw(m), Raw(l) \o Raw(m), l.nonEmpty)
SetAt(l, index, e) == Wraps("setAt", Raw(l), <<index, e>>, Put(Raw(l), index, e), l.nonEmpty)
UpdateAt(l, index) ==
  LET e == IF index + 1 \in DOMAIN Raw(l) THEN Raw(l)[index + 1] ELSE Undefined
  IN  Wraps("updateAt", Raw(l), <<index, Changed(e)>>, Put(Raw(l), index, Changed(e)), l.nonEmpty)
RemoveAtIndex(l, index) == ~l.nonEmpty /\ Wraps("removeAt", Raw(l), <<index>>, Removed(Raw(l), index), FALSE)
MapList(l) == Wraps("map", Raw(l), <<>>, [i \in DOMAIN Raw(l) |-> Changed(Raw(l)[i])], l.nonEmpty)
FlatMapList(l) == Wraps("flatMap", Raw(l), <<>>, FlattenSeq([i \in DOMAIN Raw(l) |-> Twice(Raw(l)[i])]), FALSE)

\* A non-empty list keeps raw[0] without a look at the length.
UniqBy(l) ==
  Wraps("uniqBy", Raw(l), <<>>, IF l.nonEmpty /\ Raw(l) = <<>> THEN <<Undefined>> ELSE Unique(Raw(l)), l.nonEmpty)

\* These may leave nothing: they make a list of a non-empty one.
FilterList(l) == Wraps("filter", Raw(l), <<>>, SelectSeq(Raw(l), Chosen), FALSE)
Slice(l, start, end) == Wraps("slice", Raw(l), <<start, end>>, Sliced(Raw(l), start, end), FALSE)

\* sortBy() and sortByOrd(), up or down.
SortBy(l, dir) == Wraps("sortBy", Raw(l), <<dir>>, Sorted(Raw(l), dir), l.nonEmpty)

\* toList(): the list that is inside.
ToList(l) ==
  /\ l.nonEmpty
  /\ lists' = lists \cup {[l EXCEPT !.nonEmpty = FALSE]}
  /\ last' = Idle
  /\ UNCHANGED <<arrays, held, wrote>>

GroupBy(l) ==
  /\ last' = [op |-> "groupBy", of |-> Raw(l), args |-> <<>>, answer |-> Groups(Raw(l))]
  /\ UNCHANGED <<arrays, held, lists, wrote>>

FirstArrays == UNION {[1..n -> Elements] : n \in 0..2}
Indices == -1..2

ListNext ==
  \/ \E s \in FirstArrays : NewArray(s)
  \/ \E a \in held : NewList(a, FALSE) \/ NonEmptyFrom(a) \/ CloneList(a)
  \/ \E a \in held : CallerWrites(a, <<>>)
  \/ \E l \in lists :
       \/ ToMutable(l) \/ HandOut(l) \/ MapList(l) \/ FlatMapList(l) \/ UniqBy(l) \/ FilterList(l) \/ ToList(l) \/ GroupBy(l)
       \/ \E e \in Elements : ListAppend(l, e) \/ Prepend(l, e)
       \/ \E m \in lists : Concat(l, m)
       \/ \E i \in Indices, e \in Elements : SetAt(l, i, e)
       \/ \E i \in Indices : UpdateAt(l, i) \/ RemoveAtIndex(l, i)
       \/ \E i, j \in Indices : Slice(l, i, j)
       \/ \E dir \in {1, -1} : SortBy(l, dir)

ListSpec == ListInit /\ [][ListNext]_listVars

-----------------------------------------------------------------------------
\* list.ts:6 "Immutable arrays with functional query and update methods": no operation on a
\* list, and nothing written to a copy of it or to another array, changes what a list holds.
\* Only a caller that writes to the very array does, one that made the list of it or was
\* handed it as $raw or JSON: it is not frozen.
ListsKeep == \A l \in lists : l.raw \notin wrote => Raw(l) = l.was

\* non-empty-list.ts: "An immutable list guaranteed to contain at least one element", as
\* long as nobody has written to the array of a list.
NonEmptyHolds == wrote = {} => \A l \in lists : l.nonEmpty => Raw(l) # <<>>

\* The methods agree about where elements are: what is put in is found there, sorting
\* keeps what an order does not tell apart in order, and uniqBy() and groupBy() lose no
\* key and no element.
MethodsAnswer ==
  LET s == last.of  t == last.answer
  IN  CASE last.op = "append" -> ListLast(t) = last.args /\ At(t, -1) = last.args
        [] last.op = "prepend" -> ListFirst(t) = last.args /\ At(t, 0) = last.args
        [] last.op \in {"setAt", "updateAt"} ->
             IF last.args[1] < 0 THEN t = s
             ELSE /\ At(t, last.args[1]) = <<last.args[2]>>
                  /\ \A i \in DOMAIN s : i # last.args[1] + 1 => t[i] = s[i]
        [] last.op = "removeAt" -> Len(t) = Len(s) - Cardinality({last.args[1] + 1} \cap DOMAIN s)
        [] last.op = "slice" -> t = <<>> \/ At(s, last.args[1]) \in {ListFirst(t), <<>>}
        [] last.op = "sortBy" ->
             /\ \A key \in {1, 2, 3} : SelectSeq(t, LAMBDA e : KeyOf(e) = key) = SelectSeq(s, LAMBDA e : KeyOf(e) = key)
             /\ \A i, j \in DOMAIN t : i < j /\ t[j] # Undefined =>
                  t[i] # Undefined /\ last.args[1] * (t[i].key - t[j].key) <= 0
        [] last.op = "uniqBy" ->
             /\ \A i, j \in DOMAIN t : SameKey(t[i], t[j]) => i = j
             /\ \A i \in DOMAIN s : \E j \in DOMAIN t : SameKey(s[i], t[j])
        [] last.op = "groupBy" -> \A i \in DOMAIN s : \E j \in DOMAIN t[KeyOf(s[i])] : t[KeyOf(s[i])][j] = s[i]
        [] OTHER -> TRUE

ListsAreFaithful == ListsKeep /\ NonEmptyHolds /\ MethodsAnswer
=============================================================================
