------------------------------- MODULE HashMap -------------------------------
(* HashMap of data/hash-map.ts: a trie over the chunks of a key's hash.  Two    *)
(* maps, so that one can be merged into the other and compared with it.         *)
(*                                                                              *)
(* A bitmap is the set of its bits, an entry carries its key's hash by HashOf.  *)
(* Keys are compared with ===, by which NaN is not even itself.                 *)
EXTENDS Integers, FiniteSets, SequencesExt

CONSTANTS MapKeys,    \* keys that equal themselves
          NaN,        \* the key that does not
          MapValues,
          HashOf,     \* hashKey(): [MapKeys \cup {NaN} -> Nat]
          Width,      \* branches of a node, 32 in the code
          Levels,     \* chunks of a hash, 7 in the code
          MaxNaNs     \* bound on entries of NaN

AnyKeys == MapKeys \cup {NaN}

ASSUME HashMapAssumption ==
  /\ IsFiniteSet(MapKeys) /\ NaN \notin MapKeys
  /\ Width \in Nat \ {0, 1} /\ {Levels, MaxNaNs} \subseteq Nat
  /\ HashOf \in [AnyKeys -> 0..(Width^Levels - 1)]

VARIABLES tries,     \* the two HashMapImpls: root and size
          contents,  \* history: what the calls say is in them, for keys but NaN
          nans       \* history: the values set for NaN

mapVars == <<tries, contents, nans>>

Maps == {1, 2}
\* e.key === key
Same(a, b) == a = b /\ a # NaN
\* A small bag of values, so that the order in which a trie is walked is open.
CountIn(s, x) == Cardinality({i \in DOMAIN s : s[i] = x})
-----------------------------------------------------------------------------
Undefined == [kind |-> "undefined"]
Leaf(entries) == [kind |-> "leaf", entries |-> entries]
Internal(bitmap, children) == [kind |-> "internal", bitmap |-> bitmap, children |-> children]
NewEntry(k, v) == [key |-> k, value |-> v]

\* index(): the chunk of a hash that a level looks at.
Chunk(hash, level) == (hash \div Width^level) % Width
\* popcount(), as a position in the 1-based sequence of children.
Child(bitmap, pos) == Cardinality({b \in bitmap : b < pos}) + 1

\* The place of a key in a leaf, 0 if it has none.
Place(entries, k) == SelectInSeq(entries, LAMBDA e : Same(e.key, k))

RECURSIVE TrieGet(_, _, _)
TrieGet(node, k, level) ==
  CASE node.kind = "undefined" -> {}
    [] node.kind = "leaf" -> LET i == Place(node.entries, k)
                             IN  IF i = 0 THEN {} ELSE {node.entries[i].value}
    [] node.kind = "internal" ->
         LET pos == Chunk(HashOf[k], level)
         IN  IF pos \notin node.bitmap THEN {}
             ELSE TrieGet(node.children[Child(node.bitmap, pos)], k, level + 1)

RECURSIVE TrieSet(_, _, _)
\* A leaf of another hash is split: its entries, then the new one, go into an
\* empty internal node of the same level.
TrieSetLeaf(entries, e, level) ==
  LET i == Place(entries, e.key)
      put(r, x) == TrieSet(r.node, x, level)
  IN  CASE i # 0 -> [node |-> Leaf(ReplaceAt(entries, i, e)), added |-> FALSE]
        [] i = 0 /\ HashOf[entries[1].key] = HashOf[e.key] ->
             [node |-> Leaf(Append(entries, e)), added |-> TRUE]
        [] OTHER -> FoldLeft(put, [node |-> Internal({}, <<>>), added |-> TRUE], Append(entries, e))

TrieSet(node, e, level) ==
  CASE node.kind = "undefined" -> [node |-> Leaf(<<e>>), added |-> TRUE]
    [] node.kind = "leaf" -> TrieSetLeaf(node.entries, e, level)
    [] node.kind = "internal" ->
         LET pos == Chunk(HashOf[e.key], level)
             idx == Child(node.bitmap, pos)
             sub == TrieSet(node.children[idx], e, level + 1)
         IN  IF pos \notin node.bitmap
             THEN [node |-> Internal(node.bitmap \cup {pos}, InsertAt(node.children, idx, Leaf(<<e>>))),
                   added |-> TRUE]
             ELSE [node |-> Internal(node.bitmap, ReplaceAt(node.children, idx, sub.node)),
                   added |-> sub.added]

RECURSIVE TrieDelete(_, _, _)
\* A node whose last child goes goes too; one with a single child left stays.
TrieDelete(node, k, level) ==
  LET kept == [node |-> node, removed |-> FALSE]
  IN  CASE node.kind = "undefined" -> kept
        [] node.kind = "leaf" ->
             LET i == Place(node.entries, k)
             IN  IF i = 0 THEN kept
                 ELSE [node |-> IF Len(node.entries) = 1 THEN Undefined
                                ELSE Leaf(RemoveAt(node.entries, i)), removed |-> TRUE]
        [] node.kind = "internal" ->
             LET pos == Chunk(HashOf[k], level)
                 idx == Child(node.bitmap, pos)
                 sub == TrieDelete(node.children[idx], k, level + 1)
             IN  CASE pos \notin node.bitmap -> kept
                   [] pos \in node.bitmap /\ sub.removed /\ sub.node = Undefined ->
                        [node |-> IF Len(node.children) = 1 THEN Undefined
                                  ELSE Internal(node.bitmap \ {pos}, RemoveAt(node.children, idx)),
                         removed |-> TRUE]
                   [] OTHER -> [node |-> Internal(node.bitmap, ReplaceAt(node.children, idx, sub.node)),
                                removed |-> sub.removed]

RECURSIVE TrieEntries(_)
TrieEntries(node) ==
  CASE node.kind = "undefined" -> <<>>
    [] node.kind = "leaf" -> node.entries
    [] node.kind = "internal" -> FlattenSeq([i \in DOMAIN node.children |-> TrieEntries(node.children[i])])
-----------------------------------------------------------------------------
(* The methods of HashMapImpl.                                                  *)

EmptyMap == [root |-> Undefined, size |-> 0]
MapEntries(m) == TrieEntries(m.root)

MapSet(m, e) ==
  LET r == TrieSet(m.root, e, 0)
  IN  [root |-> r.node, size |-> m.size + (IF r.added THEN 1 ELSE 0)]
MapDelete(m, k) ==
  LET r == TrieDelete(m.root, k, 0)
  IN  IF r.removed THEN [root |-> r.node, size |-> m.size - 1] ELSE m
\* of(), fromMap(), fromObject(), merge(), map() and filter() set one by one.
SetAll(m, entries) == FoldLeft(MapSet, m, entries)
\* filter(), find(), every() and some() with a predicate that holds of the values in vs.
MapFilter(m, vs) == SetAll(EmptyMap, SelectSeq(MapEntries(m), LAMBDA e : e.value \in vs))
\* map() with a function that gives every value v.
MapAll(m, v) == SetAll(EmptyMap, [i \in DOMAIN MapEntries(m) |-> NewEntry(MapEntries(m)[i].key, v)])

\* They end at the first entry that decides.
MapFind(m, vs) == SelectInSeq(MapEntries(m), LAMBDA e : e.value \in vs)
MapSome(m, vs) == MapFind(m, vs) # 0
MapEvery(m, vs) == MapFind(m, MapValues \ vs) = 0
\* equals() of two HashMaps that are not one object.
MapEquals(m, o) ==
  /\ m.size = o.size
  /\ \A i \in DOMAIN MapEntries(m) :
       LET e == MapEntries(m)[i] IN TrieGet(o.root, e.key, 0) = {e.value}
-----------------------------------------------------------------------------
MapInit ==
  /\ tries = [x \in Maps |-> EmptyMap]
  /\ contents = [x \in Maps |-> <<>>]
  /\ nans = [x \in Maps |-> <<>>]

Becomes(x, m, c, n) ==
  /\ Len(n) + Len(nans[3 - x]) <= MaxNaNs
  /\ tries' = [tries EXCEPT ![x] = m]
  /\ contents' = [contents EXCEPT ![x] = c]
  /\ nans' = [nans EXCEPT ![x] = n]

SetKey(x, k, v) ==
  Becomes(x, MapSet(tries[x], NewEntry(k, v)),
          IF k = NaN THEN contents[x] ELSE (k :> v) @@ contents[x],
          IF k = NaN THEN Append(nans[x], v) ELSE nans[x])

DeleteKey(x, k) ==
  Becomes(x, MapDelete(tries[x], k), Restrict(contents[x], DOMAIN contents[x] \ {k}), nans[x])

MergeOther(x) ==
  LET o == 3 - x
  IN  Becomes(x, SetAll(tries[x], MapEntries(tries[o])), contents[o] @@ contents[x], nans[x] \o nans[o])

FilterValue(x, v) ==
  Becomes(x, MapFilter(tries[x], {v}),
          Restrict(contents[x], {k \in DOMAIN contents[x] : contents[x][k] = v}),
          SelectSeq(nans[x], LAMBDA w : w = v))

MapToValue(x, v) ==
  Becomes(x, MapAll(tries[x], v), [k \in DOMAIN contents[x] |-> v], [i \in DOMAIN nans[x] |-> v])

\* Either map is built up and taken down; the first also takes in the second.
MapNext ==
  \/ \E x \in Maps, k \in AnyKeys : DeleteKey(x, k) \/ \E v \in MapValues : SetKey(x, k, v)
  \/ MergeOther(1)
  \/ \E v \in MapValues : FilterValue(1, v) \/ MapToValue(1, v)

MapSpec == MapInit /\ [][MapNext]_mapVars
-----------------------------------------------------------------------------
\* some() and every() are about what is in the map, NaN included.
QuantifiersHold ==
  \A x \in Maps, v \in MapValues :
    LET values == {contents[x][k] : k \in DOMAIN contents[x]} \cup ToSet(nans[x])
    IN  (MapSome(tries[x], {v}) <=> v \in values) /\ (MapEvery(tries[x], {v}) <=> values \subseteq {v})

\* The trie is the function it stands for, whatever the hashes: every key finds
\* its own value, the walk meets every entry once, and size counts them.  Only
\* NaN is never found and never replaced.
TrieIsAMap ==
  \A x \in Maps :
    LET entries == MapEntries(tries[x])
    IN  /\ \A k \in AnyKeys : TrieGet(tries[x].root, k, 0) =
                                IF k \in DOMAIN contents[x] THEN {contents[x][k]} ELSE {}
        /\ tries[x].size = Len(entries)
        /\ Len(entries) = Cardinality(DOMAIN contents[x]) + Len(nans[x])
        /\ \A k \in DOMAIN contents[x] : CountIn(entries, NewEntry(k, contents[x][k])) = 1
        /\ \A v \in MapValues : CountIn(entries, NewEntry(NaN, v)) = CountIn(nans[x], v)

\* equals() compares what the maps hold, not the shape their tries got from the
\* order of the calls; with NaN in it a map equals nothing.
EqualsIsEquality ==
  MapEquals(tries[1], tries[2]) <=>
     contents[1] = contents[2] /\ nans[1] = <<>> /\ nans[2] = <<>>
=============================================================================
