-------------------------------- MODULE Cache --------------------------------
(***************************************************************************)
(* src/async/cache.ts: entries that expire, evicted in the order of the Map *)
(* that holds them, and getOrElse(), which computes what it misses.  What  *)
(* the values are makes no difference to what the cache keeps.             *)
(***************************************************************************)
EXTENDS Integers, Sequences, SequencesExt, FiniteSets

CONSTANTS CacheKeys,
          MaxSize,     \* options.maxSize
          TTLs,        \* the times to live that are asked for
          Lookups,     \* calls of getOrElse() that may wait for their tasks at a time
          MaxNow       \* bound on the clock

ASSUME CacheAssumption == MaxSize \in Nat /\ TTLs \subseteq Nat /\ MaxNow \in Nat

VARIABLES store,      \* the Map: <<key, expiresAt>>, as it iterates
          now,        \* Date.now()
          computing,  \* the keys whose tasks run, by the call of getOrElse()
          uses        \* history: the keys, the one inserted or read last at the end

cacheVars == <<store, now, computing, uses>>

KeysOf(map) == {e[1] : e \in Range(map)}
Stored == KeysOf(store)
EntryOf(k) == CHOOSE e \in Range(store) : e[1] = k
IsExpired(e) == now > e[2]
Live(k) == k \in Stored /\ ~IsExpired(EntryOf(k))

\* The elements of a sequence that are in a set, in their order.
Filtered(seq, set) ==
  LET kept[n \in 0..Len(seq)] ==
        IF n = 0 THEN <<>> ELSE IF seq[n] \in set THEN Append(kept[n - 1], seq[n]) ELSE kept[n - 1]
  IN  kept[Len(seq)]

Dropped(map, k) == Filtered(map, {e \in Range(map) : e[1] # k})
Used(k) == uses' = Append(Filtered(uses, Range(uses) \ {k}), k)

CacheInit ==
  /\ store = <<>>
  /\ now = 0
  /\ computing = [c \in Lookups |-> <<>>]
  /\ uses = <<>>

\* evict(): first what has expired, then from the front of the Map what is too many.
Evicted(map) ==
  LET fresh == Filtered(map, {e \in Range(map) : ~IsExpired(e)})
  IN  IF Len(fresh) > MaxSize THEN SubSeq(fresh, Len(fresh) - MaxSize + 1, Len(fresh)) ELSE fresh

\* Map.set() keeps the place of a key the Map has.
Put(k, ttl) ==
  /\ store' = Evicted(IF k \in Stored
                      THEN [i \in DOMAIN store |-> IF store[i][1] = k THEN <<k, now + ttl>> ELSE store[i]]
                      ELSE Append(store, <<k, now + ttl>>))
  /\ IF k \in Stored THEN UNCHANGED uses ELSE Used(k)

\* Mutant of Touch: the entry keeps its place.
TouchKeepsPlace(k) == UNCHANGED store /\ Used(k)

\* touch() moves the entry to the end of the Map.
Touch(k) == store' = Append(Dropped(store, k), EntryOf(k)) /\ Used(k)

\* A miss deletes the entry if there is one.
Miss(k) == ~Live(k) /\ store' = Dropped(store, k) /\ UNCHANGED uses

Get(k) == ((Live(k) /\ Touch(k)) \/ Miss(k)) /\ UNCHANGED <<now, computing>>
Set(k) == (\E ttl \in TTLs : Put(k, ttl)) /\ UNCHANGED <<now, computing>>
Has(k) == Miss(k) /\ UNCHANGED <<now, computing>>
Delete(k) == store' = Dropped(store, k) /\ UNCHANGED <<now, computing, uses>>
Clear == store' = <<>> /\ UNCHANGED <<now, computing, uses>>
Size == store' = Evicted(store) /\ UNCHANGED <<now, computing, uses>>

\* getOrElse() up to its await.
GetOrElse(c, k) ==
  /\ computing[c] = <<>>
  /\ UNCHANGED now
  /\ \/ Live(k) /\ Touch(k) /\ UNCHANGED computing
     \/ Miss(k) /\ computing' = [computing EXCEPT ![c] = <<k>>]

\* Its task settles: what is Ok is stored, whatever the cache holds by then.
Computed(c) ==
  /\ computing[c] # <<>>
  /\ computing' = [computing EXCEPT ![c] = <<>>]
  /\ UNCHANGED now
  /\ \/ \E ttl \in TTLs : Put(computing[c][1], ttl)
     \/ UNCHANGED <<store, uses>>

\* The clock goes on, or is set back.
Clock == \E t \in 0..MaxNow : t <= now + 1 /\ now' = t /\ UNCHANGED <<store, computing, uses>>

CacheNext ==
  \/ \E k \in CacheKeys : Get(k) \/ Set(k) \/ Has(k) \/ Delete(k)
  \/ Clear \/ Size \/ Clock
  \/ \E c \in Lookups : Computed(c) \/ \E k \in CacheKeys : GetOrElse(c, k)

CacheSpec == CacheInit /\ [][CacheNext]_cacheVars
-----------------------------------------------------------------------------
CacheTypeOK ==
  /\ store \in Seq(CacheKeys \X Nat) /\ Len(store) <= MaxSize /\ IsInjective(store)
  /\ Cardinality(Stored) = Len(store)
  /\ now \in 0..MaxNow
  /\ computing \in [Lookups -> {<<>>} \cup {<<k>> : k \in CacheKeys}]
  /\ uses \in Seq(CacheKeys) /\ IsInjective(uses)

LastUse(k) == CHOOSE i \in DOMAIN uses' : uses'[i] = k

\* "Oldest accessed are evicted first": room is made by dropping an entry that could
\* still be read only when all that stay could be too, and were inserted or read
\* after it.  (A call that leaves the cache full has not deleted by name.)
LeastRecentGoesFirst ==
  [][Len(store') = MaxSize =>
       \A k \in CacheKeys : Live(k) /\ k \notin KeysOf(store') =>
         \A e \in Range(store') : ~IsExpired(e) /\ LastUse(e[1]) > LastUse(k)]_cacheVars
=============================================================================
