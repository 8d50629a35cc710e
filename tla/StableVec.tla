------------------------------ MODULE StableVec ------------------------------
(* createStableVec() of data/stable-vec.ts, with one forEach() or iterator that *)
(* may be under way while the vector changes: its callback, or the loop that    *)
(* draws from the iterator, may insert, remove and clear.                       *)
(*                                                                              *)
(* The n-th insertion inserts the element n; those in Nothing are undefined.    *)
(* Indices count from one, and a free slot has dataIndex 0.                     *)
EXTENDS Integers, Sequences

CONSTANTS MaxInserts, Nothing

ASSUME StableVecAssumption == MaxInserts \in Nat /\ Nothing \subseteq Nat

VARIABLES data,       \* const data
          meta,       \* const meta: the slot of each
          slots,      \* const slots
          freeSlots,  \* const freeSlots, the last is taken first
          handles,    \* history: the handle of the n-th insertion
          removed,    \* history: the insertions that were removed
          walk        \* the loop: the index `at` which it comes to next, 0 when there is none; history: the
                      \* elements it has `seen`, whether it saw one `again`, whether something was removed
                      \* `meanwhile`, and the elements it had not seen when it ended, `missed`

vecVars == <<data, meta, slots, freeSlots, handles, removed>>
stableVars == <<vecVars, walk>>

Inserted == DOMAIN handles
Held == Inserted \ removed
NoWalk == [at |-> 0, seen |-> {}, again |-> FALSE, meanwhile |-> FALSE, missed |-> {}]

StableInit ==
  /\ data = <<>> /\ meta = <<>> /\ slots = <<>> /\ freeSlots = <<>>
  /\ handles = <<>> /\ removed = {}
  /\ walk = NoWalk

\* resolveSlot(): the handle is of this generation of its slot, and that is in use.
Resolves(h) ==
  /\ h.index \in DOMAIN slots
  /\ slots[h.index].generation = h.generation
  /\ slots[h.index].dataIndex > 0

\* get()
GetAt(h) == IF Resolves(h) /\ data[slots[h.index].dataIndex] \notin Nothing
          THEN <<data[slots[h.index].dataIndex]>> ELSE <<>>

\* insert() with allocSlot().
Insert ==
  LET reuse == freeSlots # <<>>
      index == IF reuse THEN freeSlots[Len(freeSlots)] ELSE Len(slots) + 1
      generation == IF reuse THEN slots[index].generation ELSE 0
      slot == [dataIndex |-> Len(data) + 1, generation |-> generation]
  IN  /\ Len(handles) < MaxInserts
      /\ data' = Append(data, Len(handles) + 1)
      /\ meta' = Append(meta, index)
      /\ slots' = IF reuse THEN [slots EXCEPT ![index] = slot] ELSE Append(slots, slot)
      /\ freeSlots' = IF reuse THEN SubSeq(freeSlots, 1, Len(freeSlots) - 1) ELSE freeSlots
      /\ handles' = Append(handles, [index |-> index, generation |-> generation])
      /\ UNCHANGED <<removed, walk>>

\* Mutant of Freed: the generation stays.
FreedAsItIs(slot) == [dataIndex |-> 0, generation |-> slot.generation]

Freed(slot) == [dataIndex |-> 0, generation |-> slot.generation + 1]

Disturbed == [walk EXCEPT !.meanwhile = walk.meanwhile \/ walk.at > 0]

\* The last element takes the place of the removed one.
SwapPop(s, at) == [i \in 1..(Len(s) - 1) |-> IF i = at THEN s[Len(s)] ELSE s[i]]

\* remove() by the handle of the n-th insertion; it answers false, and changes
\* nothing, for a handle that does not resolve.
RemoveBy(n) ==
  LET h == handles[n]
      at == slots[h.index].dataIndex
      last == meta[Len(meta)]
  IN  /\ n \in Inserted /\ Resolves(h)
      /\ data' = SwapPop(data, at)
      /\ meta' = SwapPop(meta, at)
      /\ slots' = [s \in DOMAIN slots |->
                    IF s = h.index THEN Freed(slots[s])
                    ELSE IF s = last THEN [dataIndex |-> at, generation |-> slots[s].generation]
                    ELSE slots[s]]
      /\ freeSlots' = Append(freeSlots, h.index)
      /\ removed' = removed \cup {n}
      /\ walk' = Disturbed
      /\ UNCHANGED handles

Occupied == {s \in DOMAIN slots : slots[s].dataIndex > 0}

\* clear(): the occupied slots are freed in their order.
ClearAll ==
  \E freed \in [1..Len(data) -> Occupied] :
    /\ \A i, j \in 1..Len(data) : i < j => freed[i] < freed[j]
    /\ \A s \in Occupied : \E i \in 1..Len(data) : freed[i] = s
    /\ slots' = [s \in DOMAIN slots |-> IF s \in Occupied THEN Freed(slots[s]) ELSE slots[s]]
    /\ freeSlots' = freeSlots \o freed
    /\ data' = <<>> /\ meta' = <<>>
    /\ removed' = Inserted
    /\ walk' = Disturbed
    /\ UNCHANGED handles

BeginWalk == walk.at = 0 /\ walk' = [NoWalk EXCEPT !.at = 1] /\ UNCHANGED vecVars

Visit ==
  /\ walk.at \in DOMAIN data
  /\ walk' = [walk EXCEPT !.at = walk.at + 1, !.seen = walk.seen \cup {data[walk.at]},
                          !.again = walk.again \/ data[walk.at] \in walk.seen]
  /\ UNCHANGED vecVars

EndWalk ==
  /\ walk.at > Len(data)
  /\ walk' = [walk EXCEPT !.at = 0, !.missed = Held \ walk.seen]
  /\ UNCHANGED vecVars

StableNext ==
  \/ Insert \/ ClearAll \/ BeginWalk \/ Visit \/ EndWalk
  \/ \E n \in Inserted : RemoveBy(n)

StableSpec == StableInit /\ [][StableNext]_stableVars
-----------------------------------------------------------------------------
Slot == [dataIndex : Nat, generation : Nat]
Handle == [index : Nat, generation : Nat]

StableTypeOK ==
  /\ data \in Seq(Nat) /\ meta \in Seq(Nat) /\ Len(meta) = Len(data)
  /\ slots \in Seq(Slot) /\ freeSlots \in Seq(DOMAIN slots)
  /\ handles \in Seq(Handle) /\ removed \subseteq Inserted
  /\ walk \in [at : Nat, seen : SUBSET Inserted, again : BOOLEAN, meanwhile : BOOLEAN, missed : SUBSET Inserted]

\* A handle finds the element it was given for as long as that lives, wherever
\* the others' removals have moved it, and nothing afterwards, whoever has its slot.
HandlesFind ==
  \A n \in Inserted :
    /\ Resolves(handles[n]) <=> n \in Held
    /\ GetAt(handles[n]) = IF n \in Held /\ n \notin Nothing THEN <<n>> ELSE <<>>

\* A loop sees no element twice, whatever its body does, and misses a living one
\* only if the body removed something, which may have moved it to a place behind.
WalkMeetsAll ==
  /\ ~walk.again
  /\ walk.missed # {} => walk.meanwhile

\* A vector is what its callers hold handles of, for get() and for a loop.
HandlesAreTrue == StableTypeOK /\ HandlesFind /\ WalkMeetsAll
=============================================================================
