---------------------------- MODULE EventEmitter ----------------------------
(***************************************************************************)
(* src/async/event-emitter.ts: the listeners of one event (events share     *)
(* nothing).  They are kept in a JavaScript Set, and emit() walks the Set   *)
(* while the handlers it calls register, remove and emit.                  *)
(*                                                                         *)
(* A Set is a sequence in insertion order.  What is deleted leaves a gap,  *)
(* what is added comes last, and a walk under way sees both.               *)
(***************************************************************************)
EXTENDS Integers, Sequences, SequencesExt

CONSTANTS Handlers,
          MaxOnce,    \* bound on the calls of once()
          MaxSets,    \* bound on the Sets made, one more after each removeAll()
          MaxLength,  \* bound on the insertions into a Set
          MaxDepth    \* bound on emits inside handlers of emits

ASSUME EmitterAssumption == {MaxOnce, MaxSets, MaxLength, MaxDepth} \subseteq Nat

VARIABLES listeners,  \* the Set of the event, 0 for none
          sets,       \* the Sets made so far
          walks,      \* the emits under way, the innermost last, each in a handler
          fired       \* history: how often the wrapper of each once() has called

emitterVars == <<listeners, sets, walks, fired>>

\* A handler is its own listener, <<handler, 0>>; the n-th once() makes a wrapper.
Listener == Handlers \X (0..MaxOnce)
Gap == <<>>

Ahead(s, i) == {j \in DOMAIN sets[s] : j > i /\ sets[s][j] # Gap}
Known(s) == Range(sets[s]) \ {Gap}

EmitterInit ==
  /\ listeners = 0
  /\ sets = <<>>
  /\ walks = <<>>
  /\ fired = [n \in 1..MaxOnce |-> 0]

\* Mutant of Without: the rest of the Set moves up.
WithoutMovesUp(set, x) == SelectSeq(set, LAMBDA y : y # x)

Without(set, x) == [i \in DOMAIN set |-> IF set[i] = x THEN Gap ELSE set[i]]

\* getOrCreate(event).add(x).
Add(x) ==
  /\ UNCHANGED <<walks, fired>>
  /\ \/ /\ listeners = 0 /\ Len(sets) < MaxSets
        /\ listeners' = Len(sets) + 1
        /\ sets' = Append(sets, <<x>>)
     \/ /\ listeners # 0 /\ UNCHANGED listeners
        /\ \/ x \in Known(listeners) /\ UNCHANGED sets
           \/ /\ x \notin Known(listeners) /\ Len(sets[listeners]) < MaxLength
              /\ sets' = [sets EXCEPT ![listeners] = Append(@, x)]

On(h) == Add(<<h, 0>>)

Made == {n \in 1..MaxOnce : fired[n] > 0 \/ \E s \in DOMAIN sets, h \in Handlers : <<h, n>> \in Known(s)}

\* Each call of once() makes a new listener: the calls are numbered.
Once(h) ==
  \E n \in (1..MaxOnce) \ Made : 1..(n - 1) \subseteq Made /\ Add(<<h, n>>)

Deleted(x) == sets' = IF listeners = 0 THEN sets ELSE [sets EXCEPT ![listeners] = Without(@, x)]

Off(h) == Deleted(<<h, 0>>) /\ UNCHANGED <<listeners, walks, fired>>

RemoveAll == listeners' = 0 /\ UNCHANGED <<sets, walks, fired>>

\* Mutant of Called: a wrapper stays where it is.
CalledStays(x) ==
  \/ x[2] = 0 /\ UNCHANGED <<sets, fired>>
  \/ x[2] # 0 /\ fired' = [fired EXCEPT ![x[2]] = @ + 1] /\ UNCHANGED sets

\* A wrapper deletes itself from the present Set of its event before it calls.
Called(x) ==
  \/ x[2] = 0 /\ UNCHANGED <<sets, fired>>
  \/ x[2] # 0 /\ fired' = [fired EXCEPT ![x[2]] = @ + 1] /\ Deleted(x)

\* The walk calls the next listener of its Set, or emit() returns.
Walks(outer, walk) ==
  LET ahead == Ahead(walk.set, walk.at)
  IN  /\ UNCHANGED listeners
      /\ \/ ahead = {} /\ walks' = outer /\ UNCHANGED <<sets, fired>>
         \/ \E at \in ahead :
              LET x == sets[walk.set][at]
              IN  /\ \A j \in ahead : at <= j
                  /\ walks' = Append(outer, [walk EXCEPT !.at = at, !.owed = @ \ {x}])
                  /\ Called(x)

Emit ==
  /\ listeners # 0 /\ Len(walks) < MaxDepth
  /\ Walks(walks, [set |-> listeners, at |-> 0, owed |-> Known(listeners)])

\* The handler of the innermost emit returns.
Returns == walks # <<>> /\ Walks(Front(walks), Last(walks))

\* It throws: the emit is over.  The handler that emitted may catch that, or throw.
Throws == walks # <<>> /\ walks' = Front(walks) /\ UNCHANGED <<listeners, sets, fired>>

EmitterNext ==
  \/ \E h \in Handlers : On(h) \/ Once(h) \/ Off(h)
  \/ RemoveAll \/ Emit \/ Returns \/ Throws

EmitterSpec == EmitterInit /\ [][EmitterNext]_emitterVars
-----------------------------------------------------------------------------
EmitterTypeOK ==
  /\ sets \in Seq(Seq(Listener \cup {Gap})) /\ Len(sets) <= MaxSets
  /\ \A s \in DOMAIN sets : Len(sets[s]) <= MaxLength
  /\ listeners \in 0..Len(sets)
  /\ walks \in Seq([set : 1..MaxSets, at : Nat, owed : SUBSET Listener])
  /\ \A i \in DOMAIN walks : walks[i].set \in DOMAIN sets
  /\ fired \in [1..MaxOnce -> Nat]

\* Whatever handlers emit, register and remove, what once() registers is called at
\* most once.  The exception is what removeAll() has stranded in a Set that is no
\* longer the event's, which each emit that still walks that Set may call.
OnceFiresOnce ==
  \A n \in 1..MaxOnce :
    fired[n] > 1 => \E s \in DOMAIN sets \ {listeners}, h \in Handlers : <<h, n>> \in Known(s)

\* emit() calls every listener the Set held when it began: whoever has not been called
\* yet and has not been removed is still ahead of the walk.
EmitReaches ==
  \A i \in DOMAIN walks :
    \A x \in walks[i].owed \cap Known(walks[i].set) :
      \E j \in Ahead(walks[i].set, walks[i].at) : sets[walks[i].set][j] = x
=============================================================================
