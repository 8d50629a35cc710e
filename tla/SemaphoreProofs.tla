-------------------------- MODULE SemaphoreProofs --------------------------
(***************************************************************************)
(* Semaphore.tla for every number of callers and permits: the invariants,  *)
(* and the step simulation of SemaphorePromise.  The inductive invariant   *)
(* is SemaphoreInv: conservation of permits needs to know that a woken     *)
(* waiter did not hold a permit, hence LineMatches; NoIdlePermit is what   *)
(* makes the line empty on acquire's fast path.                            *)
(***************************************************************************)
EXTENDS Semaphore, FiniteSetTheorems, TLAPS

USE SemaphoreAssumption

\* What SemaphoreTypeOK says of the number of holders: the set is finite.
LEMMA HoldingFinite == IsFiniteSet(Holding) /\ Cardinality(Holding) \in Nat
  BY FS_Subset, FS_CardinalityType DEF Holding

\* The effect of one caller starting, or ceasing, to own a permit.
LEMMA HolderIn ==
  ASSUME NEW c \in Callers, c \notin Holding, Holding' = Holding \cup {c}
  PROVE  Cardinality(Holding') = Cardinality(Holding) + 1
  BY HoldingFinite, FS_AddElement

LEMMA HolderOut ==
  ASSUME NEW c \in Callers, c \in Holding, Holding' = Holding \ {c}
  PROVE  Cardinality(Holding') = Cardinality(Holding) - 1
  BY HoldingFinite, FS_RemoveElement

LEMMA InitIInv == SemaphoreInit => SemaphoreInv
  <1> SUFFICES ASSUME SemaphoreInit PROVE SemaphoreInv
    OBVIOUS
  <1>1. Holding = {}
    BY DEF SemaphoreInit, Holding
  <1>2. Cardinality(Holding) = 0
    BY <1>1, FS_EmptySet
  <1>3. QED
    BY <1>1, <1>2 DEF SemaphoreInit, SemaphoreInv, SemaphoreTypeOK, Conservation, NoIdlePermit, LineMatches, Waiting, ToSet

\* The head of a non-empty line is a suspended caller, and the rest of the line is
\* the same line one place further on.
LEMMA FirstInLine ==
  ASSUME SemaphoreTypeOK, LineMatches, waiters # <<>>
  PROVE  /\ Head(waiters) \in Callers
         /\ pc[Head(waiters)] = "waiting"
         /\ Head(waiters) \notin Holding
         /\ Tail(waiters) \in Seq(Callers)
         /\ Len(Tail(waiters)) = Len(waiters) - 1
         /\ \A i \in DOMAIN Tail(waiters) : Tail(waiters)[i] = waiters[i + 1]
  <1>1. waiters \in Seq(Callers) /\ Len(waiters) >= 1 /\ Head(waiters) = waiters[1]
    BY DEF SemaphoreTypeOK
  <1>2. Head(waiters) \in ToSet(waiters)
    BY <1>1 DEF ToSet
  <1>3. Head(waiters) \in Waiting
    BY <1>2 DEF LineMatches
  <1>4. QED
    BY <1>1, <1>3 DEF Waiting, Holding

\* When the head leaves the line and is granted a permit, and c, which is not in
\* the line, may become idle, the line still names exactly the suspended callers.
LEMMA LineAfterHandOver ==
  ASSUME SemaphoreTypeOK, LineMatches, waiters # <<>>, NEW status,
         status \in [Callers -> {"idle", "waiting", "granted", "running"}],
         \A c \in Callers : status[c] = "waiting" <=> pc[c] = "waiting",
         waiters' = Tail(waiters),
         pc' = [status EXCEPT ![Head(waiters)] = "granted"]
  PROVE  LineMatches'
  <1>1. \A i, j \in DOMAIN waiters' : waiters'[i] = waiters'[j] => i = j
    BY FirstInLine DEF SemaphoreTypeOK, LineMatches
  <1>2. ASSUME NEW c \in Callers, pc'[c] = "waiting"
        PROVE  \E i \in DOMAIN waiters' : waiters'[i] = c
    <2>1. c # Head(waiters) /\ pc[c] = "waiting"
      BY <1>2, FirstInLine
    <2>2. PICK i \in DOMAIN waiters : waiters[i] = c
      BY <2>1 DEF LineMatches, Waiting, ToSet
    <2>3. i \in 2..Len(waiters)
      BY <2>1, <2>2 DEF SemaphoreTypeOK
    <2>4. i - 1 \in DOMAIN waiters' /\ waiters'[i - 1] = c
      BY <2>2, <2>3, FirstInLine DEF SemaphoreTypeOK
    <2>5. QED
      BY <2>4
  <1>3. ASSUME NEW i \in DOMAIN waiters'
        PROVE  waiters'[i] \in Callers /\ pc'[waiters'[i]] = "waiting"
    <2>1. i + 1 \in DOMAIN waiters /\ waiters'[i] = waiters[i + 1]
      BY <1>3, FirstInLine DEF SemaphoreTypeOK
    <2>2. waiters[i + 1] \in Waiting
      BY <2>1 DEF LineMatches, ToSet
    <2>3. waiters[i + 1] # Head(waiters)
      BY <2>1 DEF LineMatches, SemaphoreTypeOK
    <2>4. QED
      BY <2>1, <2>2, <2>3 DEF Waiting
  <1>4. QED
    BY <1>1, <1>2, <1>3 DEF LineMatches, Waiting, ToSet

LEMMA AcquireIInv ==
  ASSUME SemaphoreInv, NEW c \in Callers, Acquire(c)
  PROVE  SemaphoreInv'
  <1> USE DEF SemaphoreInv
  <1>1. SemaphoreTypeOK'
    BY DEF SemaphoreTypeOK, Acquire
  <1>2. CASE available > 0
    <2>1. waiters = <<>>
      BY <1>2 DEF NoIdlePermit
    <2>2. Waiting' = Waiting
      BY <1>2 DEF Acquire, Waiting, SemaphoreTypeOK
    <2>3. c \notin Holding /\ Holding' = Holding \cup {c}
      BY <1>2 DEF Acquire, Holding, SemaphoreTypeOK
    <2>4. Conservation'
      <3>1. Cardinality(Holding)' = Cardinality(Holding) + 1
        BY <2>3, HolderIn
      <3>2. available' = available - 1 /\ surplus' = surplus
        BY <1>2 DEF Acquire, SemaphoreTypeOK
      <3>3. QED
        BY <3>1, <3>2, HoldingFinite DEF Conservation, SemaphoreTypeOK
    <2>5. QED
      BY <1>1, <1>2, <2>1, <2>2, <2>4 DEF NoIdlePermit, LineMatches, Acquire, SemaphoreTypeOK
  <1>3. CASE available <= 0
    <2>1. Waiting' = Waiting \cup {c} /\ c \notin Waiting
      BY <1>3 DEF Acquire, Waiting, SemaphoreTypeOK
    <2>2. Holding' = Holding
      BY <1>3 DEF Acquire, Holding, SemaphoreTypeOK
    <2>3. waiters' = Append(waiters, c) /\ available' = available /\ available = 0
      BY <1>3 DEF Acquire, SemaphoreTypeOK
    <2>4. LineMatches'
      BY <2>1, <2>3 DEF LineMatches, SemaphoreTypeOK, ToSet
    <2>5. QED
      BY <1>1, <2>2, <2>3, <2>4 DEF Conservation, NoIdlePermit, Acquire
  <1>4. QED
    BY <1>2, <1>3 DEF Acquire

LEMMA ResumeIInv ==
  ASSUME SemaphoreInv, NEW c \in Callers, Resume(c)
  PROVE  SemaphoreInv'
  <1>1. Holding' = Holding /\ Waiting' = Waiting
    BY DEF SemaphoreInv, Resume, Holding, Waiting, SemaphoreTypeOK
  <1>2. SemaphoreTypeOK'
    BY DEF SemaphoreInv, Resume, SemaphoreTypeOK
  <1>3. QED
    BY <1>1, <1>2 DEF SemaphoreInv, Resume, Conservation, NoIdlePermit, LineMatches

LEMMA ReleaseIInv ==
  ASSUME SemaphoreInv, NEW c \in Callers, Release(c)
  PROVE  SemaphoreInv'
  <1> USE DEF SemaphoreInv
  <1> DEFINE status == [pc EXCEPT ![c] = "idle"]
  <1>1. c \in Holding /\ pc[c] = "running"
    BY DEF Release, Holding
  <1>2. CASE waiters = <<>>
    <2>1. Holding' = Holding \ {c} /\ Waiting' = Waiting
      BY <1>2 DEF Release, GiveBack, Holding, Waiting, SemaphoreTypeOK
    <2>2. SemaphoreTypeOK'
      BY <1>2 DEF SemaphoreTypeOK, Release, GiveBack
    <2>3. Conservation'
      <3>1. Cardinality(Holding)' = Cardinality(Holding) - 1
        BY <1>1, <2>1, HolderOut
      <3>2. available' = available + 1 /\ surplus' = surplus
        BY <1>2 DEF Release, GiveBack
      <3>3. QED
        BY <3>1, <3>2, HoldingFinite DEF Conservation, SemaphoreTypeOK
    <2>4. QED
      BY <1>2, <2>1, <2>2, <2>3 DEF Release, GiveBack, NoIdlePermit, LineMatches
  <1>3. CASE waiters # <<>>
    <2> DEFINE h == Head(waiters)
    <2>1. /\ pc' = [status EXCEPT ![h] = "granted"]
          /\ waiters' = Tail(waiters)
          /\ available' = available /\ surplus' = surplus
          /\ owned' \subseteq Careless
      BY <1>3 DEF Release, GiveBack, SemaphoreTypeOK
    <2>2. /\ h \in Callers /\ pc[h] = "waiting" /\ h \notin Holding
          /\ Tail(waiters) \in Seq(Callers)
      BY <1>3, FirstInLine
    <2>3. status \in [Callers -> {"idle", "waiting", "granted", "running"}]
      BY DEF SemaphoreTypeOK
    <2>4. SemaphoreTypeOK'
      BY <2>1, <2>2, <2>3 DEF SemaphoreTypeOK
    <2>5. LineMatches'
      <3>1. \A d \in Callers : status[d] = "waiting" <=> pc[d] = "waiting"
        BY <1>1 DEF SemaphoreTypeOK
      <3>2. QED
        BY <1>3, <2>1, <2>3, <3>1, LineAfterHandOver
    <2>6. Holding' = (Holding \ {c}) \cup {h}
      BY <1>1, <2>1, <2>2 DEF Holding, SemaphoreTypeOK
    <2>7. Cardinality(Holding') = Cardinality(Holding)
      <3>1. IsFiniteSet(Holding \ {c})
        BY HoldingFinite, FS_RemoveElement
      <3>2. Cardinality(Holding \ {c}) = Cardinality(Holding) - 1
        BY <1>1, HoldingFinite, FS_RemoveElement
      <3>3. Cardinality((Holding \ {c}) \cup {h}) = Cardinality(Holding \ {c}) + 1
        BY <2>2, <3>1, FS_AddElement
      <3>4. QED
        BY <2>6, <3>2, <3>3, HoldingFinite
    <2>8. available = 0
      BY <1>3 DEF NoIdlePermit
    <2>9. QED
      BY <2>1, <2>4, <2>5, <2>7, <2>8 DEF Conservation, NoIdlePermit
  <1>4. QED
    BY <1>2, <1>3

LEMMA ReleaseAgainIInv ==
  ASSUME SemaphoreInv, NEW c \in Callers, ReleaseAgain(c)
  PROVE  SemaphoreInv'
  <1> USE DEF SemaphoreInv
  <1>1. CASE waiters = <<>>
    <2>1. Holding' = Holding /\ Waiting' = Waiting
      BY <1>1 DEF ReleaseAgain, GiveBack, Holding, Waiting
    <2>2. SemaphoreTypeOK'
      BY <1>1 DEF SemaphoreTypeOK, ReleaseAgain, GiveBack
    <2>3. Conservation'
      BY <1>1, <2>1, HoldingFinite DEF Conservation, ReleaseAgain, GiveBack, SemaphoreTypeOK
    <2>4. QED
      BY <1>1, <2>1, <2>2, <2>3 DEF ReleaseAgain, GiveBack, NoIdlePermit, LineMatches
  <1>2. CASE waiters # <<>>
    <2> DEFINE h == Head(waiters)
    <2>1. /\ pc' = [pc EXCEPT ![h] = "granted"]
          /\ waiters' = Tail(waiters)
          /\ available' = available /\ surplus' = surplus + 1
          /\ surplus < MaxSurplus /\ owned' = owned
      BY <1>2 DEF ReleaseAgain, GiveBack, SemaphoreTypeOK
    <2>2. /\ h \in Callers /\ pc[h] = "waiting" /\ h \notin Holding
          /\ Tail(waiters) \in Seq(Callers)
      BY <1>2, FirstInLine
    <2>3. SemaphoreTypeOK'
      BY <2>1, <2>2 DEF SemaphoreTypeOK
    <2>4. LineMatches'
      BY <1>2, <2>1, LineAfterHandOver DEF SemaphoreTypeOK
    <2>5. Holding' = Holding \cup {h}
      BY <2>1, <2>2 DEF Holding, SemaphoreTypeOK
    <2>6. Cardinality(Holding') = Cardinality(Holding) + 1
      BY <2>2, <2>5, HolderIn
    <2>7. available = 0
      BY <1>2 DEF NoIdlePermit
    <2>8. QED
      BY <2>1, <2>3, <2>4, <2>6, <2>7, HoldingFinite
      DEF Conservation, NoIdlePermit, SemaphoreTypeOK
  <1>3. QED
    BY <1>1, <1>2

LEMMA NextIInv == SemaphoreInv /\ [SemaphoreNext]_semaphoreVars => SemaphoreInv'
  <1> SUFFICES ASSUME SemaphoreInv, [SemaphoreNext]_semaphoreVars PROVE SemaphoreInv'
    OBVIOUS
  <1>1. CASE UNCHANGED semaphoreVars
    BY <1>1 DEF semaphoreVars, SemaphoreInv, SemaphoreTypeOK, Conservation, NoIdlePermit, LineMatches, Holding, Waiting
  <1>2. ASSUME NEW c \in Callers, Acquire(c) \/ Resume(c) \/ Release(c) \/ ReleaseAgain(c)
        PROVE  SemaphoreInv'
    BY <1>2, AcquireIInv, ResumeIInv, ReleaseIInv, ReleaseAgainIInv
  <1>3. QED
    BY <1>1, <1>2 DEF SemaphoreNext

\* Every reachable state of a semaphore, with any number of callers, permits and
\* repeated releases, satisfies the inductive invariant.
THEOREM Invariance == SemaphoreSpec => []SemaphoreInv
  BY InitIInv, NextIInv, PTL DEF SemaphoreSpec

\* Type correctness of every reachable state.
THEOREM Typing == SemaphoreSpec => []SemaphoreTypeOK
  <1>1. SemaphoreInv => SemaphoreTypeOK
    BY DEF SemaphoreInv
  <1>2. QED
    BY <1>1, Invariance, PTL

\* Permits are conserved: available plus held is what was created plus the surplus.
THEOREM PermitsConserved == SemaphoreSpec => []Conservation
  <1>1. SemaphoreInv => Conservation
    BY DEF SemaphoreInv
  <1>2. QED
    BY <1>1, Invariance, PTL

\* No lost wake-up: while anybody waits there is no permit to be had.
THEOREM NoLostWakeUp == SemaphoreSpec => []NoIdlePermit
  <1>1. SemaphoreInv => NoIdlePermit
    BY DEF SemaphoreInv
  <1>2. QED
    BY <1>1, Invariance, PTL

\* When every Release is called once (nobody is careless) at most Permits callers
\* run at the same time: the sentence of semaphore.ts:10-11.
THEOREM BoundedConcurrency == Careless = {} => (SemaphoreSpec => []AtMostPermits)
  <1> SUFFICES ASSUME Careless = {} PROVE SemaphoreSpec => []AtMostPermits
    OBVIOUS
  <1>1. SemaphoreInit => surplus = 0
    BY DEF SemaphoreInit
  <1>2. SemaphoreInv /\ surplus = 0 /\ [SemaphoreNext]_semaphoreVars => (surplus = 0)'
    BY DEF SemaphoreInv, SemaphoreTypeOK, SemaphoreNext, semaphoreVars, Acquire, Resume, Release, ReleaseAgain
  <1>3. SemaphoreInv /\ surplus = 0 => AtMostPermits
    BY HoldingFinite DEF SemaphoreInv, SemaphoreTypeOK, Conservation, AtMostPermits
  <1>4. QED
    BY <1>1, <1>2, <1>3, Invariance, PTL DEF SemaphoreSpec

\* A state of the semaphore at rest is a state of the promise at rest.
LEMMA InitKeepsPromise == SemaphoreInit => Promise!Init
  BY SemaphoreAssumption DEF SemaphoreInit, Promise!Init, Holding

\* Acquire is Enter or Join; the permit count decides it, and conservation makes
\* the count agree with the number of holders.
LEMMA AcquireKeepsPromise ==
  ASSUME SemaphoreInv, NEW c \in Callers, Acquire(c)
  PROVE  Promise!Enter(c) \/ Promise!Join(c)
  <1> USE DEF SemaphoreInv
  <1>1. c \notin Holding /\ c \notin Waiting /\ surplus' = surplus
    BY DEF Acquire, Holding, Waiting
  <1>2. CASE available > 0
    <2>1. waiters = <<>> /\ waiters' = waiters
      BY <1>2 DEF NoIdlePermit, Acquire, SemaphoreTypeOK
    <2>2. Holding' = Holding \cup {c}
      BY <1>2 DEF Acquire, Holding, SemaphoreTypeOK
    <2>3. Cardinality(Holding) < Permits + surplus
      BY <1>2, HoldingFinite DEF Conservation, SemaphoreTypeOK
    <2>4. QED
      BY <1>1, <2>1, <2>2, <2>3 DEF Promise!Enter, Promise!Cardinality, Cardinality
  <1>3. CASE available <= 0
    <2>1. Holding' = Holding
      BY <1>3 DEF Acquire, Holding, SemaphoreTypeOK
    <2>2. waiters' = Append(waiters, c)
      BY <1>3 DEF Acquire, SemaphoreTypeOK
    <2>3. Cardinality(Holding) = Permits + surplus
      BY <1>3, HoldingFinite DEF Conservation, SemaphoreTypeOK
    <2>4. c \notin Promise!ToSet(waiters)
      BY <1>1 DEF LineMatches, ToSet, Promise!ToSet
    <2>5. QED
      BY <1>1, <2>1, <2>2, <2>3, <2>4 DEF Promise!Join, Promise!Cardinality, Cardinality
  <1>4. QED
    BY <1>2, <1>3 DEF Acquire

LEMMA ReleaseKeepsPromise ==
  ASSUME SemaphoreInv, NEW c \in Callers, Release(c)
  PROVE  Promise!Leave(c)
  <1> USE DEF SemaphoreInv
  <1>1. c \in Holding /\ pc[c] = "running" /\ surplus' = surplus
    BY DEF Release, Holding
  <1>2. CASE waiters = <<>>
    <2>1. Holding' = Holding \ {c} /\ waiters' = waiters
      BY <1>2 DEF Release, GiveBack, Holding, SemaphoreTypeOK
    <2>2. QED
      BY <1>1, <1>2, <2>1 DEF Promise!Leave
  <1>3. CASE waiters # <<>>
    <2>1. Head(waiters) \in Callers /\ pc[Head(waiters)] = "waiting"
      BY <1>3, FirstInLine
    <2>2. Holding' = (Holding \ {c}) \cup {Head(waiters)} /\ waiters' = Tail(waiters)
      BY <1>1, <1>3, <2>1 DEF Release, GiveBack, Holding, SemaphoreTypeOK
    <2>3. QED
      BY <1>1, <1>3, <2>2 DEF Promise!Leave
  <1>4. QED
    BY <1>2, <1>3

\* A Release called again is Grow.
LEMMA ReleaseAgainKeepsPromise ==
  ASSUME SemaphoreInv, NEW c \in Callers, ReleaseAgain(c)
  PROVE  Promise!Grow
  <1> USE DEF SemaphoreInv
  <1>1. Permits + surplus' = (Permits + surplus) + 1
    BY SemaphoreAssumption DEF ReleaseAgain, SemaphoreTypeOK
  <1>2. CASE waiters = <<>>
    <2>1. Holding' = Holding /\ waiters' = waiters
      BY <1>2 DEF ReleaseAgain, GiveBack, Holding, SemaphoreTypeOK
    <2>2. QED
      BY <1>1, <1>2, <2>1, SemaphoreAssumption DEF Promise!Grow
  <1>3. CASE waiters # <<>>
    <2>1. Head(waiters) \in Callers /\ pc[Head(waiters)] = "waiting"
      BY <1>3, FirstInLine
    <2>2. Holding' = Holding \cup {Head(waiters)} /\ waiters' = Tail(waiters)
      BY <1>3, <2>1 DEF ReleaseAgain, GiveBack, Holding, SemaphoreTypeOK
    <2>3. QED
      BY <1>1, <1>3, <2>2, SemaphoreAssumption DEF Promise!Grow
  <1>4. QED
    BY <1>2, <1>3

\* The code implements the promise: nobody is admitted past the line, and never
\* more are inside than there are permits and surplus releases.
THEOREM Implementation == SemaphoreSpec => Promise!Spec
  <1>1. SemaphoreInv /\ [SemaphoreNext]_semaphoreVars => [Promise!Next]_(Promise!specVars)
    <2> SUFFICES ASSUME SemaphoreInv, [SemaphoreNext]_semaphoreVars
                 PROVE  [Promise!Next]_(Promise!specVars)
      OBVIOUS
    <2>1. CASE UNCHANGED semaphoreVars
      BY <2>1 DEF semaphoreVars, Promise!specVars, Holding
    <2>2. ASSUME NEW c \in Callers, Acquire(c)
          PROVE  Promise!Next
      BY <2>2, AcquireKeepsPromise DEF Promise!Next
    <2>3. ASSUME NEW c \in Callers, Resume(c)
          PROVE  UNCHANGED Promise!specVars
      BY <2>3 DEF Resume, Promise!specVars, Holding, SemaphoreInv, SemaphoreTypeOK
    <2>4. ASSUME NEW c \in Callers, Release(c)
          PROVE  Promise!Next
      BY <2>4, ReleaseKeepsPromise DEF Promise!Next
    <2>5. ASSUME NEW c \in Callers, ReleaseAgain(c)
          PROVE  Promise!Next
      BY <2>5, ReleaseAgainKeepsPromise DEF Promise!Next
    <2>6. QED
      BY <2>1, <2>2, <2>3, <2>4, <2>5 DEF SemaphoreNext
  <1>2. QED
    BY <1>1, InitKeepsPromise, Invariance, PTL DEF SemaphoreSpec, Promise!Spec

\* The count of permits is exact, for any number of callers and of permits.
THEOREM PermitsExact == SemaphoreSpec => []PermitsAreKept
  <1>1. SemaphoreInv => PermitsAreKept
    BY DEF SemaphoreInv, PermitsAreKept
  <1>2. QED
    BY <1>1, Invariance, PTL
=============================================================================
