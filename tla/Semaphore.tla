----------------------------- MODULE Semaphore -----------------------------
(***************************************************************************)
(* src/async/semaphore.ts: createSemaphore, and createMutex, which is a    *)
(* semaphore of one permit.                                                *)
(*                                                                         *)
(* The event loop runs one callback at a time, so a call of acquire() or   *)
(* release() is one step.  A promise that is resolved runs its             *)
(* continuation in a later step: a caller whose acquire() has resolved     *)
(* ("granted") owns its permit before it runs ("running").  A wrapped task *)
(* releases exactly once, in a finally; a caller that holds a Release      *)
(* function of its own may call it again, which the code does not guard.   *)
(***************************************************************************)
EXTENDS Integers, Sequences, SequencesExt

CONSTANTS Callers,    \* concurrent users of one semaphore
          Permits,    \* the argument of Semaphore.create; 1 for Mutex.create
          Careless,   \* callers that may call a Release a second time
          MaxSurplus  \* bound on such second calls

ASSUME SemaphoreAssumption ==
  /\ IsFiniteSet(Callers)
  /\ Permits \in Nat
  /\ Careless \subseteq Callers
  /\ MaxSurplus \in Nat

VARIABLES available,  \* let available
          waiters,    \* const waiters, the callers in place of their closures
          pc,         \* where each caller is
          owned,      \* callers that hold a Release function already used
          surplus     \* history: how many releases were second calls

semaphoreVars == <<available, waiters, pc, owned, surplus>>

Holding == {c \in Callers : pc[c] \in {"granted", "running"}}
Waiting == {c \in Callers : pc[c] = "waiting"}

SemaphoreInit ==
  /\ available = Permits
  /\ waiters = <<>>
  /\ pc = [c \in Callers |-> "idle"]
  /\ owned = {}
  /\ surplus = 0

\* acquire(): a permit if one is left, otherwise the end of the waiters.
Acquire(c) ==
  /\ pc[c] = "idle"
  /\ UNCHANGED <<owned, surplus>>
  /\ \/ /\ available > 0
        /\ available' = available - 1
        /\ pc' = [pc EXCEPT ![c] = "granted"]
        /\ UNCHANGED waiters
     \/ /\ available <= 0
        /\ pc' = [pc EXCEPT ![c] = "waiting"]
        /\ waiters' = Append(waiters, c)
        /\ UNCHANGED available

\* The continuation of the awaited acquire(): the task starts.
Resume(c) ==
  /\ pc[c] = "granted"
  /\ pc' = [pc EXCEPT ![c] = "running"]
  /\ UNCHANGED <<available, waiters, owned, surplus>>

\* Mutants of GiveBack: the release that forgets the line, and the one that serves the
\* newest waiter first.
GiveBackForgets(status) ==
  /\ available' = available + 1
  /\ pc' = status
  /\ UNCHANGED waiters

GiveBackNewest(status) ==
  IF waiters = <<>>
  THEN GiveBackForgets(status)
  ELSE LET last == Len(waiters)
       IN  /\ waiters' = SubSeq(waiters, 1, last - 1)
           /\ pc' = [status EXCEPT ![waiters[last]] = "granted"]
           /\ UNCHANGED available

\* The body of release(): the permit comes back and the first waiter's closure,
\* if there is one, takes it again before anything else can run.
GiveBack(status) ==
  IF waiters = <<>>
  THEN /\ available' = available + 1
       /\ pc' = status
       /\ UNCHANGED waiters
  ELSE /\ available' = (available + 1) - 1
       /\ waiters' = Tail(waiters)
       /\ pc' = [status EXCEPT ![Head(waiters)] = "granted"]

\* The task settles, by a result or by throwing, and releases.
Release(c) ==
  /\ pc[c] = "running"
  /\ GiveBack([pc EXCEPT ![c] = "idle"])
  /\ owned' = owned \cup (Careless \cap {c})
  /\ UNCHANGED surplus

\* A second call of a Release that has done its work: nothing stops it.
ReleaseAgain(c) ==
  /\ c \in owned
  /\ surplus < MaxSurplus
  /\ surplus' = surplus + 1
  /\ GiveBack(pc)
  /\ UNCHANGED owned

SemaphoreNext == \E c \in Callers : Acquire(c) \/ Resume(c) \/ Release(c) \/ ReleaseAgain(c)

SemaphoreSpec == SemaphoreInit /\ [][SemaphoreNext]_semaphoreVars

\* Continuations run, and the wrapped tasks settle.  Nobody has to call acquire.
FairSemaphore ==
  SemaphoreSpec /\ \A c \in Callers : WF_semaphoreVars(Resume(c)) /\ WF_semaphoreVars(Release(c))
-----------------------------------------------------------------------------
SemaphoreTypeOK ==
  /\ available \in Nat
  /\ waiters \in Seq(Callers)
  /\ pc \in [Callers -> {"idle", "waiting", "granted", "running"}]
  /\ owned \subseteq Careless
  /\ surplus \in 0..MaxSurplus

\* Permits are neither lost nor made, whatever the order of acquires, resumptions
\* and releases: what is left and what is held add up to the permits the
\* semaphore was created with, plus one for every release called twice.
Conservation == available + Cardinality(Holding) = Permits + surplus

\* A permit never lies unused while somebody waits for one (a lost wake-up), so an
\* arrival never overtakes the line either: acquire's fast path is closed to it.
NoIdlePermit == waiters # <<>> => available = 0

\* The three together: the count of permits is exact in every interleaving.
PermitsAreKept == SemaphoreTypeOK /\ Conservation /\ NoIdlePermit

\* The closures in the line are exactly those of the suspended callers, one each.
LineMatches ==
  /\ Waiting = ToSet(waiters)
  /\ \A i, j \in DOMAIN waiters : waiters[i] = waiters[j] => i = j

\* The inductive invariant behind the theorems of SemaphoreProofs.
SemaphoreInv == SemaphoreTypeOK /\ Conservation /\ NoIdlePermit /\ LineMatches

\* "Semaphore ensures at most N tasks run simultaneously" (semaphore.ts:10-11).
AtMostPermits == Cardinality(Holding) <= Permits

\* The promise: an ordered line in front of Permits places, and of one more for
\* every Release called twice.
Promise == INSTANCE SemaphorePromise
             WITH Users <- Callers, Limit <- Permits, places <- Permits + surplus,
                  holders <- Holding, line <- waiters
KeepsPromise == Promise!FairSpec

\* No starvation: whoever waits runs in the end, however often others come back.
WaiterRuns == \A c \in Callers : pc[c] = "waiting" ~> pc[c] = "running"
=============================================================================
