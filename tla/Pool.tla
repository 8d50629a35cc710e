-------------------------------- MODULE Pool --------------------------------
(***************************************************************************)
(* src/async/pool.ts: createPool.                                          *)
(*                                                                         *)
(* acquireImpl is cut into steps where it awaits: tryAcquireIdle always    *)
(* yields before its answer is used ("gotIdle", "noIdle"), validate and    *)
(* create are user promises ("validating", "creating"), and a full pool    *)
(* makes the caller wait ("waiting").  Anything else may run in between,   *)
(* except that the event loop runs timers only when no continuation is     *)
(* due.  A resource is destroyed in the background except by drain, which  *)
(* awaits its own; a waiter that is handed a resource is shown holding it  *)
(* at once, since its continuation touches nothing shared.                 *)
(***************************************************************************)
EXTENDS Integers, Sequences, FiniteSets, SequencesExt

CONSTANTS Callers,      \* concurrent users of the pool
          Drains,       \* calls of drain()
          MaxSize,      \* options.maxSize
          Validate,     \* options.validate is given
          IdleTimeout,  \* options.idleTimeout is given and positive
          MaxCreated,   \* bound on the resources ever created
          None          \* no resource, no drain

ASSUME PoolAssumption ==
  /\ IsFiniteSet(Callers)
  /\ MaxSize \in Nat \ {0}
  /\ MaxCreated \in Nat
  /\ {Validate, IdleTimeout} \subseteq BOOLEAN
  /\ None \notin Drains \cup Nat

VARIABLES idle,          \* const idleResources
          timers,        \* resources whose idle timer is set
          activeCount,   \* let activeCount
          draining,      \* let draining
          waiters,       \* const waiters
          drainResolve,  \* let drainResolve, the drain it would resolve
          pc,            \* where each caller is in acquireImpl
          res,           \* the resource a caller has in hand
          released,      \* the flag of each caller's PooledResource
          drainPc,       \* where each drain is
          toDestroy,     \* its idleToDestroy
          created,       \* number of resources created
          destroying,    \* resources whose destroy is running
          destroyed,     \* resources whose destroy has settled
          overlapped     \* history: two acquires were in flight at once

poolVars == <<idle, timers, activeCount, waiters, drainResolve>>
callerVars == <<pc, res, released>>
drainVars == <<drainPc, toDestroy>>
resourceVars == <<created, destroying, destroyed>>
vars == <<poolVars, draining, callerVars, drainVars, resourceVars, overlapped>>

Resources == 1..MaxCreated
InFlight == {c \in Callers : pc[c] \in {"gotIdle", "noIdle", "validating", "creating"}}
Holders == {c \in Callers : pc[c] = "holding"}

\* Nothing is due before the next turn of the event loop.
NoMicrotask == \A c \in Callers : pc[c] \notin {"gotIdle", "noIdle"}

Init ==
  /\ idle = <<>> /\ timers = {} /\ activeCount = 0 /\ draining = FALSE
  /\ waiters = <<>> /\ drainResolve = None
  /\ pc = [c \in Callers |-> "out"]
  /\ res = [c \in Callers |-> None]
  /\ released = [c \in Callers |-> TRUE]
  /\ drainPc = [d \in Drains |-> "none"]
  /\ toDestroy = [d \in Drains |-> <<>>]
  /\ created = 0 /\ destroying = {} /\ destroyed = {}
  /\ overlapped = FALSE

-----------------------------------------------------------------------------
\* checkDrainComplete, given the new counts, together with the drain that is
\* settling by itself in the same step, if any.
Resolve(d) == IF d = None THEN drainPc ELSE [drainPc EXCEPT ![d] = "resolved"]

CheckDrainComplete(active, entries) ==
  IF draining /\ active = 0 /\ entries = <<>>
  THEN drainPc' = Resolve(drainResolve) /\ drainResolve' = None
  ELSE UNCHANGED <<drainPc, drainResolve>>

\* Mutant of TryAcquireIdle: the entry is validated while it stays in the list.
TryAcquireIdleInPlace(c) ==
  IF idle = <<>>
  THEN pc' = [pc EXCEPT ![c] = "noIdle"] /\ res' = [res EXCEPT ![c] = None]
       /\ UNCHANGED <<idle, timers>>
  ELSE /\ UNCHANGED idle
       /\ timers' = timers \ {Head(idle)}
       /\ res' = [res EXCEPT ![c] = Head(idle)]
       /\ pc' = [pc EXCEPT ![c] = IF Validate THEN "validating" ELSE "gotIdle"]

\* One round of the loop in tryAcquireIdle: the oldest idle entry leaves the list
\* and its timer is cleared before it is validated.
TryAcquireIdle(c) ==
  IF idle = <<>>
  THEN pc' = [pc EXCEPT ![c] = "noIdle"] /\ res' = [res EXCEPT ![c] = None]
       /\ UNCHANGED <<idle, timers>>
  ELSE /\ idle' = Tail(idle)
       /\ timers' = timers \ {Head(idle)}
       /\ res' = [res EXCEPT ![c] = Head(idle)]
       /\ pc' = [pc EXCEPT ![c] = IF Validate THEN "validating" ELSE "gotIdle"]

\* acquire(), up to its first await.
Acquire(c) ==
  /\ pc[c] = "out"
  /\ UNCHANGED <<activeCount, draining, waiters, drainResolve, released, drainVars, resourceVars>>
  /\ IF draining
     THEN pc' = [pc EXCEPT ![c] = "refused"] /\ UNCHANGED <<idle, timers, res, overlapped>>
     ELSE TryAcquireIdle(c) /\ overlapped' = (overlapped \/ InFlight # {})

\* validate settles.  An unhealthy resource is discarded and the loop goes on; a
\* validate that throws counts as unhealthy.
ValidateSettles(c) ==
  /\ pc[c] = "validating"
  /\ UNCHANGED <<activeCount, draining, waiters, drainResolve, released, drainVars,
                 created, destroyed, overlapped>>
  /\ \/ /\ pc' = [pc EXCEPT ![c] = "gotIdle"]
        /\ UNCHANGED <<idle, timers, res, destroying>>
     \/ /\ destroying' = destroying \cup {res[c]}
        /\ TryAcquireIdle(c)

Hold(c, r) ==
  /\ pc' = [pc EXCEPT ![c] = "holding"]
  /\ res' = [res EXCEPT ![c] = r]
  /\ released' = [released EXCEPT ![c] = FALSE]

\* acquireImpl goes on with an idle resource.
GotIdle(c) ==
  /\ pc[c] = "gotIdle"
  /\ activeCount' = activeCount + 1
  /\ Hold(c, res[c])
  /\ UNCHANGED <<idle, timers, waiters, drainResolve, draining, drainVars, resourceVars, overlapped>>

\* Mutant of NoIdle: the limit is off by one.
NoIdleOffByOne(c) ==
  /\ pc[c] = "noIdle"
  /\ IF Len(idle) + activeCount <= MaxSize
     THEN pc' = [pc EXCEPT ![c] = "creating"] /\ UNCHANGED waiters
     ELSE pc' = [pc EXCEPT ![c] = "waiting"] /\ waiters' = Append(waiters, c)
  /\ UNCHANGED <<idle, timers, activeCount, drainResolve, draining, res, released, drainVars,
                 resourceVars, overlapped>>

\* acquireImpl goes on with none: below maxSize it creates one, else it waits.
NoIdle(c) ==
  /\ pc[c] = "noIdle"
  /\ IF Len(idle) + activeCount < MaxSize
     THEN pc' = [pc EXCEPT ![c] = "creating"] /\ UNCHANGED waiters
     ELSE pc' = [pc EXCEPT ![c] = "waiting"] /\ waiters' = Append(waiters, c)
  /\ UNCHANGED <<idle, timers, activeCount, drainResolve, draining, res, released, drainVars,
                 resourceVars, overlapped>>

\* create settles: with a resource, or by throwing, which answers Err.
CreateSettles(c) ==
  /\ pc[c] = "creating"
  /\ UNCHANGED <<idle, timers, waiters, drainResolve, draining, drainVars, destroying, destroyed,
                 overlapped>>
  /\ \/ /\ created < MaxCreated
        /\ created' = created + 1
        /\ activeCount' = activeCount + 1
        /\ Hold(c, created + 1)
     \/ /\ pc' = [pc EXCEPT ![c] = "out"]
        /\ UNCHANGED <<activeCount, created, res, released>>

-----------------------------------------------------------------------------
\* The three ends of a resource that is returned: destroyed in the background,
\* handed to the waiter at the head of the line, or idle with its timer started.
Discard(c, r) ==
  /\ activeCount' = activeCount - 1
  /\ destroying' = destroying \cup {r}
  /\ pc' = [pc EXCEPT ![c] = "out"] /\ released' = [released EXCEPT ![c] = TRUE]
  /\ UNCHANGED <<idle, timers, waiters, res>>

\* Mutant of HandOver: the waiter that came last has it.
HandOverToNewest(c, r) ==
  LET w == Last(waiters)
  IN  /\ waiters # <<>>
      /\ waiters' = Front(waiters)
      /\ pc' = [pc EXCEPT ![c] = "out", ![w] = "holding"]
      /\ res' = [res EXCEPT ![w] = r]
      /\ released' = [released EXCEPT ![c] = TRUE, ![w] = FALSE]
      /\ UNCHANGED <<idle, timers, drainResolve, drainPc, destroying>>

HandOver(c, r) ==
  LET w == Head(waiters)
  IN  /\ waiters # <<>>
      /\ waiters' = Tail(waiters)
      /\ pc' = [pc EXCEPT ![c] = "out", ![w] = "holding"]
      /\ res' = [res EXCEPT ![w] = r]
      /\ released' = [released EXCEPT ![c] = TRUE, ![w] = FALSE]
      /\ UNCHANGED <<idle, timers, drainResolve, drainPc, destroying>>

PutBack(c, r) ==
  /\ waiters = <<>>
  /\ activeCount' = activeCount - 1
  /\ idle' = Append(idle, r)
  /\ timers' = IF IdleTimeout THEN timers \cup {r} ELSE timers
  /\ pc' = [pc EXCEPT ![c] = "out"] /\ released' = [released EXCEPT ![c] = TRUE]
  /\ UNCHANGED <<waiters, drainResolve, drainPc, res, destroying>>

\* Mutants of ReturnToPool: a draining pool is not noticed, and it does not look whether
\* it is empty.
ReturnToPoolIgnoresDrain(c, r) ==
  \/ HandOver(c, r) /\ UNCHANGED activeCount
  \/ PutBack(c, r)

ReturnToPoolUnchecked(c, r) ==
  \/ draining /\ Discard(c, r) /\ UNCHANGED <<drainPc, drainResolve>>
  \/ ~draining /\ HandOver(c, r) /\ UNCHANGED activeCount
  \/ ~draining /\ PutBack(c, r)

\* returnToPool.  The hand-over counts down and up again in one step.
ReturnToPool(c, r) ==
  \/ draining /\ Discard(c, r) /\ CheckDrainComplete(activeCount - 1, idle)
  \/ ~draining /\ HandOver(c, r) /\ UNCHANGED activeCount
  \/ ~draining /\ PutBack(c, r)

\* release(), called by use()'s finally or by the caller, and by a careless one
\* again: the flag makes the second call do nothing.
Release(c) ==
  /\ pc[c] \in {"holding", "out"} /\ res[c] # None
  /\ ~released[c]
  /\ ReturnToPool(c, res[c])
  /\ UNCHANGED <<draining, toDestroy, created, destroyed, overlapped>>

\* The idle timer of a resource fires: it is destroyed if it is still idle.
IdleTimerFires(r) ==
  /\ r \in timers /\ NoMicrotask
  /\ timers' = timers \ {r}
  /\ \/ \E i \in DOMAIN idle : /\ idle[i] = r
                              /\ idle' = RemoveAt(idle, i)
                              /\ destroying' = destroying \cup {r}
                              /\ CheckDrainComplete(activeCount, idle')
     \/ ~Contains(idle, r) /\ UNCHANGED <<idle, destroying, drainPc, drainResolve>>
  /\ UNCHANGED <<activeCount, waiters, draining, callerVars, toDestroy, created, destroyed, overlapped>>

-----------------------------------------------------------------------------
\* A destroy settles, by result or by throwing.
DestroySettles(r) ==
  /\ r \in destroying
  /\ destroying' = destroying \ {r}
  /\ destroyed' = destroyed \cup {r}
  /\ UNCHANGED <<poolVars, draining, callerVars, drainVars, created, overlapped>>

\* The end of drain(): it returns when nothing is in use, otherwise it leaves its
\* resolve function where the last release will find it.
DrainEnds(d) ==
  IF activeCount = 0
  THEN /\ drainPc' = [Resolve(drainResolve) EXCEPT ![d] = "resolved"]
       /\ drainResolve' = None
  ELSE drainPc' = [drainPc EXCEPT ![d] = "waiting"] /\ drainResolve' = d

\* drain(), up to its first await: it takes the idle entries and starts to destroy
\* the first, whose timer it clears.
Drain(d) ==
  /\ drainPc[d] = "none"
  /\ draining' = TRUE
  /\ idle' = <<>>
  /\ toDestroy' = [toDestroy EXCEPT ![d] = idle]
  /\ IF idle = <<>>
     THEN DrainEnds(d) /\ UNCHANGED <<timers, destroying>>
     ELSE /\ drainPc' = [drainPc EXCEPT ![d] = "destroying"]
          /\ timers' = timers \ {Head(idle)}
          /\ destroying' = destroying \cup {Head(idle)}
          /\ UNCHANGED drainResolve
  /\ UNCHANGED <<activeCount, waiters, callerVars, created, destroyed, overlapped>>

\* The destroy that drain() awaits has settled: the next entry, or the end.
DrainStep(d) ==
  /\ drainPc[d] = "destroying"
  /\ Head(toDestroy[d]) \in destroyed
  /\ toDestroy' = [toDestroy EXCEPT ![d] = Tail(@)]
  /\ LET rest == Tail(toDestroy[d])
     IN  IF rest = <<>>
         THEN DrainEnds(d) /\ UNCHANGED <<timers, destroying>>
         ELSE /\ timers' = timers \ {Head(rest)}
              /\ destroying' = destroying \cup {Head(rest)}
              /\ UNCHANGED <<drainPc, drainResolve>>
  /\ UNCHANGED <<idle, activeCount, draining, waiters, callerVars, created, destroyed, overlapped>>

Next ==
  \/ \E c \in Callers : \/ Acquire(c) \/ ValidateSettles(c) \/ GotIdle(c) \/ NoIdle(c)
                        \/ CreateSettles(c) \/ Release(c)
  \/ \E r \in Resources : IdleTimerFires(r) \/ DestroySettles(r)
  \/ \E d \in Drains : Drain(d) \/ DrainStep(d)

Spec == Init /\ [][Next]_vars

\* The user's promises settle, continuations run and holders release in the end.
Fairness ==
  /\ \A c \in Callers : /\ WF_vars(ValidateSettles(c)) /\ WF_vars(GotIdle(c))
                        /\ WF_vars(NoIdle(c)) /\ WF_vars(CreateSettles(c))
                        /\ WF_vars(Release(c))
  /\ \A r \in Resources : WF_vars(DestroySettles(r))
  /\ \A d \in Drains : WF_vars(DrainStep(d))
FairSpec == Spec /\ Fairness
-----------------------------------------------------------------------------
TypeOK ==
  /\ idle \in Seq(Resources) /\ timers \subseteq Resources
  /\ activeCount \in 0..Cardinality(Callers)
  /\ {draining, overlapped} \subseteq BOOLEAN
  /\ waiters \in Seq(Callers)
  /\ drainResolve \in Drains \cup {None}
  /\ pc \in [Callers -> {"out", "refused", "validating", "gotIdle", "noIdle", "creating",
                         "waiting", "holding"}]
  /\ res \in [Callers -> Resources \cup {None}]
  /\ released \in [Callers -> BOOLEAN]
  /\ drainPc \in [Drains -> {"none", "destroying", "waiting", "resolved"}]
  /\ toDestroy \in [Drains -> Seq(Resources)]
  /\ created \in 0..MaxCreated
  /\ destroying \cup destroyed \subseteq Resources

\* The places a resource is in.
InHand(r) == {c \in Callers : res[c] = r /\ pc[c] \in {"validating", "gotIdle", "holding"}}
Places(r) ==
  {<<"idle", i>> : i \in {j \in DOMAIN idle : idle[j] = r}}
  \cup {<<"hand", c>> : c \in InHand(r)}
  \cup {<<"drain", d>> : d \in {e \in Drains : \E j \in 2..Len(toDestroy[e]) : toDestroy[e][j] = r}}
  \cup (IF r \in destroying THEN {"destroying"} ELSE {})
  \cup (IF r \in destroyed THEN {"destroyed"} ELSE {})

\* A resource is never given to two callers, never destroyed while in use, never
\* used after its idle timer or a drain took it, never destroyed twice at a time,
\* and never forgotten: each one created is in exactly one place.
OnePlace == \A r \in 1..created : Cardinality(Places(r)) = 1

\* activeCount, on which the size limit and the end of a drain depend, is the
\* number of callers that hold a resource: a release called twice, a hand-over
\* and a failed create all leave it right.
CountIsTrue == activeCount = Cardinality(Holders)

\* The two together: the pool knows where its resources are.
ResourcesAreCounted == TypeOK /\ OnePlace /\ CountIsTrue

\* Once the pool drains nothing becomes idle again, so that nothing escapes
\* destruction, whatever was in flight when drain() was called.
DrainingIsEmpty == draining => idle = <<>>

\* As long as no two acquires were ever in flight together the pool keeps to its
\* size, the resource being validated included, and the promise of "maxSize" holds.
SerialFits ==
  ~overlapped =>
    Len(idle) + Cardinality({c \in Callers : pc[c] \in {"validating", "gotIdle", "creating", "holding"}})
      <= MaxSize

Lent == [c \in Callers |-> IF pc[c] = "holding" THEN res[c] ELSE None]

\* The pool, seen as what it has lent, what is gone and who waits.
Promise == INSTANCE PoolPromise
             WITH lent <- Lent, made <- created, gone <- destroying \cup destroyed,
                  line <- waiters, closing <- draining

\* What a pool awaits does not show: a resource that is validated, handed over, timed out or
\* drained in between is lent to one caller, in order of arrival, or retired for good.
LendsAsPromised == Promise!Spec

\* A drain on its own resolves: no release, create or validation that was in
\* flight makes it hang.
DrainCompletes == \A d \in Drains : drainPc[d] # "none" ~> drainPc[d] = "resolved"

-----------------------------------------------------------------------------
\* What the comments promise and the code does not do.

\* "Maximum number of resources (idle + in-use) the pool will maintain."
SizeWithinMax == Len(idle) + activeCount <= MaxSize

\* "At maxSize: wait for a resource to be released": nobody waits past a resource
\* that has been released.
NobodyWaitsBesideIdle == waiters # <<>> => idle = <<>>
=============================================================================
