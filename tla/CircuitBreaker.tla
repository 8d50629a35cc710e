--------------------------- MODULE CircuitBreaker ---------------------------
(***************************************************************************)
(* src/async/circuit-breaker.ts: createInstance.                           *)
(*                                                                         *)
(* The run() of a protected task is cut where it awaits the task: Run is   *)
(* all that happens before, Settle all that happens after.  Between them   *)
(* other calls come and go and the breaker may change its state, so that a *)
(* result may arrive in another state than the one its call was let        *)
(* through in.  "age" is Date.now() - openedAt, cut off at the timeout.    *)
(***************************************************************************)
EXTENDS Integers, Sequences, FiniteSets, SequencesExt

CONSTANTS Users,             \* concurrent users of protected tasks
          FailureThreshold,  \* the three fields of CircuitBreakerPolicy
          SuccessThreshold,
          Timeout,           \* in ticks of the clock
          MaxSetBacks        \* bound on how often the clock is set back

ASSUME BreakerAssumption ==
  /\ {FailureThreshold, SuccessThreshold, Timeout} \subseteq Nat \ {0}
  /\ MaxSetBacks \in Nat

VARIABLES currentState,  \* let currentState
          failureCount,  \* let failureCount
          successCount,  \* let successCount
          age,           \* how long ago openedAt is
          callAt,        \* where each caller is
          probes,        \* history: running calls let through in this half-open period
          results,       \* history: the last results seen in this period, oldest first
          setBacks       \* history: how often the clock was set back

breakerVars == <<currentState, failureCount, successCount, age>>
circuitVars == <<breakerVars, callAt, probes, results, setBacks>>

BreakerInit ==
  /\ currentState = "closed" /\ failureCount = 0 /\ successCount = 0
  /\ age = Timeout
  /\ callAt = [c \in Users |-> "idle"]
  /\ probes = {} /\ results = <<>> /\ setBacks = 0

\* A new period begins: none of its calls has run, none of its results been seen.
NewPeriod == probes' = {} /\ results' = <<>>

\* As many of the last results as any property looks at.
Remember(result) ==
  LET all == Append(results, result)
  IN  IF Len(all) > FailureThreshold + SuccessThreshold THEN Tail(all) ELSE all

ShouldTransitionToHalfOpen == currentState = "open" /\ age >= Timeout

TransitionToOpen ==
  /\ currentState' = "open"
  /\ failureCount' = 0 /\ successCount' = 0
  /\ age' = 0
  /\ NewPeriod

TransitionToClosed ==
  /\ currentState' = "closed"
  /\ failureCount' = 0 /\ successCount' = 0
  /\ NewPeriod
  /\ UNCHANGED age

-----------------------------------------------------------------------------
\* run(), up to the call of the task: the first call after the cooldown makes the
\* breaker half-open; an open breaker answers CircuitOpen.
LetThrough(c) == callAt' = [callAt EXCEPT ![c] = "running"]

Run(c) ==
  /\ callAt[c] = "idle"
  /\ UNCHANGED <<failureCount, age, setBacks>>
  /\ \/ /\ ShouldTransitionToHalfOpen
        /\ currentState' = "half-open" /\ successCount' = 0
        /\ LetThrough(c)
        /\ probes' = {c} /\ results' = <<>>
     \/ /\ currentState = "open" /\ ~ShouldTransitionToHalfOpen
        /\ callAt' = [callAt EXCEPT ![c] = "rejected"]
        /\ UNCHANGED <<currentState, successCount, probes, results>>
     \/ /\ currentState # "open"
        /\ LetThrough(c)
        /\ probes' = IF currentState = "half-open" THEN probes \cup {c} ELSE probes
        /\ UNCHANGED <<currentState, successCount, results>>

\* The caller has seen the CircuitOpen error, and may come back.
SeeRejection(c) ==
  /\ callAt[c] = "rejected"
  /\ callAt' = [callAt EXCEPT ![c] = "idle"]
  /\ UNCHANGED <<breakerVars, probes, results, setBacks>>

\* A result that changes counters only.
Counted(c, result) ==
  /\ probes' = probes \ {c}
  /\ results' = Remember(result)
  /\ UNCHANGED <<currentState, age>>

\* A result that comes too late for the state the breaker is in.
Ignored(c) == probes' = probes \ {c} /\ UNCHANGED <<breakerVars, results>>

\* Mutant of OnSuccess: successes do not interrupt a run of failures.
OnSuccessKeepsFailures(c) ==
  \/ /\ currentState = "half-open" /\ successCount + 1 >= SuccessThreshold
     /\ TransitionToClosed
  \/ /\ currentState = "half-open" /\ successCount + 1 < SuccessThreshold
     /\ successCount' = successCount + 1
     /\ Counted(c, "ok") /\ UNCHANGED failureCount
  \/ /\ currentState = "closed"
     /\ Counted(c, "ok") /\ UNCHANGED <<failureCount, successCount>>
  \/ currentState = "open" /\ Ignored(c)

\* Mutant of OnSuccess: a half-open breaker goes on counting past its threshold.
OnSuccessNeverCloses(c) ==
  \/ /\ currentState = "half-open"
     /\ successCount' = IF successCount < SuccessThreshold THEN successCount + 1 ELSE successCount
     /\ Counted(c, "ok") /\ UNCHANGED failureCount
  \/ /\ currentState = "closed"
     /\ failureCount' = 0
     /\ Counted(c, "ok") /\ UNCHANGED successCount
  \/ currentState = "open" /\ Ignored(c)

OnSuccess(c) ==
  \/ /\ currentState = "half-open" /\ successCount + 1 >= SuccessThreshold
     /\ TransitionToClosed
  \/ /\ currentState = "half-open" /\ successCount + 1 < SuccessThreshold
     /\ successCount' = successCount + 1
     /\ Counted(c, "ok") /\ UNCHANGED failureCount
  \/ /\ currentState = "closed"
     /\ failureCount' = 0
     /\ Counted(c, "ok") /\ UNCHANGED successCount
  \/ currentState = "open" /\ Ignored(c)

\* Mutant of OnFailure: every failure of an open breaker opens it anew.
OnFailureReopens(c) ==
  \/ currentState # "closed" /\ TransitionToOpen
  \/ /\ currentState = "closed" /\ failureCount + 1 >= FailureThreshold
     /\ TransitionToOpen
  \/ /\ currentState = "closed" /\ failureCount + 1 < FailureThreshold
     /\ failureCount' = failureCount + 1
     /\ Counted(c, "err") /\ UNCHANGED successCount

OnFailure(c) ==
  \/ currentState = "half-open" /\ TransitionToOpen
  \/ /\ currentState = "closed" /\ failureCount + 1 >= FailureThreshold
     /\ TransitionToOpen
  \/ /\ currentState = "closed" /\ failureCount + 1 < FailureThreshold
     /\ failureCount' = failureCount + 1
     /\ Counted(c, "err") /\ UNCHANGED successCount
  \/ currentState = "open" /\ Ignored(c)

\* The task answers, in whatever state the breaker is by then.
Settle(c) ==
  /\ callAt[c] = "running"
  /\ callAt' = [callAt EXCEPT ![c] = "idle"]
  /\ OnSuccess(c) \/ OnFailure(c)
  /\ UNCHANGED setBacks

\* The task's promise is rejected: run() ends without counting anything.
Throws(c) ==
  /\ callAt[c] = "running"
  /\ callAt' = [callAt EXCEPT ![c] = "idle"]
  /\ Ignored(c)
  /\ UNCHANGED setBacks

\* reset(), by anybody at any time.
Reset == TransitionToClosed /\ UNCHANGED <<callAt, setBacks>>

\* The clock goes on, or is set back by up to a timeout.
Tick ==
  /\ age < Timeout
  /\ age' = age + 1
  /\ UNCHANGED <<currentState, failureCount, successCount, callAt, probes, results, setBacks>>

SetBack ==
  /\ setBacks < MaxSetBacks
  /\ setBacks' = setBacks + 1
  /\ \E behind \in 1..Timeout : age' = age - behind
  /\ UNCHANGED <<currentState, failureCount, successCount, callAt, probes, results>>

BreakerNext ==
  \/ \E c \in Users : Run(c) \/ SeeRejection(c) \/ Settle(c) \/ Throws(c)
  \/ Reset \/ Tick \/ SetBack

BreakerSpec == BreakerInit /\ [][BreakerNext]_circuitVars

\* Time passes, the service goes on being called, and no caller's tasks are
\* rejected for ever.
FairBreaker ==
  /\ BreakerSpec
  /\ WF_circuitVars(Tick)
  /\ \A c \in Users : WF_circuitVars(Run(c)) /\ WF_circuitVars(SeeRejection(c)) /\ SF_circuitVars(Settle(c))
-----------------------------------------------------------------------------
BreakerTypeOK ==
  /\ currentState \in {"closed", "open", "half-open"}
  /\ failureCount \in 0..(FailureThreshold - 1)
  /\ successCount \in 0..(SuccessThreshold - 1)
  /\ age \in (-(MaxSetBacks * Timeout))..Timeout
  /\ callAt \in [Users -> {"idle", "running", "rejected"}]
  /\ probes \subseteq Users
  /\ results \in Seq({"ok", "err"})
  /\ setBacks \in 0..MaxSetBacks

\* How many results at the end of the list are failures.
TrailingFailures ==
  LET tails == {n \in 0..Len(results) : \A i \in (Len(results) - n + 1)..Len(results) : results[i] = "err"}
  IN  CHOOSE n \in tails : \A m \in tails : m <= n

\* "Number of consecutive failures before opening", "consecutive successes in
\* half-open to close" (circuit-breaker.ts:52-54): the counters are the length of
\* the run of failures that is going on, or of successes, among the results seen
\* since the breaker last changed its state, in whatever order calls overlapped.
CountsAreConsecutive ==
  /\ currentState = "closed" => failureCount = TrailingFailures
  /\ currentState = "half-open" => results = [i \in 1..successCount |-> "ok"]
  /\ currentState = "open" => failureCount = 0 /\ successCount = 0

\* So that the thresholds are never passed unnoticed.
ResultsAreCounted == BreakerTypeOK /\ CountsAreConsecutive

\* Results of calls let through before the breaker opened neither close it nor
\* prolong the cooldown, however late they arrive.
OpenIgnoresResults ==
  [][currentState = "open" /\ (\E c \in Users : Settle(c) \/ Throws(c)) =>
       UNCHANGED breakerVars]_circuitVars

\* An open breaker gives the service another chance.
OpenEnds == currentState = "open" ~> currentState # "open"

\* A half-open period comes to a verdict as long as calls are answered: no call that
\* hangs, is rejected or is left over from earlier leaves the breaker half-open.
HalfOpenEnds == currentState = "half-open" ~> currentState # "half-open"

\* A breaker that has opened comes back to letting calls through, one way or the other.
BreakerRecovers == OpenEnds /\ HalfOpenEnds

-----------------------------------------------------------------------------
\* What the comments promise and the code does not do.

\* "HALF_OPEN: one probe request is allowed" (circuit-breaker.ts:19)
OneProbe == currentState = "half-open" => Cardinality(probes) <= 1
=============================================================================
