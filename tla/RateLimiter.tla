----------------------------- MODULE RateLimiter -----------------------------
(***************************************************************************)
(* src/async/rate-limiter.ts: a bucket of tokens that is refilled when it   *)
(* is looked at, by as many intervals as the clock says have passed.       *)
(***************************************************************************)
EXTENDS Integers, FiniteSetsExt

CONSTANTS Capacity, RefillRate, Interval,  \* the policy
          MaxClock                         \* bound on the clock

ASSUME LimiterAssumption == /\ {Capacity, RefillRate, MaxClock} \subseteq Nat
                            /\ Interval \in Nat \ {0}

VARIABLES tokens, lastRefill,
          clock,   \* Date.now()
          bucket   \* history: a bucket filled as each interval ends

limiterVars == <<tokens, lastRefill, clock, bucket>>

Full(since) == [tokens |-> Capacity, since |-> since, steady |-> TRUE]

Fewer == IF bucket.steady THEN [bucket EXCEPT !.tokens = @ - 1] ELSE bucket
Lost == [tokens |-> 0, since |-> 0, steady |-> FALSE]

LimiterInit ==
  /\ clock \in 0..MaxClock
  /\ tokens = Capacity /\ lastRefill = clock
  /\ bucket = Full(clock)

Elapsed == clock - lastRefill
Intervals == Elapsed \div Interval
Refilled == IF Elapsed >= Interval THEN Min({Capacity, tokens + Intervals * RefillRate}) ELSE tokens

\* Mutant of Refill: the part of an interval that has passed is forgotten.
RefillForgets == lastRefill' = IF Elapsed >= Interval THEN clock ELSE lastRefill

\* refill(), with its tokens in Refilled.
Refill == lastRefill' = IF Elapsed >= Interval THEN lastRefill + Intervals * Interval ELSE lastRefill

\* tryAcquire(), and wrap().run() up to the call of its task.
TryAcquire ==
  /\ Refill
  /\ UNCHANGED clock
  /\ \/ Refilled > 0 /\ tokens' = Refilled - 1 /\ bucket' = Fewer
     \/ Refilled = 0 /\ tokens' = 0 /\ UNCHANGED bucket

\* tokens().
Tokens == Refill /\ tokens' = Refilled /\ UNCHANGED <<clock, bucket>>

Reset == tokens' = Capacity /\ lastRefill' = clock /\ bucket' = Full(clock) /\ UNCHANGED clock

\* The clock goes on by one, or is set back.
Time ==
  /\ UNCHANGED <<tokens, lastRefill>>
  /\ \/ /\ clock < MaxClock /\ clock' = clock + 1
        /\ bucket' = IF bucket.steady /\ (clock' - bucket.since) % Interval = 0
                     THEN [bucket EXCEPT !.tokens = Min({Capacity, @ + RefillRate})]
                     ELSE bucket
     \/ clock' \in 0..(clock - 1) /\ bucket' = Lost

LimiterNext == TryAcquire \/ Tokens \/ Reset \/ Time

LimiterSpec == LimiterInit /\ [][LimiterNext]_limiterVars
-----------------------------------------------------------------------------
LimiterTypeOK ==
  /\ tokens \in 0..Capacity
  /\ lastRefill \in 0..MaxClock /\ clock \in 0..MaxClock
  /\ bucket.steady \in BOOLEAN

\* Filling the bucket only when somebody looks makes no difference: until the clock
\* is set back, what a call would find is what a bucket filled on time would hold.
LazyIsEager == bucket.steady => Refilled = bucket.tokens
=============================================================================
