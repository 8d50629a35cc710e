-------------------------- MODULE SemaphorePromise --------------------------
(***************************************************************************)
(* What a counting semaphore promises, without saying how: never more      *)
(* holders than places, nobody is admitted past the line, and the line     *)
(* moves as soon as somebody leaves.  A Release function called once more  *)
(* than it should be adds a place.  Semaphore.tla implements it.           *)
(***************************************************************************)
EXTENDS Integers, Sequences, SequencesExt

CONSTANTS Users,  \* the callers
          Limit   \* how many may hold a permit at once, to begin with

VARIABLES places,   \* how many may hold a permit at once
          holders,  \* the users holding a permit
          line      \* the users waiting for one, in order of arrival

specVars == <<places, holders, line>>

Init == places = Limit /\ holders = {} /\ line = <<>>

\* A permit is free: it is taken at once.  Nobody can be waiting then.
Enter(u) ==
  /\ u \notin holders
  /\ line = <<>>
  /\ Cardinality(holders) < places
  /\ holders' = holders \cup {u}
  /\ UNCHANGED <<places, line>>

\* No permit is free: join the end of the line.
Join(u) ==
  /\ u \notin holders \cup ToSet(line)
  /\ Cardinality(holders) = places
  /\ line' = Append(line, u)
  /\ UNCHANGED <<places, holders>>

\* Leaving hands the permit to the head of the line, in the same step.
Leave(u) ==
  /\ u \in holders
  /\ UNCHANGED places
  /\ IF line = <<>>
     THEN holders' = holders \ {u} /\ UNCHANGED line
     ELSE holders' = (holders \ {u}) \cup {Head(line)} /\ line' = Tail(line)

\* A surplus release makes room for one more, the head of the line if there is one.
Grow ==
  /\ places' = places + 1
  /\ IF line = <<>>
     THEN UNCHANGED <<holders, line>>
     ELSE holders' = holders \cup {Head(line)} /\ line' = Tail(line)

Next == Grow \/ \E u \in Users : Enter(u) \/ Join(u) \/ Leave(u)

Spec == Init /\ [][Next]_specVars

\* A holder does not keep its permit for ever.
FairSpec == Spec /\ \A u \in Users : WF_specVars(Leave(u))
=============================================================================
