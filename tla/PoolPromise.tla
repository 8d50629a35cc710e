----------------------------- MODULE PoolPromise -----------------------------
(***************************************************************************)
(* What a resource pool promises, without saying where its resources are   *)
(* or what the callers await: a resource is lent to one caller at a time,  *)
(* those who wait are served in the order in which they came, what is      *)
(* retired never comes back, and once the pool closes nothing that is      *)
(* given back is lent again.  Pool.tla implements it.                      *)
(***************************************************************************)
EXTENDS Integers, Sequences, SequencesExt

CONSTANTS Callers,     \* concurrent users of the pool
          MaxCreated,  \* bound on the resources ever made
          None         \* no resource

VARIABLES lent,     \* the resource that each caller has, or None
          made,     \* number of resources made
          gone,     \* the resources that are retired
          line,     \* the callers that wait, in order of arrival
          closing   \* has the pool been told to close?

specVars == <<lent, made, gone, line, closing>>

\* What the pool may lend or retire: what was made, is not gone and nobody has.
Spare == 1..made \ (gone \cup {lent[c] : c \in Callers})

Init ==
  /\ lent = [c \in Callers |-> None] /\ made = 0 /\ gone = {}
  /\ line = <<>> /\ closing = FALSE

Asks(c) == lent[c] = None /\ c \notin ToSet(line)

Make(c) ==
  /\ Asks(c) /\ made < MaxCreated
  /\ made' = made + 1
  /\ lent' = [lent EXCEPT ![c] = made + 1]
  /\ UNCHANGED <<gone, line, closing>>

\* It does not matter who waits: a resource goes to whoever asks in the right moment.
Lend(c, r) ==
  /\ Asks(c) /\ r \in Spare
  /\ lent' = [lent EXCEPT ![c] = r]
  /\ UNCHANGED <<made, gone, line, closing>>

Join(c) ==
  /\ Asks(c)
  /\ line' = Append(line, c)
  /\ UNCHANGED <<lent, made, gone, closing>>

\* A caller gives back what it has: to the head of the line, to nobody, or, while the
\* pool closes, for good.
GiveBack(c) ==
  /\ lent[c] # None
  /\ UNCHANGED <<made, closing>>
  /\ \/ /\ closing
        /\ lent' = [lent EXCEPT ![c] = None] /\ gone' = gone \cup {lent[c]}
        /\ UNCHANGED line
     \/ /\ ~closing /\ line # <<>>
        /\ lent' = [lent EXCEPT ![c] = None, ![Head(line)] = lent[c]] /\ line' = Tail(line)
        /\ UNCHANGED gone
     \/ /\ ~closing /\ line = <<>>
        /\ lent' = [lent EXCEPT ![c] = None]
        /\ UNCHANGED <<gone, line>>

\* A resource that nobody has is retired: it idles for too long, or is found ill.
Retire(r) ==
  /\ r \in Spare
  /\ gone' = gone \cup {r}
  /\ UNCHANGED <<lent, made, line, closing>>

\* The pool is told to close, and retires some of what nobody has at once.
Close(rs) ==
  /\ closing' = TRUE
  /\ gone' = gone \cup rs
  /\ UNCHANGED <<lent, made, line>>

Next ==
  \/ \E c \in Callers : Make(c) \/ Join(c) \/ GiveBack(c) \/ \E r \in Spare : Lend(c, r)
  \/ \E r \in Spare : Retire(r)
  \/ \E rs \in SUBSET Spare : Close(rs)

Spec == Init /\ [][Next]_specVars
=============================================================================
