----------------------------- MODULE StreamPush -----------------------------
(* async/stream.ts: the streams that push, merge() of several sources and       *)
(* debounce() of one.  They pull their sources all the time and answer next()   *)
(* out of a queue, or later through the one callback they keep; a call made     *)
(* while another waits takes its place.                                         *)
(*                                                                              *)
(* An item is the number of its source and its number there; a source yields    *)
(* its script and ends, or rejects.  How long debounce() waits is left open.    *)
EXTENDS Integers, Sequences, SequencesExt

CONSTANTS Scripts,   \* what a source may yield: sequences of "ok" and "err"
          MaxStreams,
          MaxCalls   \* bound on next()

VARIABLES kind,     \* "merge" or "debounce"
          scripts,  \* what each source will yield
          given,    \* how many items of it have been pulled
          state,    \* of each source: "pulling", "done" or "rejected"
          pumpTimer, \* debounce: the item whose time runs, or Nil
          queue,    \* items nobody has asked for
          waiting,  \* the call that will be answered next, or 0
          answers   \* history: what each call was answered

pushVars == <<kind, scripts, given, state, pumpTimer, queue, waiting, answers>>

Nil == <<0, 0>>
Over == <<0, 1>>
Numbers == DOMAIN scripts

PushInit ==
  /\ kind \in {"merge", "debounce"}
  /\ scripts \in UNION {[1..n -> Scripts] : n \in 0..MaxStreams}
  /\ kind = "debounce" => Len(scripts) = 1
  /\ given = [s \in Numbers |-> 0]
  /\ state = [s \in Numbers |-> "pulling"]
  /\ pumpTimer = Nil
  /\ queue = <<>> /\ waiting = 0 /\ answers = <<>>
-----------------------------------------------------------------------------
\* Mutant of Finished: debounce() does not look at its timer.
FinishedAtOnce(now) == \A s \in Numbers \ now : state[s] = "done"

\* The stream has no more items than the queue has, as the sources in "now" end:
\* debounce() flushes first.
Finished(now) == pumpTimer = Nil /\ \A s \in Numbers \ now : state[s] = "done"

\* Mutant of Wake: the end of the stream wakes nobody.
WakeIgnoresEnd(items, over) ==
  /\ waiting' = IF items # <<>> THEN 0 ELSE waiting
  /\ queue' = IF waiting # 0 /\ items # <<>> THEN Tail(items) ELSE items
  /\ answers' = IF waiting = 0 \/ items = <<>> THEN answers ELSE [answers EXCEPT ![waiting] = Head(items)]

\* wake(), with the items there are: the call that waits gets the first of them, or is
\* told that there will be none.
Wake(items, over) ==
  /\ waiting' = IF items # <<>> \/ over THEN 0 ELSE waiting
  /\ queue' = IF waiting # 0 /\ items # <<>> THEN Tail(items) ELSE items
  /\ answers' = IF waiting = 0 \/ (items = <<>> /\ ~over) THEN answers
                ELSE [answers EXCEPT ![waiting] = IF items # <<>> THEN Head(items) ELSE Over]

\* next(): answered at once if it can be, or else the call that is answered next.
Ask ==
  /\ Len(answers) < MaxCalls
  /\ IF queue # <<>> \/ Finished({})
     THEN /\ answers' = Append(answers, IF queue # <<>> THEN Head(queue) ELSE Over)
          /\ queue' = IF queue # <<>> THEN Tail(queue) ELSE queue
          /\ UNCHANGED waiting
     ELSE /\ answers' = Append(answers, Nil)
          /\ waiting' = Len(answers')
          /\ UNCHANGED queue
  /\ UNCHANGED <<kind, scripts, given, state, pumpTimer>>

Pulling(s) == state[s] = "pulling" /\ given[s] < Len(scripts[s])
Pulled(s) == given' = [given EXCEPT ![s] = @ + 1]
Item(s) == <<s, given[s] + 1>>
IsErrItem(item) == scripts[item[1]][item[2]] = "err"

\* merge(): an item of a source.
Merges(s) ==
  /\ kind = "merge" /\ Pulling(s) /\ Pulled(s)
  /\ Wake(Append(queue, Item(s)), FALSE)
  /\ UNCHANGED <<kind, scripts, state, pumpTimer>>

\* debounce(): an error goes into the queue, and an Ok takes the place of the one whose
\* time runs.
Pumps(s) ==
  /\ kind = "debounce" /\ Pulling(s) /\ Pulled(s)
  /\ IF IsErrItem(Item(s)) THEN Wake(Append(queue, Item(s)), FALSE) /\ UNCHANGED pumpTimer
     ELSE pumpTimer' = Item(s) /\ UNCHANGED <<queue, waiting, answers>>
  /\ UNCHANGED <<kind, scripts, state>>

\* debounce(): the time of an item is over.
Flushes ==
  /\ pumpTimer # Nil /\ pumpTimer' = Nil
  /\ Wake(Append(queue, pumpTimer), FALSE)
  /\ UNCHANGED <<kind, scripts, given, state>>

\* A source ends, and with the last of them the stream, if debounce() has nothing to flush.
Ends(s) ==
  /\ state[s] = "pulling" /\ given[s] = Len(scripts[s])
  /\ state' = [state EXCEPT ![s] = "done"]
  /\ Wake(queue, Finished({s}))
  /\ UNCHANGED <<kind, scripts, given, pumpTimer>>

\* A source rejects: nobody catches it, and nobody is told.
SourceRejects(s) ==
  /\ state[s] = "pulling"
  /\ state' = [state EXCEPT ![s] = "rejected"]
  /\ UNCHANGED <<kind, scripts, given, pumpTimer, queue, waiting, answers>>

PushNext == Ask \/ Flushes \/ \E s \in Numbers : Merges(s) \/ Pumps(s) \/ Ends(s) \/ SourceRejects(s)
PushSpec == PushInit /\ [][PushNext]_pushVars

\* A source that does not reject goes on, and timers fire.  Nobody has to call next().
GoesOn(s) == s \in Numbers /\ (Merges(s) \/ Pumps(s) \/ Ends(s))
FairPush == PushSpec /\ WF_pushVars(Flushes) /\ \A s \in 1..MaxStreams : WF_pushVars(GoesOn(s))
-----------------------------------------------------------------------------
\* What the calls were answered and what is left for them, in the order of the calls.
Held == answers \o queue \o (IF pumpTimer = Nil THEN <<>> ELSE <<pumpTimer>>)
Given == UNION {{<<s, n>> : n \in 1..given[s]} : s \in Numbers}

\* Items that stay in their order: those of a source, and with debounce() errors among
\* errors and Oks among Oks.
Alike(x, y) ==
  {x, y} \subseteq Given /\ x[1] = y[1] /\ (kind = "debounce" => (IsErrItem(x) <=> IsErrItem(y)))

\* An Ok that debounce() leaves out for a later one.
Superseded(x) ==
  /\ kind = "debounce" /\ ~IsErrItem(x)
  /\ \E y \in Given : ~IsErrItem(y) /\ x[2] < y[2] /\ Contains(Held, y)

\* No call waits behind another, and nobody waits while there are items.
OneWaits == waiting # 0 => queue = <<>> /\ answers[waiting] = Nil

\* However calls overlap, merge() hands over every item once and those of a source in
\* their order; debounce() hands over every error and leaves out only Oks that were
\* followed by another, in an order in which errors may overtake.  The end is told when
\* nothing is left, and nobody waits while there is something.
NothingIsLost ==
  /\ ToSet(Held) \subseteq Given \cup {Nil, Over}
  /\ \A i, j \in DOMAIN Held : i < j /\ Alike(Held[i], Held[j]) => Held[i][2] < Held[j][2]
  /\ \A x \in Given : Contains(Held, x) \/ Superseded(x)
  /\ Contains(answers, Over) => Finished({}) /\ queue = <<>>
  /\ OneWaits

\* A call of next() is answered unless a later one takes its place or a source rejects.
AskSettles ==
  waiting # 0 ~> waiting = 0 \/ \E s \in Numbers : state[s] = "rejected"
=============================================================================
