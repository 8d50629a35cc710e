--------------------------- MODULE ChannelPromise ---------------------------
(***************************************************************************)
(* What a bounded channel promises, without saying where the values are:   *)
(* there is one line of them.  A value joins the end and leaves from the   *)
(* head; a receiver waits only while the line is empty.  The capacity      *)
(* shows nowhere but at close(): the values that had room stay in the      *)
(* line, the others are refused.  Channel.tla implements it.               *)
(***************************************************************************)
EXTENDS Integers, Sequences, SequencesExt

CONSTANTS Receivers,  \* the consumer loops
          Capacity,   \* how many values have room
          MaxSends    \* bound on the number of values

VARIABLES line,       \* the values in the channel, the oldest first
          closed,     \* has it been closed?
          sent,       \* number of values so far
          refused,    \* the values nobody will see
          delivered,  \* the values given to receivers, in order
          waiting,    \* the receivers waiting for a value, in order of arrival
          ended       \* the receivers that were told that there is none

specVars == <<line, closed, sent, refused, delivered, waiting, ended>>

Init ==
  /\ line = <<>> /\ closed = FALSE /\ sent = 0 /\ refused = {}
  /\ delivered = <<>> /\ waiting = <<>> /\ ended = {}

\* A value arrives: too late, while somebody waits for it, or to join the line.
Put ==
  /\ sent < MaxSends
  /\ sent' = sent + 1
  /\ UNCHANGED <<closed, ended>>
  /\ \/ /\ closed
        /\ refused' = refused \cup {sent + 1}
        /\ UNCHANGED <<line, delivered, waiting>>
     \/ /\ ~closed /\ waiting # <<>> /\ line = <<>>
        /\ delivered' = Append(delivered, sent + 1)
        /\ waiting' = Tail(waiting)
        /\ UNCHANGED <<line, refused>>
     \/ /\ ~closed /\ waiting = <<>>
        /\ line' = Append(line, sent + 1)
        /\ UNCHANGED <<refused, delivered, waiting>>

\* A receiver asks: it is given the oldest value, told that there will be none, or waits.
Get(r) ==
  /\ r \notin ended \cup ToSet(waiting)
  /\ UNCHANGED <<closed, sent, refused>>
  /\ \/ /\ line # <<>>
        /\ delivered' = Append(delivered, Head(line))
        /\ line' = Tail(line)
        /\ UNCHANGED <<waiting, ended>>
     \/ /\ line = <<>> /\ closed
        /\ ended' = ended \cup {r}
        /\ UNCHANGED <<line, delivered, waiting>>
     \/ /\ line = <<>> /\ ~closed
        /\ waiting' = Append(waiting, r)
        /\ UNCHANGED <<line, delivered, ended>>

\* How many values of the line have room.
Room == IF Len(line) < Capacity THEN Len(line) ELSE Capacity

\* The channel closes: what has room stays, the rest is refused, and those who wait end.
Shut ==
  /\ closed' = TRUE
  /\ line' = SubSeq(line, 1, Room)
  /\ refused' = refused \cup {line[i] : i \in (Room + 1)..Len(line)}
  /\ ended' = ended \cup ToSet(waiting)
  /\ waiting' = <<>>
  /\ UNCHANGED <<sent, delivered>>

Next == Put \/ Shut \/ \E r \in Receivers : Get(r)

Spec == Init /\ [][Next]_specVars
=============================================================================
