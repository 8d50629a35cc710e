------------------------------ MODULE Channel ------------------------------
(***************************************************************************)
(* src/async/channel.ts: createBoundedChannel (createUnboundedChannel is a *)
(* capacity no run reaches).                                               *)
(*                                                                         *)
(* Values are numbered in the order of the send() calls, so that the order *)
(* of delivery can be read off a value; a send may be awaited or not, and  *)
(* any number of them may be outstanding.  A receiver is one "for await"   *)
(* loop: it calls next(), waits for it to settle, and calls it again until *)
(* it is told done.  send, next and close run to completion: one step each.*)
(***************************************************************************)
EXTENDS Integers, Sequences, SequencesExt

CONSTANTS Receivers,  \* the consumer loops
          Capacity,   \* the argument of Channel.bounded
          MaxSends    \* bound on the number of send() calls

ASSUME ChannelAssumption == Capacity \in Nat /\ MaxSends \in Nat

VARIABLES buffer,          \* const buffer
          closed,          \* let closed
          sendWaiters,     \* const sendWaiters, the values of the blocked sends
          receiveWaiters,  \* const receiveWaiters, the blocked receivers
          sent,            \* number of send() calls so far
          answer,          \* what the promise of each send holds
          delivered,       \* history: the values given to receivers, in order
          receiverAt       \* where each receiver is

channelVars == <<buffer, closed, sendWaiters, receiveWaiters, sent, answer, delivered, receiverAt>>

Values == 1..MaxSends

ChannelInit ==
  /\ buffer = <<>>
  /\ closed = FALSE
  /\ sendWaiters = <<>>
  /\ receiveWaiters = <<>>
  /\ sent = 0
  /\ answer = [v \in Values |-> "none"]
  /\ delivered = <<>>
  /\ receiverAt = [r \in Receivers |-> "ready"]

-----------------------------------------------------------------------------
\* Mutant of Take: the value that moves up overtakes those in the buffer.
TakeRefillsFirst(r) ==
  /\ buffer # <<>>
  /\ delivered' = Append(delivered, Head(buffer))
  /\ IF sendWaiters = <<>>
     THEN buffer' = Tail(buffer) /\ UNCHANGED <<sendWaiters, answer>>
     ELSE /\ buffer' = <<Head(sendWaiters)>> \o Tail(buffer)
          /\ sendWaiters' = Tail(sendWaiters)
          /\ answer' = [answer EXCEPT ![Head(sendWaiters)] = "accepted"]
  /\ UNCHANGED <<receiveWaiters, receiverAt>>

-----------------------------------------------------------------------------

\* send() on a channel that is closed answers false.
Refuse(v) ==
  /\ closed
  /\ answer' = [answer EXCEPT ![v] = "refused"]
  /\ UNCHANGED <<buffer, sendWaiters, receiveWaiters, delivered, receiverAt>>

\* send() hands the value to the receiver that has waited longest.
HandOver(v) ==
  /\ ~closed /\ receiveWaiters # <<>>
  /\ receiveWaiters' = Tail(receiveWaiters)
  /\ receiverAt' = [receiverAt EXCEPT ![Head(receiveWaiters)] = "ready"]
  /\ delivered' = Append(delivered, v)
  /\ answer' = [answer EXCEPT ![v] = "accepted"]
  /\ UNCHANGED <<buffer, sendWaiters>>

\* send() finds room.
Buffer(v) ==
  /\ ~closed /\ receiveWaiters = <<>> /\ Len(buffer) < Capacity
  /\ buffer' = Append(buffer, v)
  /\ answer' = [answer EXCEPT ![v] = "accepted"]
  /\ UNCHANGED <<sendWaiters, receiveWaiters, delivered, receiverAt>>

\* send() finds none and blocks.
Block(v) ==
  /\ ~closed /\ receiveWaiters = <<>> /\ Len(buffer) >= Capacity
  /\ sendWaiters' = Append(sendWaiters, v)
  /\ answer' = [answer EXCEPT ![v] = "pending"]
  /\ UNCHANGED <<buffer, receiveWaiters, delivered, receiverAt>>

Send ==
  /\ sent < MaxSends
  /\ sent' = sent + 1
  /\ UNCHANGED closed
  /\ LET v == sent + 1 IN Refuse(v) \/ HandOver(v) \/ Buffer(v) \/ Block(v)

\* next() takes the oldest buffered value and lets the sender that has been
\* blocked longest into the place it leaves (tryReceiveFromBuffer).
Take(r) ==
  /\ buffer # <<>>
  /\ delivered' = Append(delivered, Head(buffer))
  /\ IF sendWaiters = <<>>
     THEN buffer' = Tail(buffer) /\ UNCHANGED <<sendWaiters, answer>>
     ELSE /\ buffer' = Append(Tail(buffer), Head(sendWaiters))
          /\ sendWaiters' = Tail(sendWaiters)
          /\ answer' = [answer EXCEPT ![Head(sendWaiters)] = "accepted"]
  /\ UNCHANGED <<receiveWaiters, receiverAt>>

\* next() finds nothing, now or ever.
Finish(r) ==
  /\ buffer = <<>> /\ closed /\ sendWaiters = <<>>
  /\ receiverAt' = [receiverAt EXCEPT ![r] = "done"]
  /\ UNCHANGED <<buffer, sendWaiters, answer, receiveWaiters, delivered>>

\* next() finds nothing yet.
Wait(r) ==
  /\ buffer = <<>> /\ ~(closed /\ sendWaiters = <<>>)
  /\ receiveWaiters' = Append(receiveWaiters, r)
  /\ receiverAt' = [receiverAt EXCEPT ![r] = "waiting"]
  /\ UNCHANGED <<buffer, sendWaiters, answer, delivered>>

Receive(r) ==
  /\ receiverAt[r] = "ready"
  /\ UNCHANGED <<closed, sent>>
  /\ Take(r) \/ Finish(r) \/ Wait(r)

\* Mutant of Close: the waiting receivers are forgotten.
CloseForgetsReceivers ==
  /\ closed' = TRUE
  /\ answer' = [v \in Values |-> IF v \in ToSet(sendWaiters) THEN "refused" ELSE answer[v]]
  /\ sendWaiters' = <<>>
  /\ UNCHANGED <<buffer, receiveWaiters, receiverAt, sent, delivered>>

\* Mutant of Close: the values that were accepted are dropped.
CloseDropsBuffer ==
  /\ closed' = TRUE
  /\ answer' = [v \in Values |-> IF v \in ToSet(sendWaiters) THEN "refused" ELSE answer[v]]
  /\ sendWaiters' = <<>>
  /\ receiverAt' = [r \in Receivers |-> IF r \in ToSet(receiveWaiters) THEN "done" ELSE receiverAt[r]]
  /\ receiveWaiters' = <<>>
  /\ buffer' = <<>>
  /\ UNCHANGED <<sent, delivered>>

\* close(): every blocked send answers false, every waiting receiver is told done.
Close ==
  /\ closed' = TRUE
  /\ answer' = [v \in Values |-> IF v \in ToSet(sendWaiters) THEN "refused" ELSE answer[v]]
  /\ sendWaiters' = <<>>
  /\ receiverAt' = [r \in Receivers |-> IF r \in ToSet(receiveWaiters) THEN "done" ELSE receiverAt[r]]
  /\ receiveWaiters' = <<>>
  /\ UNCHANGED <<buffer, sent, delivered>>

ChannelNext == Send \/ Close \/ \E r \in Receivers : Receive(r)

ChannelSpec == ChannelInit /\ [][ChannelNext]_channelVars

\* A consumer loop that is told a value asks for the next one.  Nobody has to send
\* or to close.
FairChannel == ChannelSpec /\ \A r \in Receivers : WF_channelVars(Receive(r))
-----------------------------------------------------------------------------
ChannelTypeOK ==
  /\ buffer \in Seq(Values) /\ Len(buffer) <= Capacity
  /\ closed \in BOOLEAN
  /\ sendWaiters \in Seq(Values)
  /\ receiveWaiters \in Seq(Receivers)
  /\ sent \in 0..MaxSends
  /\ answer \in [Values -> {"none", "pending", "accepted", "refused"}]
  /\ delivered \in Seq(Values)
  /\ receiverAt \in [Receivers -> {"ready", "waiting", "done"}]

\* Values come out in the order they went in, whichever receiver gets them and
\* whether they were handed over, buffered or blocked: what was delivered, what is
\* buffered and what is blocked are, in this order, the first values sent.
Fifo ==
  /\ \A i \in DOMAIN delivered : delivered[i] = i
  /\ \A i \in DOMAIN buffer : buffer[i] = Len(delivered) + i
  /\ \A i \in DOMAIN sendWaiters : sendWaiters[i] = Len(delivered) + Len(buffer) + i
  /\ ~closed => sent = Len(delivered) + Len(buffer) + Len(sendWaiters)

\* Nobody waits for what is already there: a receiver waits only on a channel with
\* nothing in it and nobody at its door, a sender only on a full one.
NoStall ==
  /\ receiveWaiters # <<>> => buffer = <<>> /\ sendWaiters = <<>>
  /\ sendWaiters # <<>> => Len(buffer) = Capacity

\* After close() nobody is left waiting, and nobody starts to.
ClosedIsQuiet == closed => sendWaiters = <<>> /\ receiveWaiters = <<>>

\* A sender is told the truth: true exactly when its value is buffered or has been
\* delivered, nothing while it is blocked, and false for a value nobody will see.
AnswersAreTrue ==
  /\ \A v \in Values :
       answer[v] = "accepted" <=> v \in ToSet(buffer) \cup ToSet(delivered)
  /\ \A v \in Values : answer[v] = "pending" <=> v \in ToSet(sendWaiters)
  /\ \A v \in Values : answer[v] = "none" <=> v > sent

\* A consumer loop ends only when the channel is closed and everything that was
\* accepted has been received.
DoneIsDrained == \A r \in Receivers : receiverAt[r] = "done" => closed /\ buffer = <<>>

\* Every value sent moves through the channel once, in order, without being held up, and
\* both sides are told the truth about what became of it.
ValuesMove == ChannelTypeOK /\ Fifo /\ NoStall /\ AnswersAreTrue /\ DoneIsDrained

\* The waiting receivers are exactly those in line, one entry each.
ReceiversMatch ==
  /\ ToSet(receiveWaiters) = {r \in Receivers : receiverAt[r] = "waiting"}
  /\ \A i, j \in DOMAIN receiveWaiters : receiveWaiters[i] = receiveWaiters[j] => i = j

\* The inductive invariant behind the theorems of ChannelProofs.
ChannelInv ==
  /\ ChannelTypeOK /\ Fifo /\ NoStall /\ ClosedIsQuiet
  /\ AnswersAreTrue /\ DoneIsDrained /\ ReceiversMatch

-----------------------------------------------------------------------------
Told(word) == {v \in Values : answer[v] = word}
Ended == {r \in Receivers : receiverAt[r] = "done"}

\* The channel, seen as one line of values: the buffer with the blocked senders behind it.
Line == INSTANCE ChannelPromise
          WITH line <- buffer \o sendWaiters, refused <- Told("refused"),
               waiting <- receiveWaiters, ended <- Ended

\* Nobody can tell a channel from one line of values (ChannelPromise): neither the buffer,
\* nor the hand-over, nor the place a blocked value moves up to (channel.ts:69) shows.
ActsAsOneLine == Line!Spec
-----------------------------------------------------------------------------
\* "receive: Completes when channel is closed" (channel.ts:43), for every consumer.
Completes == closed ~> \A r \in Receivers : receiverAt[r] = "done"

\* Blocked sends are answered as long as somebody consumes: sends are bounded in number,
\* so that the time comes when none is left.
SendSettles == []<>(sendWaiters = <<>>)

\* Nobody is left waiting: neither the consumers of a closed channel nor blocked senders.
ChannelSettles == Completes /\ SendSettles
=============================================================================
