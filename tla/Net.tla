-------------------------------- MODULE Net --------------------------------
(* io/net.ts and runtime/adapters/net-adapter.ts: a TCP connection, from      *)
(* connect() to its close, with several calls of receive() that may wait at   *)
(* the same time.                                                             *)
EXTENDS Naturals, FiniteSets, Sequences, SequencesExt

CONSTANTS MaxReceives,
          MaxArrivals  \* bound on the chunks that the peer sends

VARIABLES netRuntime, \* "deno" or "node"
          client,   \* the adapter as it is kept: "unknown", "none" or "ready"
          link,     \* the connection: "none", "open", "closed" or "refused"
          connects, \* what connect() answered: "none", "Ok" or "Err"
          arrived,  \* the number of chunks that have come
          waiting,  \* those that nobody has read yet: the runtime keeps them
          flowing,  \* Node: somebody has once listened for data
          receives  \* the calls of receive(): [read, closed, answer], the first two as they were at the call

netVars == <<netRuntime, client, link, connects, arrived, waiting, flowing, receives>>

Unsettled == [pending |-> TRUE]
ChunkOf(n) == [ok |-> n]
NetError == [err |-> TRUE]

PendingCalls == {c \in DOMAIN receives : receives[c].answer = Unsettled}
Settle(cs, answer) == [c \in DOMAIN receives |-> IF c \in cs THEN [receives[c] EXCEPT !.answer = answer] ELSE receives[c]]

\* Mutant of Rejected: nobody listens for the end.
RejectedNever == receives

\* An error, or the end, rejects the calls that wait.
Rejected == Settle(PendingCalls, NetError)

\* getClient(), once, and connect(); with no adapter there is nothing to connect with.
Connect(available, accepted) ==
  /\ connects = "none"
  /\ client' = IF client # "unknown" THEN client ELSE IF available THEN "ready" ELSE "none"
  /\ link' = IF client' = "none" THEN "none" ELSE IF accepted THEN "open" ELSE "refused"
  /\ connects' = IF link' = "open" THEN "Ok" ELSE "Err"
  /\ UNCHANGED <<netRuntime, arrived, waiting, flowing, receives>>

\* receive(): Node adds listeners, which makes the stream flow, and never takes them away;
\* Deno's read() is answered with what waits, or is queued.
Receive ==
  /\ connects = "Ok" /\ Len(receives) < MaxReceives
  /\ LET call == [read |-> arrived - Len(waiting), closed |-> link = "closed", answer |-> Unsettled]
     IN  IF netRuntime = "deno"
         THEN /\ receives' = Append(receives, [call EXCEPT !.answer =
                   IF waiting # <<>> THEN ChunkOf(Head(waiting)) ELSE IF link = "closed" THEN NetError ELSE @])
              /\ waiting' = IF waiting = <<>> THEN waiting ELSE Tail(waiting)
              /\ UNCHANGED flowing
         ELSE /\ receives' = Append(receives, call)
              /\ flowing' = TRUE
              /\ UNCHANGED waiting
  /\ UNCHANGED <<netRuntime, client, link, connects, arrived>>

\* The peer sends a chunk: on Deno, the first call that waits has it.
Arrive ==
  /\ link = "open" /\ arrived < MaxArrivals
  /\ arrived' = arrived + 1
  /\ IF netRuntime = "deno" /\ PendingCalls # {}
     THEN receives' = Settle({Min(PendingCalls)}, ChunkOf(arrived')) /\ UNCHANGED waiting
     ELSE waiting' = Append(waiting, arrived') /\ UNCHANGED receives
  /\ UNCHANGED <<netRuntime, client, link, connects, flowing>>

\* The data event of Node, while the stream flows: every call that waits has the chunk, and
\* with none it is gone.
EmitData ==
  /\ netRuntime = "node" /\ flowing /\ waiting # <<>>
  /\ waiting' = Tail(waiting)
  /\ receives' = Settle(PendingCalls, ChunkOf(Head(waiting)))
  /\ UNCHANGED <<netRuntime, client, link, connects, arrived, flowing>>

\* The end of the connection: close() or an error throw away what nobody has read, and the
\* peer's end comes after it.
Close(destroyed) ==
  /\ link = "open"
  /\ netRuntime = "node" => destroyed \/ waiting = <<>>
  /\ link' = "closed"
  /\ receives' = Rejected
  /\ waiting' = IF destroyed THEN <<>> ELSE waiting
  /\ UNCHANGED <<netRuntime, client, connects, arrived, flowing>>

NetInit ==
  /\ netRuntime \in {"deno", "node"}
  /\ client = "unknown" /\ link = "none" /\ connects = "none"
  /\ arrived = 0 /\ waiting = <<>> /\ flowing = FALSE /\ receives = <<>>

NetNext ==
  \/ \E available, accepted \in BOOLEAN : Connect(available, accepted)
  \/ Receive \/ Arrive \/ EmitData
  \/ \E destroyed \in BOOLEAN : Close(destroyed)

NetSpec == NetInit /\ [][NetNext]_netVars
-----------------------------------------------------------------------------
\* The calls that were answered with a chunk, and the chunk.
Told == {c \in DOMAIN receives : "ok" \in DOMAIN receives[c].answer}
ChunkTo(c) == receives[c].answer.ok

\* net.ts:31 "Receive the next chunk of data.": calls are answered in the order they were
\* made, one that follows an answer gets a later chunk, on Deno none is left out or given
\* twice, and what waits when the connection closes is told.
ReceivesAreOrdered ==
  /\ \A c, d \in Told : c < d => ChunkTo(c) <= ChunkTo(d)
  /\ \A c, d \in Told : c < d /\ ChunkTo(c) = ChunkTo(d) => netRuntime = "node" /\ receives[d].read < ChunkTo(c)
  /\ \A c \in Told, d \in PendingCalls : d > c
  /\ netRuntime = "deno" => {ChunkTo(c) : c \in Told} = 1..Cardinality(Told)
  /\ link = "closed" => \A c \in PendingCalls : receives[c].closed
=============================================================================
