--------------------------- MODULE ChannelProofs ---------------------------
(***************************************************************************)
(* Channel.tla for every capacity of at least one, any number of consumers *)
(* and any number of sends.  The inductive invariant is ChannelInv.  Its   *)
(* heart is Fifo, which makes the set of values in each place an interval  *)
(* of the numbers sent; what a sender was answered (AnswersAreTrue) then   *)
(* follows by arithmetic on the ends of the intervals.  The second part is *)
(* about StreamPush.tla, the streams that hold what nobody asked for yet:  *)
(* its invariant PushInv says of the items held which comes before which,  *)
(* so that it does not matter where they are.                              *)
(***************************************************************************)
EXTENDS Channel, StreamPush, TLAPS

USE ChannelAssumption

\* A sequence of consecutive numbers holds exactly those numbers.
LEMMA Interval ==
  ASSUME NEW s \in Seq(Values), NEW k \in Nat, \A i \in DOMAIN s : s[i] = k + i
  PROVE  ToSet(s) = (k + 1)..(k + Len(s))
  <1>1. ASSUME NEW v \in (k + 1)..(k + Len(s))
        PROVE  v \in ToSet(s)
    <2>1. v - k \in DOMAIN s /\ s[v - k] = v
      OBVIOUS
    <2>2. QED
      BY <2>1 DEF ToSet
  <1>2. ToSet(s) \subseteq (k + 1)..(k + Len(s))
    BY DEF ToSet
  <1>3. QED
    BY <1>1, <1>2

\* Where the values are, as intervals.
Places ==
  /\ ToSet(delivered) = 1..Len(delivered)
  /\ ToSet(buffer) = (Len(delivered) + 1)..(Len(delivered) + Len(buffer))
  /\ ToSet(sendWaiters) = (Len(delivered) + Len(buffer) + 1)
                               ..(Len(delivered) + Len(buffer) + Len(sendWaiters))

LEMMA FifoPlaces == ChannelTypeOK /\ Fifo => Places
  <1> SUFFICES ASSUME ChannelTypeOK, Fifo PROVE Places
    OBVIOUS
  <1>1. ToSet(delivered) = (0 + 1)..(0 + Len(delivered))
    <2>1. delivered \in Seq(Values) /\ \A i \in DOMAIN delivered : delivered[i] = 0 + i
      BY DEF ChannelTypeOK, Fifo
    <2>2. QED
      BY <2>1, Interval
  <1>2. ToSet(buffer) = (Len(delivered) + 1)..(Len(delivered) + Len(buffer))
    BY Interval DEF ChannelTypeOK, Fifo
  <1>3. ToSet(sendWaiters) = ((Len(delivered) + Len(buffer)) + 1)
                                  ..((Len(delivered) + Len(buffer)) + Len(sendWaiters))
    <2>1. Len(delivered) + Len(buffer) \in Nat
      BY DEF ChannelTypeOK
    <2>2. QED
      BY <2>1, Interval DEF ChannelTypeOK, Fifo
  <1>4. QED
    BY <1>1, <1>2, <1>3 DEF Places, ChannelTypeOK

LEMMA FifoPlacesNext == ChannelTypeOK' /\ Fifo' => Places'
  BY FifoPlaces, PTL

\* The answers, told from the intervals instead of the sets.
Answers(d, b, w) ==
  \A v \in Values :
    /\ answer[v] = "accepted" <=> v <= d + b
    /\ answer[v] = "pending" <=> v > d + b /\ v <= d + b + w
    /\ answer[v] = "none" <=> v > sent

LEMMA AnswersByPlace ==
  ChannelTypeOK /\ Places => (AnswersAreTrue <=> Answers(Len(delivered), Len(buffer), Len(sendWaiters)))
  <1> SUFFICES ASSUME ChannelTypeOK, Places
               PROVE  AnswersAreTrue <=> Answers(Len(delivered), Len(buffer), Len(sendWaiters))
    OBVIOUS
  <1>1. /\ Len(delivered) \in Nat /\ Len(buffer) \in Nat /\ Len(sendWaiters) \in Nat
        /\ Values \subseteq Nat \ {0}
    BY DEF ChannelTypeOK, Values
  <1>2. \A v \in Values : /\ v \in ToSet(buffer) \cup ToSet(delivered)
                                <=> v <= Len(delivered) + Len(buffer)
                          /\ v \in ToSet(sendWaiters)
                                <=> /\ v > Len(delivered) + Len(buffer)
                                    /\ v <= Len(delivered) + Len(buffer) + Len(sendWaiters)
    BY <1>1 DEF Places
  <1>3. QED
    BY <1>2 DEF AnswersAreTrue, Answers

LEMMA AnswersByPlaceNext ==
  ChannelTypeOK' /\ Places' =>
    (AnswersAreTrue' <=> Answers(Len(delivered), Len(buffer), Len(sendWaiters))')
  BY AnswersByPlace, PTL

LEMMA InitIInv == Capacity >= 1 /\ ChannelInit => ChannelInv
  <1> SUFFICES ASSUME Capacity >= 1, ChannelInit PROVE ChannelInv
    OBVIOUS
  <1>1. Len(<<>>) = 0 /\ DOMAIN <<>> = {} /\ <<>> \in Seq(Values) /\ <<>> \in Seq(Receivers)
    OBVIOUS
  <1>2. ChannelTypeOK
    <2>1. answer \in [Values -> {"none", "pending", "accepted", "refused"}]
      BY DEF ChannelInit
    <2>2. receiverAt \in [Receivers -> {"ready", "waiting", "done"}]
      BY DEF ChannelInit
    <2>3. /\ buffer \in Seq(Values) /\ Len(buffer) <= Capacity
          /\ sendWaiters \in Seq(Values) /\ receiveWaiters \in Seq(Receivers)
          /\ delivered \in Seq(Values)
      BY <1>1 DEF ChannelInit
    <2>4. sent \in 0..MaxSends
      BY DEF ChannelInit
    <2>5. closed \in BOOLEAN
      BY DEF ChannelInit
    <2>6. QED
      BY <2>1, <2>2, <2>3, <2>4, <2>5 DEF ChannelTypeOK
  <1>3. Fifo
    BY <1>1 DEF ChannelInit, Fifo
  <1>4. AnswersAreTrue
    BY DEF ChannelInit, AnswersAreTrue, ToSet, Values
  <1>5. NoStall /\ ClosedIsQuiet /\ DoneIsDrained /\ ReceiversMatch
    BY DEF ChannelInit, NoStall, ClosedIsQuiet, DoneIsDrained, ReceiversMatch, ToSet
  <1>6. QED
    BY <1>2, <1>3, <1>4, <1>5 DEF ChannelInv

-----------------------------------------------------------------------------
\* What is known of the state in every step lemma below.
LEMMA Lengths ==
  ASSUME ChannelTypeOK
  PROVE  /\ Len(delivered) \in Nat /\ Len(buffer) \in Nat /\ Len(sendWaiters) \in Nat
         /\ sent \in Nat /\ Values \subseteq Nat \ {0}
  BY DEF ChannelTypeOK, Values

\* send() on a closed channel.
LEMMA RefuseIInv ==
  ASSUME ChannelInv, Send, Refuse(sent + 1)
  PROVE  ChannelInv'
  <1> DEFINE v == sent + 1
  <1> USE DEF ChannelInv
  <1>1. /\ closed /\ closed' = closed /\ sent' = v /\ v \in Values
        /\ UNCHANGED <<buffer, sendWaiters, receiveWaiters, delivered, receiverAt>>
        /\ answer' = [answer EXCEPT ![v] = "refused"]
    BY DEF Send, Refuse, ChannelTypeOK, Values
  <1>2. ChannelTypeOK'
    BY <1>1 DEF ChannelTypeOK, Values
  <1>3. Fifo'
    BY <1>1 DEF Fifo
  <1>4. Places /\ Places'
    BY <1>2, <1>3, FifoPlaces, FifoPlacesNext
  <1>5. Answers(Len(delivered), Len(buffer), Len(sendWaiters))
    BY <1>4, AnswersByPlace
  <1>6. answer[v] = "none"
    BY <1>1, Lengths DEF AnswersAreTrue
  <1>7. Answers(Len(delivered), Len(buffer), Len(sendWaiters))'
    BY <1>1, <1>5, <1>6, Lengths DEF Answers, ChannelTypeOK
  <1>8. AnswersAreTrue'
    BY <1>2, <1>4, <1>7, AnswersByPlaceNext
  <1>9. NoStall' /\ ClosedIsQuiet' /\ DoneIsDrained' /\ ReceiversMatch'
    BY <1>1 DEF NoStall, ClosedIsQuiet, DoneIsDrained, ReceiversMatch
  <1>10. QED
    BY <1>2, <1>3, <1>8, <1>9

\* A line from which the head leaves and becomes s2, the others staying suspended.
LEMMA ReceiversAfterHead ==
  ASSUME ChannelTypeOK, ReceiversMatch, receiveWaiters # <<>>,
         receiveWaiters' = Tail(receiveWaiters),
         receiverAt' = [receiverAt EXCEPT ![Head(receiveWaiters)] = "ready"]
  PROVE  Head(receiveWaiters) \in Receivers /\ ReceiversMatch'
  <1> DEFINE h == Head(receiveWaiters)
  <1>1. /\ receiveWaiters \in Seq(Receivers) /\ Len(receiveWaiters) >= 1
        /\ h = receiveWaiters[1] /\ h \in Receivers
        /\ Len(receiveWaiters') = Len(receiveWaiters) - 1
        /\ \A i \in DOMAIN receiveWaiters' : receiveWaiters'[i] = receiveWaiters[i + 1]
    BY DEF ChannelTypeOK
  <1>2. \A i, j \in DOMAIN receiveWaiters' : receiveWaiters'[i] = receiveWaiters'[j] => i = j
    BY <1>1 DEF ChannelTypeOK, ReceiversMatch
  <1>3. ASSUME NEW r \in Receivers, receiverAt'[r] = "waiting"
        PROVE  r \in ToSet(receiveWaiters)'
    <2>1. r # h /\ receiverAt[r] = "waiting"
      BY <1>1, <1>3 DEF ChannelTypeOK
    <2>2. PICK i \in DOMAIN receiveWaiters : receiveWaiters[i] = r
      BY <2>1 DEF ReceiversMatch, ToSet
    <2>3. i \in 2..Len(receiveWaiters)
      BY <1>1, <2>1, <2>2
    <2>4. i - 1 \in DOMAIN receiveWaiters' /\ receiveWaiters'[i - 1] = r
      BY <1>1, <2>2, <2>3
    <2>5. QED
      BY <2>4 DEF ToSet
  <1>4. ASSUME NEW i \in DOMAIN receiveWaiters'
        PROVE  receiveWaiters'[i] \in Receivers /\ receiverAt'[receiveWaiters'[i]] = "waiting"
    <2>1. i + 1 \in DOMAIN receiveWaiters /\ receiveWaiters'[i] = receiveWaiters[i + 1]
      BY <1>1, <1>4
    <2>2. receiveWaiters[i + 1] \in Receivers /\ receiverAt[receiveWaiters[i + 1]] = "waiting"
      BY <2>1 DEF ReceiversMatch, ToSet
    <2>3. receiveWaiters[i + 1] # h
      BY <1>1, <2>1 DEF ReceiversMatch
    <2>4. QED
      BY <2>1, <2>2, <2>3 DEF ChannelTypeOK
  <1>5. QED
    BY <1>1, <1>2, <1>3, <1>4 DEF ReceiversMatch, ToSet

\* send() with a receiver waiting: the channel is empty, so the value is the next
\* one due.
LEMMA HandOverIInv ==
  ASSUME Capacity >= 1, ChannelInv, Send, HandOver(sent + 1)
  PROVE  ChannelInv'
  <1> DEFINE v == sent + 1
  <1> USE DEF ChannelInv
  <1>1. /\ ~closed /\ closed' = closed /\ sent' = v /\ v \in Values
        /\ receiveWaiters # <<>> /\ receiveWaiters' = Tail(receiveWaiters)
        /\ receiverAt' = [receiverAt EXCEPT ![Head(receiveWaiters)] = "ready"]
        /\ delivered' = Append(delivered, v)
        /\ answer' = [answer EXCEPT ![v] = "accepted"]
        /\ UNCHANGED <<buffer, sendWaiters>>
    BY DEF Send, HandOver, ChannelTypeOK, Values
  <1>2. buffer = <<>> /\ sendWaiters = <<>>
    BY <1>1 DEF NoStall
  <1>3. Head(receiveWaiters) \in Receivers /\ ReceiversMatch'
    BY <1>1, ReceiversAfterHead
  <1>4. ChannelTypeOK'
    BY <1>1, <1>3 DEF ChannelTypeOK, Values
  <1>5. sent = Len(delivered)
    BY <1>1, <1>2, Lengths DEF Fifo
  <1>6. Fifo'
    BY <1>1, <1>2, <1>5 DEF Fifo, ChannelTypeOK
  <1>7. Places /\ Places'
    BY <1>4, <1>6, FifoPlaces, FifoPlacesNext
  <1>8. Answers(Len(delivered), Len(buffer), Len(sendWaiters))
    BY <1>7, AnswersByPlace
  <1>9. Len(delivered') = v /\ Len(buffer') = 0 /\ Len(sendWaiters') = 0
    BY <1>1, <1>2, <1>5 DEF ChannelTypeOK
  <1>10. Answers(Len(delivered), Len(buffer), Len(sendWaiters))'
    BY <1>1, <1>2, <1>5, <1>8, <1>9, Lengths DEF Answers, ChannelTypeOK
  <1>11. AnswersAreTrue'
    BY <1>4, <1>7, <1>10, AnswersByPlaceNext
  <1>12. NoStall' /\ ClosedIsQuiet' /\ DoneIsDrained'
    BY <1>1, <1>2, <1>3 DEF NoStall, ClosedIsQuiet, DoneIsDrained, ChannelTypeOK
  <1>13. QED
    BY <1>3, <1>4, <1>6, <1>11, <1>12

\* send() with room in the buffer: nobody else can be blocked.
LEMMA BufferIInv ==
  ASSUME Capacity >= 1, ChannelInv, Send, Buffer(sent + 1)
  PROVE  ChannelInv'
  <1> DEFINE v == sent + 1
  <1> USE DEF ChannelInv
  <1>1. /\ ~closed /\ closed' = closed /\ sent' = v /\ v \in Values
        /\ receiveWaiters = <<>> /\ Len(buffer) < Capacity
        /\ buffer' = Append(buffer, v)
        /\ answer' = [answer EXCEPT ![v] = "accepted"]
        /\ UNCHANGED <<sendWaiters, receiveWaiters, delivered, receiverAt>>
    BY DEF Send, Buffer, ChannelTypeOK, Values
  <1>2. sendWaiters = <<>>
    BY <1>1, Lengths DEF NoStall
  <1>3. ChannelTypeOK'
    BY <1>1 DEF ChannelTypeOK, Values
  <1>4. sent = Len(delivered) + Len(buffer)
    BY <1>1, <1>2, Lengths DEF Fifo
  <1>5. Len(buffer') = Len(buffer) + 1
    BY <1>1 DEF ChannelTypeOK
  <1>6. Fifo'
    BY <1>1, <1>2, <1>4, <1>5 DEF Fifo, ChannelTypeOK
  <1>7. Places /\ Places'
    BY <1>3, <1>6, FifoPlaces, FifoPlacesNext
  <1>8. Answers(Len(delivered), Len(buffer), Len(sendWaiters))
    BY <1>7, AnswersByPlace
  <1>9. Answers(Len(delivered), Len(buffer), Len(sendWaiters))'
    BY <1>1, <1>2, <1>4, <1>5, <1>8, Lengths DEF Answers, ChannelTypeOK
  <1>10. AnswersAreTrue'
    BY <1>3, <1>7, <1>9, AnswersByPlaceNext
  <1>11. NoStall' /\ ClosedIsQuiet' /\ DoneIsDrained' /\ ReceiversMatch'
    BY <1>1, <1>2 DEF NoStall, ClosedIsQuiet, DoneIsDrained, ReceiversMatch, ChannelTypeOK
  <1>12. QED
    BY <1>3, <1>6, <1>10, <1>11

\* send() that blocks: the buffer is full.
LEMMA BlockIInv ==
  ASSUME Capacity >= 1, ChannelInv, Send, Block(sent + 1)
  PROVE  ChannelInv'
  <1> DEFINE v == sent + 1
  <1> USE DEF ChannelInv
  <1>1. /\ ~closed /\ closed' = closed /\ sent' = v /\ v \in Values
        /\ receiveWaiters = <<>> /\ Len(buffer) >= Capacity
        /\ sendWaiters' = Append(sendWaiters, v)
        /\ answer' = [answer EXCEPT ![v] = "pending"]
        /\ UNCHANGED <<buffer, receiveWaiters, delivered, receiverAt>>
    BY DEF Send, Block, ChannelTypeOK, Values
  <1>2. ChannelTypeOK'
    BY <1>1 DEF ChannelTypeOK, Values
  <1>3. sent = Len(delivered) + Len(buffer) + Len(sendWaiters)
    BY <1>1 DEF Fifo
  <1>4. Len(sendWaiters') = Len(sendWaiters) + 1
    BY <1>1 DEF ChannelTypeOK
  <1>5. Fifo'
    <2>1. ASSUME NEW i \in DOMAIN sendWaiters'
          PROVE  sendWaiters'[i] = Len(delivered) + Len(buffer) + i
      <3>1. CASE i = Len(sendWaiters) + 1
        BY <1>1, <1>3, <3>1, Lengths DEF ChannelTypeOK
      <3>2. CASE i \in DOMAIN sendWaiters
        BY <1>1, <3>2 DEF Fifo, ChannelTypeOK
      <3>3. QED
        BY <1>1, <1>4, <3>1, <3>2 DEF ChannelTypeOK
    <2>2. sent' = Len(delivered) + Len(buffer) + Len(sendWaiters')
      BY <1>1, <1>3, <1>4, Lengths
    <2>3. QED
      BY <1>1, <2>1, <2>2 DEF Fifo
  <1>6. Places /\ Places'
    BY <1>2, <1>5, FifoPlaces, FifoPlacesNext
  <1>7. Answers(Len(delivered), Len(buffer), Len(sendWaiters))
    BY <1>6, AnswersByPlace
  <1>8. Answers(Len(delivered), Len(buffer), Len(sendWaiters))'
    <2> DEFINE d == Len(delivered)
               b == Len(buffer)
               w == Len(sendWaiters)
    <2>1. ASSUME NEW u \in Values
          PROVE  /\ answer'[u] = "accepted" <=> u <= d + b
                 /\ answer'[u] = "pending" <=> u > d + b /\ u <= d + b + (w + 1)
                 /\ answer'[u] = "none" <=> u > sent + 1
      <3>1. CASE u = v
        BY <1>1, <1>3, <3>1, Lengths DEF ChannelTypeOK
      <3>2. CASE u # v
        <4>1. answer'[u] = answer[u]
          BY <1>1, <3>2 DEF ChannelTypeOK
        <4>2. /\ answer[u] = "accepted" <=> u <= d + b
              /\ answer[u] = "pending" <=> u > d + b /\ u <= d + b + w
              /\ answer[u] = "none" <=> u > sent
          BY <1>7 DEF Answers
        <4>3. {d, b, w, u} \subseteq Nat /\ sent = d + b + w /\ u # sent + 1
          BY <1>3, <3>2, Lengths
        <4> HIDE DEF d, b, w
        <4>4. u <= d + b + (w + 1) <=> u <= d + b + w
          BY <4>3
        <4>5. u > sent + 1 <=> u > sent
          BY <4>3
        <4>6. QED
          BY <4>1, <4>2, <4>4, <4>5
      <3>3. QED
        BY <3>1, <3>2
    <2>2. QED
      BY <1>1, <1>4, <2>1 DEF Answers
  <1>9. AnswersAreTrue'
    BY <1>2, <1>6, <1>8, AnswersByPlaceNext
  <1>10. NoStall' /\ ClosedIsQuiet' /\ DoneIsDrained' /\ ReceiversMatch'
    BY <1>1 DEF NoStall, ClosedIsQuiet, DoneIsDrained, ReceiversMatch, ChannelTypeOK
  <1>11. QED
    BY <1>2, <1>5, <1>9, <1>10

LEMMA SendIInv ==
  ASSUME Capacity >= 1, ChannelInv, Send
  PROVE  ChannelInv'
  BY RefuseIInv, HandOverIInv, BufferIInv, BlockIInv DEF Send

\* next() on a non-empty buffer: the first blocked value moves up behind the rest
\* of the buffer, so the intervals shift by one and keep their order.
LEMMA TakeIInv ==
  ASSUME Capacity >= 1, ChannelInv, NEW r \in Receivers, Receive(r), Take(r)
  PROVE  ChannelInv'
  <1> USE DEF ChannelInv
  <1> DEFINE d == Len(delivered)
             b == Len(buffer)
             w == Len(sendWaiters)
  <1>1. /\ buffer # <<>> /\ delivered' = Append(delivered, Head(buffer))
        /\ UNCHANGED <<closed, sent, receiveWaiters, receiverAt>>
    BY DEF Receive, Take
  <1>2. b >= 1 /\ Head(buffer) = d + 1 /\ Head(buffer) \in Values
    BY <1>1, Lengths DEF ChannelTypeOK, Fifo
  <1>3. Len(delivered') = d + 1 /\ \A i \in DOMAIN delivered' : delivered'[i] = i
    BY <1>1, <1>2, Lengths DEF ChannelTypeOK, Fifo
  <1>4. receiveWaiters = <<>>
    BY <1>1 DEF NoStall
  <1>5. \A i \in DOMAIN Tail(buffer) : Tail(buffer)[i] = (d + 1) + i
    BY <1>1, Lengths DEF ChannelTypeOK, Fifo
  <1>6. Tail(buffer) \in Seq(Values) /\ Len(Tail(buffer)) = b - 1
    BY <1>1 DEF ChannelTypeOK
  <1>7. ReceiversMatch' /\ DoneIsDrained'
    <2>1. \A q \in Receivers : receiverAt[q] # "done"
      BY <1>1 DEF DoneIsDrained
    <2>2. QED
      BY <1>1, <2>1 DEF ReceiversMatch, DoneIsDrained
  <1>8. CASE sendWaiters = <<>>
    <2>1. buffer' = Tail(buffer) /\ sendWaiters' = sendWaiters /\ answer' = answer
      BY <1>8 DEF Take
    <2>2. ChannelTypeOK'
      BY <1>1, <1>2, <1>6, <2>1 DEF ChannelTypeOK
    <2>3. Fifo'
      <3>1. \A i \in DOMAIN buffer' : buffer'[i] = Len(delivered') + i
        BY <1>3, <1>5, <2>1
      <3>2. ~closed' => sent' = Len(delivered') + Len(buffer') + Len(sendWaiters')
        BY <1>1, <1>3, <1>6, <2>1, Lengths DEF Fifo
      <3>3. DOMAIN sendWaiters' = {}
        BY <1>8, <2>1
      <3>4. QED
        BY <1>3, <3>1, <3>2, <3>3 DEF Fifo
    <2>4. Places /\ Places'
      BY <2>2, <2>3, FifoPlaces, FifoPlacesNext
    <2>5. Answers(Len(delivered), Len(buffer), Len(sendWaiters))
      BY <2>4, AnswersByPlace
    <2>6. Answers(Len(delivered), Len(buffer), Len(sendWaiters))'
      BY <1>1, <1>3, <1>6, <2>1, <2>5, Lengths DEF Answers
    <2>7. AnswersAreTrue'
      BY <2>2, <2>4, <2>6, AnswersByPlaceNext
    <2>8. NoStall' /\ ClosedIsQuiet'
      BY <1>1, <1>4, <1>8, <2>1 DEF NoStall, ClosedIsQuiet
    <2>9. QED
      BY <1>7, <2>2, <2>3, <2>7, <2>8
  <1>9. CASE sendWaiters # <<>>
    <2> DEFINE h == Head(sendWaiters)
    <2>1. /\ buffer' = Append(Tail(buffer), h) /\ sendWaiters' = Tail(sendWaiters)
          /\ answer' = [answer EXCEPT ![h] = "accepted"]
      BY <1>9 DEF Take
    <2>2. w >= 1 /\ h = d + b + 1 /\ h \in Values
      BY <1>9, Lengths DEF ChannelTypeOK, Fifo
    <2>3. b = Capacity /\ ~closed
      BY <1>9 DEF NoStall, ClosedIsQuiet
    <2>4. /\ Len(sendWaiters') = w - 1 /\ sendWaiters' \in Seq(Values)
          /\ \A i \in DOMAIN sendWaiters' : sendWaiters'[i] = (d + b + 1) + i
      <3>1. Len(sendWaiters') = w - 1 /\ sendWaiters' \in Seq(Values)
        BY <1>9, <2>1 DEF ChannelTypeOK
      <3>2. ASSUME NEW i \in DOMAIN sendWaiters'
            PROVE  sendWaiters'[i] = (d + b + 1) + i
        <4>1. i \in 1..(w - 1) /\ i + 1 \in DOMAIN sendWaiters
          <5>1. DOMAIN sendWaiters' = 1..Len(sendWaiters')
            BY <3>1
          <5>2. DOMAIN sendWaiters = 1..w /\ w \in Nat
            BY DEF ChannelTypeOK
          <5>3. QED
            BY <3>1, <3>2, <5>1, <5>2
        <4>2. sendWaiters'[i] = sendWaiters[i + 1]
          BY <1>9, <2>1, <4>1 DEF ChannelTypeOK
        <4>3. sendWaiters[i + 1] = d + b + (i + 1)
          BY <4>1 DEF Fifo
        <4>4. QED
          BY <4>1, <4>2, <4>3, Lengths
      <3>3. QED
        BY <3>1, <3>2
    <2>5. Len(buffer') = b /\ buffer' \in Seq(Values)
      BY <1>2, <1>6, <2>1, <2>2, Lengths
    <2>6. \A i \in DOMAIN buffer' : buffer'[i] = (d + 1) + i
      <3>1. ASSUME NEW i \in DOMAIN buffer'
            PROVE  buffer'[i] = (d + 1) + i
        <4>1. CASE i = b
          BY <1>2, <1>6, <2>1, <2>2, <4>1, Lengths
        <4>2. CASE i \in DOMAIN Tail(buffer)
          BY <1>5, <1>6, <2>1, <4>2
        <4>3. QED
          BY <1>6, <2>5, <4>1, <4>2, Lengths
      <3>2. QED
        BY <3>1
    <2>7. ChannelTypeOK'
      BY <1>1, <1>2, <2>1, <2>2, <2>3, <2>4, <2>5 DEF ChannelTypeOK
    <2>8. Fifo'
      <3>1. sent' = Len(delivered') + Len(buffer') + Len(sendWaiters')
        BY <1>1, <1>3, <2>3, <2>4, <2>5, Lengths DEF Fifo
      <3>2. \A i \in DOMAIN sendWaiters' :
              sendWaiters'[i] = Len(delivered') + Len(buffer') + i
        BY <1>3, <2>4, <2>5, Lengths
      <3>3. QED
        BY <1>3, <2>6, <3>1, <3>2 DEF Fifo
    <2>9. Places /\ Places'
      BY <2>7, <2>8, FifoPlaces, FifoPlacesNext
    <2>10. Answers(d, b, w)
      BY <2>9, AnswersByPlace
    <2>11. ASSUME NEW u \in Values
           PROVE  /\ answer'[u] = "accepted" <=> u <= (d + 1) + b
                  /\ answer'[u] = "pending" <=> u > (d + 1) + b /\ u <= (d + 1) + b + (w - 1)
                  /\ answer'[u] = "none" <=> u > sent
      <3>1. CASE u = h
        <4>1. sent = d + b + w
          BY <2>3 DEF Fifo
        <4>2. QED
          BY <2>1, <2>2, <3>1, <4>1, Lengths DEF ChannelTypeOK
      <3>2. CASE u # h
        <4>1. answer'[u] = answer[u]
          BY <2>1, <3>2 DEF ChannelTypeOK
        <4>2. /\ answer[u] = "accepted" <=> u <= d + b
              /\ answer[u] = "pending" <=> u > d + b /\ u <= d + b + w
              /\ answer[u] = "none" <=> u > sent
          BY <2>10 DEF Answers
        <4>3. {d, b, w, u} \subseteq Nat /\ u # d + b + 1
          BY <2>2, <3>2, Lengths
        <4> HIDE DEF d, b, w
        <4>4. u <= (d + 1) + b <=> u <= d + b
          BY <4>3
        <4>5. u <= (d + 1) + b + (w - 1) <=> u <= d + b + w
          BY <4>3
        <4>6. QED
          BY <4>1, <4>2, <4>3, <4>4, <4>5
      <3>3. QED
        BY <3>1, <3>2
    <2>12. Answers(Len(delivered), Len(buffer), Len(sendWaiters))'
      BY <1>1, <1>3, <2>4, <2>5, <2>11 DEF Answers
    <2>13. AnswersAreTrue'
      BY <2>7, <2>9, <2>12, AnswersByPlaceNext
    <2>14. NoStall' /\ ClosedIsQuiet'
      BY <1>1, <1>4, <2>3, <2>5 DEF NoStall, ClosedIsQuiet
    <2>15. QED
      BY <1>7, <2>7, <2>8, <2>13, <2>14
  <1>10. QED
    BY <1>8, <1>9

\* next() that finds nothing: the consumer is done, or joins the line.
LEMMA FinishIInv ==
  ASSUME ChannelInv, NEW r \in Receivers, Receive(r), Finish(r)
  PROVE  ChannelInv'
  <1> USE DEF ChannelInv
  <1>1. /\ receiverAt[r] = "ready" /\ receiverAt' = [receiverAt EXCEPT ![r] = "done"] /\ buffer = <<>> /\ closed
        /\ UNCHANGED <<buffer, closed, sendWaiters, receiveWaiters, sent, answer, delivered>>
    BY DEF Receive, Finish
  <1>2. ChannelTypeOK'
    BY <1>1 DEF ChannelTypeOK
  <1>3. Fifo' /\ NoStall' /\ ClosedIsQuiet' /\ AnswersAreTrue'
    BY <1>1 DEF Fifo, NoStall, ClosedIsQuiet, AnswersAreTrue
  <1>4. DoneIsDrained'
    BY <1>1 DEF DoneIsDrained
  <1>5. ReceiversMatch'
    BY <1>1 DEF ReceiversMatch, ChannelTypeOK
  <1>6. QED
    BY <1>2, <1>3, <1>4, <1>5

LEMMA WaitIInv ==
  ASSUME Capacity >= 1, ChannelInv, NEW r \in Receivers, Receive(r), Wait(r)
  PROVE  ChannelInv'
  <1> USE DEF ChannelInv
  <1>1. /\ receiverAt[r] = "ready" /\ receiverAt' = [receiverAt EXCEPT ![r] = "waiting"] /\ buffer = <<>>
        /\ receiveWaiters' = Append(receiveWaiters, r)
        /\ UNCHANGED <<buffer, closed, sendWaiters, sent, answer, delivered>>
    BY DEF Receive, Wait
  <1>2. sendWaiters = <<>>
    BY <1>1 DEF NoStall
  <1>3. ~closed
    BY <1>1, <1>2 DEF Wait
  <1>4. ChannelTypeOK'
    BY <1>1 DEF ChannelTypeOK
  <1>5. Fifo' /\ AnswersAreTrue'
    BY <1>1 DEF Fifo, AnswersAreTrue
  <1>6. NoStall' /\ ClosedIsQuiet' /\ DoneIsDrained'
    BY <1>1, <1>2, <1>3 DEF NoStall, ClosedIsQuiet, DoneIsDrained, ChannelTypeOK
  <1>7. r \notin ToSet(receiveWaiters)
    BY <1>1 DEF ReceiversMatch
  <1>8. ToSet(receiveWaiters') = ToSet(receiveWaiters) \cup {r}
    <2>1. /\ receiveWaiters' \in Seq(Receivers)
          /\ Len(receiveWaiters') = Len(receiveWaiters) + 1
          /\ receiveWaiters'[Len(receiveWaiters) + 1] = r
          /\ \A i \in DOMAIN receiveWaiters : receiveWaiters'[i] = receiveWaiters[i]
          /\ DOMAIN receiveWaiters' = DOMAIN receiveWaiters \cup {Len(receiveWaiters) + 1}
      BY <1>1 DEF ChannelTypeOK
    <2>2. ASSUME NEW q \in ToSet(receiveWaiters') PROVE q \in ToSet(receiveWaiters) \cup {r}
      BY <2>1 DEF ToSet
    <2>3. ASSUME NEW q \in ToSet(receiveWaiters) \cup {r} PROVE q \in ToSet(receiveWaiters')
      BY <2>1 DEF ToSet
    <2>4. QED
      BY <2>2, <2>3
  <1>9. \A i, j \in DOMAIN receiveWaiters' : receiveWaiters'[i] = receiveWaiters'[j] => i = j
    BY <1>1, <1>7 DEF ToSet, ReceiversMatch, ChannelTypeOK
  <1>10. ReceiversMatch'
    BY <1>1, <1>8, <1>9 DEF ReceiversMatch, ChannelTypeOK
  <1>11. QED
    BY <1>4, <1>5, <1>6, <1>10

\* close(): the blocked senders and the waiting receivers all leave.
LEMMA CloseIInv ==
  ASSUME ChannelInv, Close
  PROVE  ChannelInv'
  <1> USE DEF ChannelInv
  <1>1. /\ closed' = TRUE /\ sendWaiters' = <<>> /\ receiveWaiters' = <<>>
        /\ answer' = [v \in Values |-> IF v \in ToSet(sendWaiters) THEN "refused"
                                       ELSE answer[v]]
        /\ receiverAt' = [r \in Receivers |-> IF r \in ToSet(receiveWaiters) THEN "done" ELSE receiverAt[r]]
        /\ UNCHANGED <<buffer, sent, delivered>>
    BY DEF Close
  <1>2. ChannelTypeOK'
    <2>1. answer' \in [Values -> {"none", "pending", "accepted", "refused"}]
      BY <1>1 DEF ChannelTypeOK
    <2>2. receiverAt' \in [Receivers -> {"ready", "waiting", "done"}]
      BY <1>1 DEF ChannelTypeOK
    <2>3. QED
      BY <1>1, <2>1, <2>2 DEF ChannelTypeOK
  <1>3. Fifo'
    BY <1>1 DEF Fifo
  <1>4. NoStall' /\ ClosedIsQuiet'
    BY <1>1 DEF NoStall, ClosedIsQuiet
  <1>5. AnswersAreTrue'
    BY <1>1 DEF AnswersAreTrue, ToSet
  <1>6. DoneIsDrained'
    <2>1. ASSUME NEW r \in Receivers, receiverAt'[r] = "done"
          PROVE  buffer = <<>>
      <3>1. CASE r \in ToSet(receiveWaiters)
        BY <3>1 DEF NoStall, ToSet
      <3>2. CASE r \notin ToSet(receiveWaiters)
        BY <1>1, <2>1, <3>2 DEF DoneIsDrained
      <3>3. QED
        BY <3>1, <3>2
    <2>2. QED
      BY <1>1, <2>1 DEF DoneIsDrained
  <1>7. ReceiversMatch'
    BY <1>1 DEF ReceiversMatch, ToSet
  <1>8. QED
    BY <1>2, <1>3, <1>4, <1>5, <1>6, <1>7

LEMMA NextIInv == Capacity >= 1 /\ ChannelInv /\ [ChannelNext]_channelVars => ChannelInv'
  <1> SUFFICES ASSUME Capacity >= 1, ChannelInv, [ChannelNext]_channelVars PROVE ChannelInv'
    OBVIOUS
  <1>1. CASE UNCHANGED channelVars
    BY <1>1 DEF channelVars, ChannelInv, ChannelTypeOK, Fifo, NoStall, ClosedIsQuiet, AnswersAreTrue,
                DoneIsDrained, ReceiversMatch
  <1>2. ASSUME NEW r \in Receivers, Receive(r)
        PROVE  ChannelInv'
    BY <1>2, TakeIInv, FinishIInv, WaitIInv DEF Receive
  <1>3. QED
    BY <1>1, <1>2, SendIInv, CloseIInv DEF ChannelNext

\* Every reachable state of a channel with room for at least one value satisfies
\* the inductive invariant.
THEOREM Invariance == Capacity >= 1 => (ChannelSpec => []ChannelInv)
  <1> SUFFICES ASSUME Capacity >= 1 PROVE ChannelSpec => []ChannelInv
    OBVIOUS
  <1>1. ChannelInit => ChannelInv
    BY InitIInv
  <1>2. ChannelInv /\ [ChannelNext]_channelVars => ChannelInv'
    BY NextIInv
  <1>3. QED
    BY <1>1, <1>2, PTL DEF ChannelSpec

\* Every reachable state is well typed, the buffer within its capacity.
THEOREM Typing == Capacity >= 1 => (ChannelSpec => []ChannelTypeOK)
  <1> SUFFICES ASSUME Capacity >= 1 PROVE ChannelSpec => []ChannelTypeOK
    OBVIOUS
  <1>1. ChannelInv => ChannelTypeOK
    BY DEF ChannelInv
  <1>2. ChannelSpec => []ChannelInv
    BY Invariance
  <1>3. QED
    BY <1>1, <1>2, PTL

\* Values are delivered in the order they were sent, none lost and none twice.
THEOREM Ordered == Capacity >= 1 => (ChannelSpec => []Fifo)
  <1> SUFFICES ASSUME Capacity >= 1 PROVE ChannelSpec => []Fifo
    OBVIOUS
  <1>1. ChannelInv => Fifo
    BY DEF ChannelInv
  <1>2. ChannelSpec => []ChannelInv
    BY Invariance
  <1>3. QED
    BY <1>1, <1>2, PTL

\* A sender and a receiver never wait for each other.
THEOREM NeverStalled == Capacity >= 1 => (ChannelSpec => []NoStall)
  <1> SUFFICES ASSUME Capacity >= 1 PROVE ChannelSpec => []NoStall
    OBVIOUS
  <1>1. ChannelInv => NoStall
    BY DEF ChannelInv
  <1>2. ChannelSpec => []ChannelInv
    BY Invariance
  <1>3. QED
    BY <1>1, <1>2, PTL

\* What send() answers is what becomes of the value.
THEOREM HonestAnswers == Capacity >= 1 => (ChannelSpec => []AnswersAreTrue)
  <1> SUFFICES ASSUME Capacity >= 1 PROVE ChannelSpec => []AnswersAreTrue
    OBVIOUS
  <1>1. ChannelInv => AnswersAreTrue
    BY DEF ChannelInv
  <1>2. ChannelSpec => []ChannelInv
    BY Invariance
  <1>3. QED
    BY <1>1, <1>2, PTL

\* A consumer loop ends only when every accepted value has been received.
THEOREM EndOfStream == Capacity >= 1 => (ChannelSpec => []DoneIsDrained)
  <1> SUFFICES ASSUME Capacity >= 1 PROVE ChannelSpec => []DoneIsDrained
    OBVIOUS
  <1>1. ChannelInv => DoneIsDrained
    BY DEF ChannelInv
  <1>2. ChannelSpec => []ChannelInv
    BY Invariance
  <1>3. QED
    BY <1>1, <1>2, PTL

\* The type and the four promises about values together (channel.ts:55), as the run checks them.
THEOREM Moved == Capacity >= 1 => (ChannelSpec => []ValuesMove)
  <1> SUFFICES ASSUME Capacity >= 1 PROVE ChannelSpec => []ValuesMove
    OBVIOUS
  <1>1. ChannelInv => ValuesMove
    BY DEF ChannelInv, ValuesMove
  <1>2. QED
    BY <1>1, Invariance, PTL
-----------------------------------------------------------------------------
\* What joining two lines comes to: where the values are, and what is left of it.
LEMMA JoinedLine ==
  ASSUME NEW b \in Seq(Values), NEW w \in Seq(Values)
  PROVE  /\ b \o w \in Seq(Values) /\ Len(b \o w) = Len(b) + Len(w)
         /\ \A i \in 1..Len(b) : (b \o w)[i] = b[i]
         /\ \A i \in 1..Len(w) : (b \o w)[Len(b) + i] = w[i]
         /\ w = <<>> => b \o w = b
         /\ b = <<>> => b \o w = w
  OBVIOUS

LEMMA JoinedAppend ==
  ASSUME NEW b \in Seq(Values), NEW w \in Seq(Values), NEW v \in Values
  PROVE  b \o Append(w, v) = Append(b \o w, v)
  OBVIOUS

LEMMA JoinedHead ==
  ASSUME NEW b \in Seq(Values), NEW w \in Seq(Values), b # <<>>
  PROVE  b \o w # <<>> /\ Head(b \o w) = Head(b) /\ Tail(b \o w) = Tail(b) \o w
  OBVIOUS

LEMMA JoinedMove ==
  ASSUME NEW b \in Seq(Values), NEW w \in Seq(Values), w # <<>>
  PROVE  Append(b, Head(w)) \o Tail(w) = b \o w
  OBVIOUS

LEMMA JoinedCut ==
  ASSUME NEW b \in Seq(Values), NEW w \in Seq(Values)
  PROVE  /\ SubSeq(b \o w, 1, Len(b)) = b
         /\ {(b \o w)[i] : i \in (Len(b) + 1)..Len(b \o w)} = ToSet(w)
  <1>1. SubSeq(b \o w, 1, Len(b)) = b
    OBVIOUS
  <1>2. \A i \in (Len(b) + 1)..Len(b \o w) : i - Len(b) \in 1..Len(w) /\ (b \o w)[i] = w[i - Len(b)]
    OBVIOUS
  <1>3. \A j \in 1..Len(w) : Len(b) + j \in (Len(b) + 1)..Len(b \o w) /\ (b \o w)[Len(b) + j] = w[j]
    OBVIOUS
  <1>4. DOMAIN w = 1..Len(w)
    OBVIOUS
  <1>5. ToSet(w) = {w[j] : j \in 1..Len(w)}
    BY <1>4 DEF ToSet
  <1>7. ASSUME NEW x, x \in {(b \o w)[i] : i \in (Len(b) + 1)..Len(b \o w)} PROVE x \in ToSet(w)
    <2>1. PICK i \in (Len(b) + 1)..Len(b \o w) : x = (b \o w)[i]
      BY <1>7
    <2>2. QED
      BY <1>2, <1>5, <2>1
  <1>8. ASSUME NEW x, x \in ToSet(w) PROVE x \in {(b \o w)[i] : i \in (Len(b) + 1)..Len(b \o w)}
    <2>1. PICK j \in 1..Len(w) : x = w[j]
      BY <1>5, <1>8
    <2>2. Len(b) + j \in (Len(b) + 1)..Len(b \o w) /\ (b \o w)[Len(b) + j] = x
      BY <1>3, <2>1
    <2>3. QED
      BY <2>2
  <1>9. QED
    BY <1>1, <1>7, <1>8

LEMMA PutsInLine ==
  ASSUME ChannelInv, Send
  PROVE  Line!Put
  <1> DEFINE v == sent + 1
  <1> USE DEF ChannelInv
  <1>1. /\ sent < MaxSends /\ sent' = v /\ closed' = closed /\ v \in Values
        /\ Refuse(v) \/ HandOver(v) \/ Buffer(v) \/ Block(v)
    BY DEF Send, ChannelTypeOK, Values
  <1>2. answer \in [Values -> {"none", "pending", "accepted", "refused"}] /\ answer[v] = "none"
    BY <1>1 DEF ChannelTypeOK, AnswersAreTrue, Values
  <1>3. ASSUME NEW word \in {"accepted", "pending"}, answer' = [answer EXCEPT ![v] = word]
        PROVE  Told("refused")' = Told("refused")
    BY <1>1, <1>2, <1>3 DEF Told
  <1>4. /\ buffer \in Seq(Values) /\ sendWaiters \in Seq(Values) /\ Len(buffer) \in Nat
        /\ Capacity \in Nat
    BY DEF ChannelTypeOK
  <1>5. CASE Refuse(v)
    <2>1. answer' = [answer EXCEPT ![v] = "refused"]
      BY <1>5 DEF Refuse
    <2>2. Told("refused")' = Told("refused") \cup {v}
      BY <1>1, <1>2, <2>1 DEF Told
    <2>3. closed /\ UNCHANGED <<buffer, sendWaiters, receiveWaiters, delivered, receiverAt>>
      BY <1>5 DEF Refuse
    <2>4. Ended' = Ended
      BY <2>3 DEF Ended
    <2>5. QED
      BY <1>1, <2>2, <2>3, <2>4 DEF Line!Put
  <1>6. CASE HandOver(v)
    <2>1. /\ ~closed /\ receiveWaiters # <<>> /\ receiveWaiters' = Tail(receiveWaiters)
          /\ receiverAt' = [receiverAt EXCEPT ![Head(receiveWaiters)] = "ready"]
          /\ delivered' = Append(delivered, v)
          /\ answer' = [answer EXCEPT ![v] = "accepted"]
          /\ UNCHANGED <<buffer, sendWaiters>>
      BY <1>6 DEF HandOver
    <2>2. buffer \o sendWaiters = <<>>
      BY <2>1 DEF NoStall
    <2>3. Head(receiveWaiters) \in Receivers /\ receiverAt[Head(receiveWaiters)] = "waiting"
      <3>1. Head(receiveWaiters) \in ToSet(receiveWaiters)
        BY <2>1 DEF ToSet, ChannelTypeOK
      <3>2. QED
        BY <3>1 DEF ReceiversMatch
    <2>4. Ended' = Ended
      BY <2>1, <2>3 DEF Ended, ChannelTypeOK
    <2>5. QED
      BY <1>1, <1>3, <2>1, <2>2, <2>4 DEF Line!Put
  <1>7. CASE Buffer(v)
    <2>1. /\ ~closed /\ receiveWaiters = <<>> /\ Len(buffer) < Capacity
          /\ buffer' = Append(buffer, v) /\ answer' = [answer EXCEPT ![v] = "accepted"]
          /\ UNCHANGED <<sendWaiters, receiveWaiters, delivered, receiverAt>>
      BY <1>7 DEF Buffer
    <2>2. sendWaiters = <<>>
      BY <1>4, <2>1 DEF NoStall
    <2>3. Append(buffer, v) \in Seq(Values)
      BY <1>1, <1>4
    <2>4. (buffer \o sendWaiters)' = Append(buffer \o sendWaiters, v)
      BY <1>4, <2>1, <2>2, <2>3, JoinedLine
    <2>5. Ended' = Ended
      BY <2>1 DEF Ended
    <2>6. QED
      BY <1>1, <1>3, <2>1, <2>4, <2>5 DEF Line!Put
  <1>8. CASE Block(v)
    <2>1. /\ ~closed /\ receiveWaiters = <<>>
          /\ sendWaiters' = Append(sendWaiters, v) /\ answer' = [answer EXCEPT ![v] = "pending"]
          /\ UNCHANGED <<buffer, receiveWaiters, delivered, receiverAt>>
      BY <1>8 DEF Block
    <2>2. (buffer \o sendWaiters)' = Append(buffer \o sendWaiters, v)
      BY <1>1, <1>4, <2>1, JoinedAppend
    <2>3. Ended' = Ended
      BY <2>1 DEF Ended
    <2>4. QED
      BY <1>1, <1>3, <2>1, <2>2, <2>3 DEF Line!Put
  <1>9. QED
    BY <1>1, <1>5, <1>6, <1>7, <1>8

LEMMA GetsFromLine ==
  ASSUME ChannelInv, Capacity >= 1, NEW r \in Receivers, Receive(r)
  PROVE  Line!Get(r)
  <1> USE DEF ChannelInv
  <1>1. /\ receiverAt[r] = "ready" /\ UNCHANGED <<closed, sent>>
        /\ Take(r) \/ Finish(r) \/ Wait(r)
    BY DEF Receive
  <1>2. r \notin Ended \cup ToSet(receiveWaiters)
    BY <1>1 DEF Ended, ReceiversMatch
  <1>3. r \notin Ended \cup Line!ToSet(receiveWaiters)
    BY <1>2 DEF ToSet, Line!ToSet
  <1>4. /\ buffer \in Seq(Values) /\ sendWaiters \in Seq(Values)
        /\ answer \in [Values -> {"none", "pending", "accepted", "refused"}]
        /\ receiverAt \in [Receivers -> {"ready", "waiting", "done"}]
    BY DEF ChannelTypeOK
  <1>5. CASE Take(r)
    <2>1. /\ buffer # <<>> /\ delivered' = Append(delivered, Head(buffer))
          /\ UNCHANGED <<receiveWaiters, receiverAt>>
      BY <1>5 DEF Take
    <2>2. /\ buffer \o sendWaiters # <<>> /\ Head(buffer \o sendWaiters) = Head(buffer)
          /\ Tail(buffer \o sendWaiters) = Tail(buffer) \o sendWaiters
      BY <1>4, <2>1, JoinedHead
    <2>3. Tail(buffer) \in Seq(Values)
      BY <1>4, <2>1
    <2>4. /\ (buffer \o sendWaiters)' = Tail(buffer) \o sendWaiters
          /\ Told("refused")' = Told("refused")
      <3>1. CASE sendWaiters = <<>>
        <4>1. buffer' = Tail(buffer) /\ UNCHANGED <<sendWaiters, answer>>
          BY <1>5, <3>1 DEF Take
        <4>2. QED
          BY <4>1 DEF Told
      <3>2. CASE sendWaiters # <<>>
        <4>1. /\ buffer' = Append(Tail(buffer), Head(sendWaiters))
              /\ sendWaiters' = Tail(sendWaiters)
              /\ answer' = [answer EXCEPT ![Head(sendWaiters)] = "accepted"]
          BY <1>5, <3>2 DEF Take
        <4>2. (buffer \o sendWaiters)' = Tail(buffer) \o sendWaiters
          BY <1>4, <2>3, <3>2, <4>1, JoinedMove
        <4>3. Head(sendWaiters) \in Values /\ Head(sendWaiters) \in ToSet(sendWaiters)
          BY <1>4, <3>2 DEF ToSet
        <4>4. answer[Head(sendWaiters)] = "pending"
          BY <4>3 DEF AnswersAreTrue
        <4>5. Told("refused")' = Told("refused")
          BY <1>4, <4>1, <4>3, <4>4 DEF Told
        <4>6. QED
          BY <4>2, <4>5
      <3>3. QED
        BY <3>1, <3>2
    <2>5. Ended' = Ended
      BY <2>1 DEF Ended
    <2>6. QED
      BY <1>1, <1>3, <2>1, <2>2, <2>4, <2>5 DEF Line!Get
  <1>6. CASE Finish(r)
    <2>1. /\ buffer = <<>> /\ closed /\ sendWaiters = <<>>
          /\ receiverAt' = [receiverAt EXCEPT ![r] = "done"]
          /\ UNCHANGED <<buffer, sendWaiters, answer, receiveWaiters, delivered>>
      BY <1>6 DEF Finish
    <2>2. buffer \o sendWaiters = <<>>
      BY <2>1
    <2>3. Ended' = Ended \cup {r}
      BY <1>4, <2>1 DEF Ended
    <2>4. Told("refused")' = Told("refused")
      BY <2>1 DEF Told
    <2>5. QED
      BY <1>1, <1>3, <2>1, <2>2, <2>3, <2>4 DEF Line!Get
  <1>7. CASE Wait(r)
    <2>1. /\ buffer = <<>> /\ ~(closed /\ sendWaiters = <<>>)
          /\ receiveWaiters' = Append(receiveWaiters, r)
          /\ receiverAt' = [receiverAt EXCEPT ![r] = "waiting"]
          /\ UNCHANGED <<buffer, sendWaiters, answer, delivered>>
      BY <1>7 DEF Wait
    <2>2. sendWaiters = <<>>
      <3>1. Len(buffer) = 0
        BY <2>1
      <3>2. QED
        BY <3>1 DEF NoStall
    <2>3. ~closed /\ buffer \o sendWaiters = <<>>
      BY <2>1, <2>2
    <2>4. Ended' = Ended
      BY <1>1, <1>4, <2>1 DEF Ended
    <2>5. Told("refused")' = Told("refused")
      BY <2>1 DEF Told
    <2>6. QED
      BY <1>1, <1>3, <2>1, <2>3, <2>4, <2>5 DEF Line!Get
  <1>8. QED
    BY <1>1, <1>5, <1>6, <1>7

LEMMA ShutsLine ==
  ASSUME ChannelInv, Close
  PROVE  Line!Shut
  <1> USE DEF ChannelInv
  <1>1. /\ closed' = TRUE /\ sendWaiters' = <<>> /\ receiveWaiters' = <<>>
        /\ answer' = [v \in Values |-> IF v \in ToSet(sendWaiters) THEN "refused" ELSE answer[v]]
        /\ receiverAt' = [r \in Receivers |-> IF r \in ToSet(receiveWaiters) THEN "done" ELSE receiverAt[r]]
        /\ UNCHANGED <<buffer, sent, delivered>>
    BY DEF Close
  <1>2. /\ buffer \in Seq(Values) /\ sendWaiters \in Seq(Values) /\ Len(buffer) <= Capacity
        /\ Len(buffer) \in Nat /\ Capacity \in Nat
    BY DEF ChannelTypeOK
  <1>3. Line!Room = Len(buffer)
    <2>1. Len(buffer \o sendWaiters) = Len(buffer) + Len(sendWaiters) /\ Len(sendWaiters) \in Nat
      BY <1>2
    <2>2. CASE sendWaiters = <<>>
      <3>1. Len(sendWaiters) = 0
        BY <2>2
      <3>2. Len(buffer \o sendWaiters) = Len(buffer)
        BY <1>2, <2>1, <3>1
      <3>3. QED
        BY <1>2, <3>2 DEF Line!Room
    <2>3. CASE sendWaiters # <<>>
      BY <1>2, <2>1, <2>3 DEF Line!Room, NoStall
    <2>4. QED
      BY <2>2, <2>3
  <1>4. (buffer \o sendWaiters)' = buffer
    BY <1>1, <1>2
  <1>5. /\ SubSeq(buffer \o sendWaiters, 1, Len(buffer)) = buffer
        /\ {(buffer \o sendWaiters)[i] : i \in (Len(buffer) + 1)..Len(buffer \o sendWaiters)}
             = ToSet(sendWaiters)
    BY <1>2, JoinedCut
  <1>6. Told("refused")' = Told("refused") \cup ToSet(sendWaiters)
    <2>1. ToSet(sendWaiters) \subseteq Values
      BY <1>2 DEF ToSet
    <2>2. QED
      BY <1>1, <2>1 DEF Told
  <1>7. Ended' = Ended \cup ToSet(receiveWaiters)
    <2>1. ToSet(receiveWaiters) \subseteq Receivers
      BY DEF ReceiversMatch
    <2>2. QED
      BY <1>1, <2>1 DEF Ended
  <1>8. ToSet(receiveWaiters) = Line!ToSet(receiveWaiters)
    BY DEF ToSet, Line!ToSet
  <1>9. QED
    BY <1>1, <1>3, <1>4, <1>5, <1>6, <1>7, <1>8 DEF Line!Shut

\* What a channel does, one line of values does (channel.ts:55): for every capacity of at
\* least one and any number of senders and receivers, each send(), next() and close() is a
\* step of ChannelPromise, in which neither the buffer nor the blocked senders show.
THEOREM OneLine == Capacity >= 1 => (ChannelSpec => ActsAsOneLine)
  <1> SUFFICES ASSUME Capacity >= 1 PROVE ChannelSpec => ActsAsOneLine
    OBVIOUS
  <1>1. ChannelInit => Line!Init
    <2> SUFFICES ASSUME ChannelInit PROVE Line!Init
      OBVIOUS
    <2>1. buffer \o sendWaiters = <<>>
      BY DEF ChannelInit
    <2>2. Told("refused") = {} /\ Ended = {}
      BY DEF ChannelInit, Told, Ended
    <2>3. QED
      BY <2>1, <2>2 DEF ChannelInit, Line!Init
  <1>2. ChannelInv /\ [ChannelNext]_channelVars => [Line!Next]_(Line!specVars)
    <2> SUFFICES ASSUME ChannelInv, [ChannelNext]_channelVars PROVE [Line!Next]_(Line!specVars)
      OBVIOUS
    <2>1. CASE Send
      BY <2>1, PutsInLine DEF Line!Next
    <2>2. CASE Close
      BY <2>2, ShutsLine DEF Line!Next
    <2>3. ASSUME NEW r \in Receivers, Receive(r) PROVE Line!Next
      BY <2>3, GetsFromLine DEF Line!Next
    <2>4. CASE UNCHANGED channelVars
      BY <2>4 DEF channelVars, Line!specVars, Told, Ended
    <2>5. QED
      BY <2>1, <2>2, <2>3, <2>4 DEF ChannelNext
  <1>3. QED
    BY <1>1, <1>2, Invariance, PTL DEF ChannelSpec, ActsAsOneLine, Line!Spec
-----------------------------------------------------------------------------
(* Streams that push.  What a stream holds is followed as a set and an order   *)
(* of its items; where in the queue or in the answers they are does not matter. *)

Pairs == Nat \X Nat
Marks == {Nil, Over}

Earlier(s, x, y) == \E i, j \in DOMAIN s : i < j /\ s[i] = x /\ s[j] = y
Timed == IF pumpTimer = Nil THEN {} ELSE {pumpTimer}
InLine == ToSet(answers) \cup ToSet(queue)
Holds(x) == x \in InLine \cup Timed

\* x is handed over before y: in front of the timer, and altogether.
LineBefore(x, y) ==
  \/ Earlier(answers, x, y) \/ Earlier(queue, x, y)
  \/ x \in ToSet(answers) /\ y \in ToSet(queue)
Before(x, y) == LineBefore(x, y) \/ (x \in InLine /\ y \in Timed)

\* A sequence that grows by an item at its end, or by one in place of a mark.
Grows(new, old, z) ==
  /\ ToSet(new) \subseteq ToSet(old) \cup {z} /\ ToSet(old) \subseteq ToSet(new) \cup {Nil} /\ z \in ToSet(new)
  /\ \A x, y : Earlier(new, x, y) => Earlier(old, x, y) \/ (x \in ToSet(old) /\ y = z)

LEMMA Appended ==
  ASSUME NEW s \in Seq(Pairs), NEW z \in Pairs
  PROVE  Append(s, z) \in Seq(Pairs) /\ Grows(Append(s, z), s, z) /\ Len(Append(s, z)) = Len(s) + 1
<1> DEFINE t == Append(s, z)
<1>1. /\ t \in Seq(Pairs) /\ Len(s) \in Nat /\ Len(t) = Len(s) + 1 /\ DOMAIN s = 1..Len(s) /\ DOMAIN t = 1..Len(t)
      /\ \A i \in 1..Len(s) : t[i] = s[i]
      /\ t[Len(s) + 1] = z
  OBVIOUS
<1> HIDE DEF t
<1>2. \A i \in DOMAIN t : (i \in DOMAIN s /\ t[i] = s[i]) \/ (i = Len(s) + 1 /\ t[i] = z)
  BY <1>1
<1>3. ToSet(t) \subseteq ToSet(s) \cup {z}
  BY <1>2 DEF ToSet
<1>4. ToSet(s) \subseteq ToSet(t) /\ z \in ToSet(t)
  BY <1>1 DEF ToSet
<1>5. ASSUME NEW x, NEW y, Earlier(t, x, y) PROVE Earlier(s, x, y) \/ (x \in ToSet(s) /\ y = z)
  <2>1. PICK i \in DOMAIN t, j \in DOMAIN t : i < j /\ t[i] = x /\ t[j] = y
    BY <1>5 DEF Earlier
  <2>2. i \in DOMAIN s /\ s[i] = x
    BY <1>1, <1>2, <2>1
  <2>3. (j \in DOMAIN s /\ s[j] = y) \/ y = z
    BY <1>2, <2>1
  <2> QED BY <2>1, <2>2, <2>3 DEF Earlier, ToSet
<1> QED BY <1>1, <1>3, <1>4, <1>5 DEF Grows, t

LEMMA Answered ==
  ASSUME NEW s \in Seq(Pairs), NEW z \in Pairs, NEW w, w = Len(s), w # 0, s[w] = Nil,
         NEW t, t = [s EXCEPT ![w] = z]
  PROVE  t \in Seq(Pairs) /\ Grows(t, s, z) /\ Len(t) = Len(s)
<1>1. /\ t \in Seq(Pairs) /\ Len(s) \in Nat /\ w \in Nat /\ DOMAIN s = 1..w /\ DOMAIN t = 1..w /\ Len(t) = w
      /\ \A i \in 1..w : i # w => t[i] = s[i]
      /\ t[w] = z /\ w \in 1..w
  OBVIOUS
<1>2. ToSet(t) \subseteq ToSet(s) \cup {z}
  BY <1>1 DEF ToSet
<1>3. ToSet(s) \subseteq ToSet(t) \cup {Nil} /\ z \in ToSet(t)
  BY <1>1 DEF ToSet
<1>4. ASSUME NEW x, NEW y, Earlier(t, x, y) PROVE Earlier(s, x, y) \/ (x \in ToSet(s) /\ y = z)
  <2>1. PICK i \in DOMAIN t, j \in DOMAIN t : i < j /\ t[i] = x /\ t[j] = y
    BY <1>4 DEF Earlier
  <2>2. i # w /\ i \in DOMAIN s /\ s[i] = x /\ j \in DOMAIN s
    BY <1>1, <2>1
  <2>3. s[j] = y \/ y = z
    BY <1>1, <2>1
  <2> QED BY <2>1, <2>2, <2>3 DEF Earlier, ToSet
<1> QED BY <1>1, <1>2, <1>3, <1>4 DEF Grows

LEMMA First ==
  ASSUME NEW s \in Seq(Pairs), s # <<>>
  PROVE  /\ Tail(s) \in Seq(Pairs) /\ Head(s) \in Pairs /\ ToSet(s) = ToSet(Tail(s)) \cup {Head(s)}
         /\ \A x, y : Earlier(Tail(s), x, y) => Earlier(s, x, y)
         /\ \A y \in ToSet(Tail(s)) : Earlier(s, Head(s), y)
<1> DEFINE t == Tail(s)
<1>1. /\ t \in Seq(Pairs) /\ Len(s) \in Nat /\ Len(s) >= 1 /\ Len(t) = Len(s) - 1
      /\ DOMAIN s = 1..Len(s) /\ DOMAIN t = 1..Len(t)
      /\ \A i \in 1..Len(t) : t[i] = s[i + 1]
      /\ Head(s) = s[1] /\ Head(s) \in Pairs
  OBVIOUS
<1> HIDE DEF t
<1>2. \A i \in DOMAIN t : i + 1 \in DOMAIN s /\ i + 1 > 1 /\ s[i + 1] = t[i]
  BY <1>1
<1>3. 1 \in DOMAIN s
  BY <1>1
<1>4. ASSUME NEW x \in ToSet(s) PROVE x = Head(s) \/ x \in ToSet(t)
  <2>1. PICK i \in 1..Len(s) : x = s[i]
    BY <1>1, <1>4 DEF ToSet
  <2>2. CASE i = 1
    BY <1>1, <2>1, <2>2
  <2>3. CASE i # 1
    <3>1. PICK k \in 1..Len(t) : k + 1 = i
      BY <1>1, <2>1, <2>3
    <3> QED BY <1>1, <2>1, <3>1 DEF ToSet
  <2> QED BY <2>2, <2>3
<1>5. ToSet(t) \subseteq ToSet(s) /\ Head(s) \in ToSet(s)
  BY <1>1, <1>2, <1>3 DEF ToSet
<1>6. ASSUME NEW x, NEW y, Earlier(t, x, y) PROVE Earlier(s, x, y)
  <2>1. PICK i \in DOMAIN t, j \in DOMAIN t : i < j /\ t[i] = x /\ t[j] = y
    BY <1>6 DEF Earlier
  <2>2. i + 1 < j + 1 /\ i + 1 \in DOMAIN s /\ j + 1 \in DOMAIN s
    BY <1>1, <1>2, <2>1
  <2>3. s[i + 1] = x /\ s[j + 1] = y
    BY <1>2, <2>1
  <2> QED BY <2>2, <2>3 DEF Earlier
<1>7. ASSUME NEW y \in ToSet(t) PROVE Earlier(s, Head(s), y)
  <2>1. PICK j \in DOMAIN t : t[j] = y
    BY <1>7 DEF ToSet
  <2> QED BY <1>1, <1>2, <1>3, <2>1 DEF Earlier
<1> QED BY <1>1, <1>4, <1>5, <1>6, <1>7 DEF t

LEMMA EmptyHasNone ==
  ToSet(<<>>) = {} /\ <<>> \in Seq(Pairs) /\ Len(<<>>) = 0 /\ \A x, y : ~Earlier(<<>>, x, y)
  BY DEF ToSet, Earlier

LEMMA Shown == ASSUME NEW s \in Seq(Pairs), NEW x PROVE Contains(s, x) <=> x \in ToSet(s)
  BY DEF Contains, ToSet

-----------------------------------------------------------------------------
PushTypeOK ==
  /\ kind \in {"merge", "debounce"} /\ (kind = "debounce" => Numbers = {1})
  /\ Numbers \subseteq Nat \ {0}
  /\ given \in [Numbers -> Nat] /\ state \in [Numbers -> {"pulling", "done", "rejected"}]
  /\ answers \in Seq(Pairs) /\ queue \in Seq(Pairs) /\ waiting \in {0, Len(answers)}
  /\ pumpTimer = Nil \/ (kind = "debounce" /\ pumpTimer \in Given /\ ~IsErrItem(pumpTimer))

\* Nothing is held that has not been pulled; the calls may have been answered with marks.
HoldsGiven == ToSet(queue) \subseteq Given /\ ToSet(answers) \subseteq Given \cup Marks

InOrder == \A x, y \in Given : Before(x, y) /\ Alike(x, y) => x[2] < y[2]

\* Some item that debounce() may hold instead of x.
Later(x) ==
  /\ kind = "debounce" /\ ~IsErrItem(x)
  /\ \E y \in Given : ~IsErrItem(y) /\ x[2] < y[2] /\ Holds(y)
HoldsAll == \A x \in Given : Holds(x) \/ Later(x)

EndIsEnd ==
  /\ Over \in ToSet(answers) => Finished({}) /\ queue = <<>>
  /\ Finished({}) => waiting = 0

PushInv == PushTypeOK /\ HoldsGiven /\ InOrder /\ HoldsAll /\ EndIsEnd /\ OneWaits

LEMMA MarksAre == Nil \in Pairs /\ Over \in Pairs /\ Nil # Over
  BY DEF Nil, Over, Pairs

LEMMA GivenAre ==
  ASSUME PushTypeOK
  PROVE  /\ \A x \in Given : x \in Pairs /\ x \notin Marks /\ x[1] \in Numbers /\ x[2] \in 1..given[x[1]] /\ x = <<x[1], x[2]>>
         /\ \A s \in Numbers : \A n \in 1..given[s] : <<s, n>> \in Given
<1>1. Numbers \subseteq Nat \ {0} /\ given \in [Numbers -> Nat]
  BY DEF PushTypeOK
<1>2. ASSUME NEW x \in Given
      PROVE  x \in Pairs /\ x \notin Marks /\ x[1] \in Numbers /\ x[2] \in 1..given[x[1]] /\ x = <<x[1], x[2]>>
  <2>0. PICK s \in Numbers : x \in {<<s, n>> : n \in 1..given[s]}
    BY DEF Given
  <2>1. PICK n \in 1..given[s] : x = <<s, n>>
    BY <2>0
  <2>2. s \in Nat /\ s # 0 /\ n \in Nat /\ x[1] = s /\ x[2] = n
    BY <1>1, <2>1
  <2>3. x \notin Marks
    BY <2>1, <2>2 DEF Marks, Nil, Over
  <2> QED BY <2>1, <2>2, <2>3 DEF Pairs
<1>3. \A s \in Numbers : \A n \in 1..given[s] : <<s, n>> \in Given
  BY DEF Given
<1> QED BY <1>2, <1>3

-----------------------------------------------------------------------------
\* A step that pulls nothing: what was held still is, and in no other order.
Keeps ==
  /\ UNCHANGED <<kind, scripts, given>>
  /\ \A x \in Given : Holds(x) => Holds(x)'
  /\ \A x, y \in Given : Before(x, y)' => Before(x, y)

LEMMA NoneNew ==
  ASSUME PushInv, Keeps
  PROVE  Given' = Given /\ InOrder' /\ HoldsAll'
<1>1. Given' = Given
  BY DEF Keeps, Given, Numbers
<1>2. \A x, y : Alike(x, y)' <=> Alike(x, y)
  BY <1>1 DEF Keeps, Alike, IsErrItem
<1>3. InOrder'
  BY <1>1, <1>2 DEF Keeps, PushInv, InOrder
<1>4. ASSUME NEW x \in Given PROVE Holds(x)' \/ Later(x)'
  <2>1. Holds(x) \/ Later(x)
    BY DEF PushInv, HoldsAll
  <2>2. Later(x) => Later(x)'
    BY <1>1 DEF Keeps, Later, IsErrItem
  <2> QED BY <2>1, <2>2 DEF Keeps
<1> QED BY <1>1, <1>3, <1>4 DEF HoldsAll

\* A step that pulls z: it comes behind all that was held, but for an error that goes in
\* front of an Ok, and takes the place of no item but an Ok whose time runs.
Adds(s, z) ==
  /\ z = <<s, given[s] + 1>> /\ Pulled(s) /\ UNCHANGED <<kind, scripts>>
  /\ Holds(z)'
  /\ \A x \in Given : Holds(x) => Holds(x)' \/ (x \in Timed /\ ~IsErrItem(z))
  /\ \A x, y \in Given \cup {z} : Before(x, y)' =>
       \/ x \in Given /\ y \in Given /\ Before(x, y)
       \/ x \in Given /\ y = z
       \/ kind = "debounce" /\ IsErrItem(x) /\ ~IsErrItem(y)

LEMMA OneNew ==
  ASSUME PushInv, NEW s \in Numbers, NEW z, Adds(s, z)
  PROVE  Given' = Given \cup {z} /\ InOrder' /\ HoldsAll'
<1>0. PushTypeOK /\ given \in [Numbers -> Nat] /\ given[s] \in Nat /\ s \in Nat /\ DOMAIN scripts' = Numbers
  BY DEF PushInv, PushTypeOK, Adds, Numbers
<1>1. /\ given'[s] = given[s] + 1 /\ \A q \in Numbers \ {s} : given'[q] = given[q]
      /\ UNCHANGED <<kind, scripts>> /\ Numbers' = Numbers
      /\ z = <<s, given[s] + 1>> /\ z[1] = s /\ z[2] = given[s] + 1
  BY <1>0 DEF Adds, Pulled, Numbers
<1>2. Given' = Given \cup {z}
  <2>1. ASSUME NEW x \in Given' PROVE x \in Given \cup {z}
    <3>1. PICK q \in Numbers : x \in {<<q, n>> : n \in 1..given'[q]}
      BY <1>1, <2>1 DEF Given
    <3>2. PICK n \in 1..given'[q] : x = <<q, n>>
      BY <3>1
    <3>3. n \in 1..given[q] \/ (q = s /\ n = given[s] + 1)
      BY <1>0, <1>1, <3>2
    <3> QED BY <1>0, <1>1, <3>2, <3>3, GivenAre
  <2>2. ASSUME NEW x \in Given \cup {z} PROVE x \in Given'
    <3>1. PICK q \in Numbers, n \in Nat : x = <<q, n>> /\ n \in 1..given'[q]
      <4>1. CASE x = z
        BY <1>0, <1>1, <4>1
      <4>2. CASE x \in Given
        <5>1. x[1] \in Numbers /\ x[2] \in 1..given[x[1]] /\ x = <<x[1], x[2]>>
          BY <1>0, <4>2, GivenAre
        <5>2. given[x[1]] \in Nat /\ given'[x[1]] >= given[x[1]]
          BY <1>0, <1>1, <5>1
        <5>3. x[2] \in Nat /\ x[2] \in 1..given'[x[1]]
          BY <1>0, <1>1, <5>1, <5>2
        <5> QED BY <5>1, <5>3
      <4> QED BY <2>2, <4>1, <4>2
    <3> QED BY <1>1, <3>1 DEF Given
  <2> QED BY <2>1, <2>2
<1>3. \A x \in Given : x # z /\ x[2] \in Nat /\ (x[1] = s => x[2] < z[2])
  BY <1>0, <1>1, GivenAre
<1>4. \A x, y \in Given : Alike(x, y)' <=> Alike(x, y)
  BY <1>1, <1>2 DEF Alike, IsErrItem
<1>5. InOrder'
  <2> SUFFICES ASSUME NEW x \in Given \cup {z}, NEW y \in Given \cup {z}, Before(x, y)', Alike(x, y)'
               PROVE  x[2] < y[2]
    BY <1>2 DEF InOrder
  <2>1. CASE x \in Given /\ y \in Given /\ Before(x, y)
    BY <1>4, <2>1 DEF PushInv, InOrder
  <2>2. CASE x \in Given /\ y = z
    BY <1>1, <1>3, <2>2 DEF Alike
  <2>3. CASE kind = "debounce" /\ IsErrItem(x) /\ ~IsErrItem(y)
    BY <1>1, <2>3 DEF Alike, IsErrItem
  <2> QED BY <2>1, <2>2, <2>3 DEF Adds
<1>6. \A x : Holds(x) /\ x \in Given => Holds(x)' \/ (x \in Timed /\ ~IsErrItem(z))
  BY DEF Adds
\* Whose place z has taken, or who had been left out for that one.
<1>7. ASSUME NEW x \in Given, NEW y \in Timed, ~IsErrItem(x), ~IsErrItem(z), x = y \/ x[2] < y[2]
      PROVE  Later(x)'
  <2>1. kind = "debounce" /\ Numbers = {1} /\ y \in Given
    BY <1>7 DEF PushInv, PushTypeOK, Timed
  <2>2. y[1] = s /\ y[2] < z[2] /\ x[2] \in Nat /\ y[2] \in Nat /\ z[2] \in Nat
    BY <1>0, <1>1, <1>3, <2>1, GivenAre
  <2>3. x[2] < z[2]
    BY <1>7, <2>2
  <2> QED BY <1>1, <1>2, <1>7, <2>1, <2>3 DEF Later, IsErrItem, Adds
<1>8. ASSUME NEW x \in Given \cup {z} PROVE Holds(x)' \/ Later(x)'
  <2>1. CASE x = z
    BY <2>1 DEF Adds
  <2>2. CASE x \in Given /\ Holds(x)
    <3>1. ASSUME x \in Timed, ~IsErrItem(z) PROVE Later(x)'
      <4>1. ~IsErrItem(x)
        BY <3>1 DEF PushInv, PushTypeOK, Timed
      <4> QED BY <1>7, <2>2, <3>1, <4>1
    <3> QED BY <1>6, <2>2, <3>1
  <2>3. CASE x \in Given /\ Later(x)
    <3>1. PICK y \in Given : ~IsErrItem(y) /\ x[2] < y[2] /\ Holds(y)
      BY <2>3 DEF Later
    <3>2. ~IsErrItem(x) /\ kind = "debounce"
      BY <2>3 DEF Later
    <3>3. CASE Holds(y)'
      BY <1>1, <1>2, <3>1, <3>2, <3>3 DEF Later, IsErrItem
    <3>4. CASE y \in Timed /\ ~IsErrItem(z)
      BY <1>7, <2>3, <3>1, <3>2, <3>4
    <3> QED BY <1>6, <3>1, <3>3, <3>4
  <2> QED BY <1>8, <2>1, <2>2, <2>3 DEF PushInv, HoldsAll
<1> QED BY <1>2, <1>5, <1>8 DEF HoldsAll

-----------------------------------------------------------------------------
\* What wake() does to the answers and the queue, when z comes to the queue.
Takes(z) ==
  /\ answers' \in Seq(Pairs) /\ queue' \in Seq(Pairs) /\ waiting' = 0
  /\ ToSet(queue') \subseteq ToSet(queue) \cup {z} /\ ToSet(answers') \subseteq ToSet(answers) \cup {z}
  /\ InLine \subseteq InLine' \cup {Nil} /\ z \in InLine'
  /\ \A x, y : LineBefore(x, y)' => LineBefore(x, y) \/ (x \in InLine /\ y = z)

LEMMA WakeWithOne ==
  ASSUME PushInv, NEW z \in Pairs, Wake(Append(queue, z), FALSE)
  PROVE  Takes(z)
<1>1. /\ answers \in Seq(Pairs) /\ queue \in Seq(Pairs) /\ waiting \in {0, Len(answers)}
      /\ (waiting # 0 => queue = <<>> /\ answers[waiting] = Nil)
  BY DEF PushInv, PushTypeOK, OneWaits
<1>2. Append(queue, z) # <<>>
  BY <1>1
<1>3. waiting' = 0
  BY <1>2 DEF Wake
<1>4. CASE waiting = 0
  <2>1. answers' = answers /\ queue' = Append(queue, z)
    BY <1>2, <1>4 DEF Wake
  <2>2. queue' \in Seq(Pairs) /\ Grows(queue', queue, z) /\ ToSet(queue) \subseteq ToSet(queue')
    <3>1. ToSet(queue) \subseteq ToSet(queue')
      <4>1. \A i \in DOMAIN queue : i \in DOMAIN queue' /\ queue'[i] = queue[i]
        BY <1>1, <2>1
      <4> QED BY <4>1 DEF ToSet
    <3> QED BY <1>1, <2>1, <3>1, Appended
  <2> QED BY <1>1, <1>3, <2>1, <2>2 DEF Takes, InLine, LineBefore, Grows
<1>5. CASE waiting # 0
  <2>1. queue = <<>> /\ Append(queue, z) = <<z>> /\ Head(Append(queue, z)) = z /\ Tail(Append(queue, z)) = <<>>
    BY <1>1, <1>5
  <2>2. answers' = [answers EXCEPT ![waiting] = z] /\ queue' = <<>>
    BY <1>2, <1>5, <2>1 DEF Wake
  <2>3. answers' \in Seq(Pairs) /\ Grows(answers', answers, z)
    BY <1>1, <1>5, <2>2, Answered
  <2> QED BY <1>1, <1>3, <2>1, <2>2, <2>3, EmptyHasNone DEF Takes, InLine, LineBefore, Grows
<1> QED BY <1>4, <1>5

\* The item that is pulled next.
LEMMA NextItem ==
  ASSUME PushInv, NEW s \in Numbers
  PROVE  /\ s \in Nat /\ s # 0 /\ given[s] \in Nat /\ <<s, given[s] + 1>> \in Pairs
         /\ <<s, given[s] + 1>> \notin Given \cup Marks
         /\ (state[s] = "pulling" => Over \notin ToSet(answers))
<1>1. PushTypeOK /\ s \in Nat /\ s # 0 /\ given[s] \in Nat
  BY DEF PushInv, PushTypeOK
<1>2. PICK z : z = <<s, given[s] + 1>>
  OBVIOUS
<1>3. z[1] = s /\ z[2] = given[s] + 1 /\ z[2] \in Nat
  BY <1>1, <1>2
<1>4. z \in Pairs
  BY <1>1, <1>2 DEF Pairs
<1>5. z \notin Given
  BY <1>1, <1>3, GivenAre
<1>6. z \notin Marks
  BY <1>1, <1>2 DEF Marks, Nil, Over
<1>7. state[s] = "pulling" => Over \notin ToSet(answers)
  BY DEF PushInv, EndIsEnd, Finished
<1> QED BY <1>1, <1>2, <1>4, <1>5, <1>6, <1>7

LEMMA InLineIs ==
  ASSUME PushInv
  PROVE  /\ InLine \subseteq Given \cup Marks /\ \A x \in Given : x # Nil
         /\ \A x, y : LineBefore(x, y) => x \in InLine /\ y \in InLine
<1>1. \A x, y : LineBefore(x, y) => x \in InLine /\ y \in InLine
  BY DEF LineBefore, InLine, Earlier, ToSet
<1> QED BY <1>1, GivenAre DEF PushInv, HoldsGiven, InLine, Marks

\* An item that goes through wake() at once.
LEMMA InvTakes ==
  ASSUME PushInv, NEW s \in Numbers, state[s] = "pulling", NEW z, z = <<s, given[s] + 1>>,
         Pulled(s), Wake(Append(queue, z), FALSE), UNCHANGED <<kind, scripts, state, pumpTimer>>,
         kind = "debounce" => IsErrItem(z)
  PROVE  PushInv'
<1>1. z \in Pairs /\ z \notin Given \cup Marks /\ Over \notin ToSet(answers)
  BY NextItem
<1>2. Takes(z) /\ Timed' = Timed
  BY <1>1, WakeWithOne DEF Timed
<1>3. Timed \subseteq Given /\ \A x \in Timed : kind = "debounce" /\ ~IsErrItem(x)
  BY DEF PushInv, PushTypeOK, Timed
<1>4. Adds(s, z)
  <2>1. Holds(z)' /\ \A x \in Given : Holds(x) => Holds(x)'
    BY <1>1, <1>2, InLineIs DEF Takes, Holds
  <2>2. ASSUME NEW x \in Given \cup {z}, NEW y \in Given \cup {z}, Before(x, y)'
        PROVE  \/ x \in Given /\ y \in Given /\ Before(x, y)
               \/ x \in Given /\ y = z
               \/ kind = "debounce" /\ IsErrItem(x) /\ ~IsErrItem(y)
    <3>1. CASE LineBefore(x, y)'
      BY <1>1, <1>2, <2>2, <3>1, InLineIs DEF Takes, Before
    <3>2. CASE x \in InLine' /\ y \in Timed
      <4>1. y \in Given /\ kind = "debounce" /\ ~IsErrItem(y)
        BY <1>3, <3>2
      <4>2. x = z \/ x \in InLine
        BY <1>2, <3>2 DEF Takes, InLine
      <4> QED BY <1>1, <2>2, <3>2, <4>1, <4>2 DEF Before
    <3> QED BY <1>2, <2>2, <3>1, <3>2 DEF Before
  <2> QED BY <2>1, <2>2 DEF Adds
<1>5. Given' = Given \cup {z} /\ InOrder' /\ HoldsAll'
  BY <1>4, OneNew
<1>6. PushTypeOK'
  <2>1. Numbers' = Numbers /\ given' \in [Numbers -> Nat]
    BY DEF Numbers, Pulled, PushInv, PushTypeOK
  <2>2. pumpTimer' = Nil \/ (kind' = "debounce" /\ pumpTimer' \in Given' /\ ~IsErrItem(pumpTimer)')
    BY <1>5 DEF PushInv, PushTypeOK, IsErrItem
  <2> QED BY <1>2, <2>1, <2>2 DEF PushInv, PushTypeOK, Takes
<1>7. HoldsGiven' /\ EndIsEnd' /\ OneWaits'
  BY <1>1, <1>2, <1>5 DEF PushInv, HoldsGiven, EndIsEnd, OneWaits, Takes, Marks
<1> QED BY <1>5, <1>6, <1>7 DEF PushInv

LEMMA InvMerges == ASSUME PushInv, NEW s \in Numbers, Merges(s) PROVE PushInv'
  BY InvTakes DEF Merges, Pulling, Item

LEMMA InvPumps ==
  ASSUME PushInv, NEW s \in Numbers, Pumps(s)
  PROVE  PushInv'
<1>0. PICK z : z = Item(s)
  OBVIOUS
<1>1. z = <<s, given[s] + 1>> /\ state[s] = "pulling" /\ kind = "debounce" /\ Pulled(s) /\ UNCHANGED <<kind, scripts, state>>
  BY <1>0 DEF Pumps, Pulling, Item
<1>2. CASE IsErrItem(z)
  BY <1>0, <1>1, <1>2, InvTakes DEF Pumps
<1>3. CASE ~IsErrItem(z)
  <2>1. pumpTimer' = z /\ UNCHANGED <<queue, waiting, answers>>
    BY <1>0, <1>3 DEF Pumps
  <2>2. z \in Pairs /\ z \notin Given \cup Marks /\ Over \notin ToSet(answers)
    BY <1>1, NextItem
  <2>3. /\ Timed' = {z} /\ InLine' = InLine /\ \A x, y : LineBefore(x, y)' <=> LineBefore(x, y)
        /\ Timed \subseteq Given
    BY <2>1, <2>2 DEF Timed, InLine, LineBefore, Marks, PushInv, PushTypeOK
  <2>4. Adds(s, z)
    <3>1. Holds(z)'
      BY <2>3 DEF Holds
    <3>2. \A x \in Given : Holds(x) => Holds(x)' \/ x \in Timed
      BY <2>3 DEF Holds
    <3>3. ASSUME NEW x \in Given \cup {z}, NEW y \in Given \cup {z}, Before(x, y)'
          PROVE  (x \in Given /\ y \in Given /\ Before(x, y)) \/ (x \in Given /\ y = z)
      <4>1. z \notin InLine
        BY <2>2, InLineIs
      <4>2. CASE LineBefore(x, y)
        BY <3>3, <4>1, <4>2, InLineIs DEF Before
      <4>3. CASE x \in InLine /\ y = z
        BY <3>3, <4>1, <4>3
      <4> QED BY <2>3, <3>3, <4>2, <4>3 DEF Before
    <3> QED BY <1>1, <1>3, <3>1, <3>2, <3>3 DEF Adds
  <2>5. Given' = Given \cup {z} /\ InOrder' /\ HoldsAll'
    BY <2>4, OneNew
  <2>6. PushTypeOK'
    <3>1. Numbers' = Numbers /\ given' \in [Numbers -> Nat]
      BY <1>1 DEF Numbers, Pulled, PushInv, PushTypeOK
    <3>2. kind' = "debounce" /\ pumpTimer' \in Given' /\ ~IsErrItem(pumpTimer)'
      BY <1>1, <1>3, <2>1, <2>5 DEF IsErrItem
    <3> QED BY <1>1, <2>1, <3>1, <3>2 DEF PushInv, PushTypeOK
  <2>7. ~Finished({})'
    BY <1>1, <2>5, <2>6 DEF Finished, Numbers
  <2>8. HoldsGiven' /\ EndIsEnd' /\ OneWaits'
    BY <2>1, <2>2, <2>5, <2>7 DEF PushInv, HoldsGiven, EndIsEnd, OneWaits
  <2> QED BY <2>5, <2>6, <2>8 DEF PushInv
<1> QED BY <1>2, <1>3

LEMMA InvFlushes ==
  ASSUME PushInv, Flushes
  PROVE  PushInv'
<1> DEFINE z == pumpTimer
<1>1. /\ z # Nil /\ pumpTimer' = Nil /\ Wake(Append(queue, z), FALSE) /\ UNCHANGED <<kind, scripts, given, state>>
      /\ z \in Given /\ z \in Pairs /\ Timed = {z} /\ Timed' = {}
      /\ Over \notin ToSet(answers) /\ z # Over
  <2>1. z # Nil /\ pumpTimer' = Nil /\ Wake(Append(queue, z), FALSE) /\ UNCHANGED <<kind, scripts, given, state>>
    BY DEF Flushes
  <2>2. z \in Given /\ PushTypeOK
    BY <2>1 DEF PushInv, PushTypeOK
  <2>3. z \in Pairs /\ z # Over
    BY <2>2, GivenAre DEF Marks
  <2>4. Over \notin ToSet(answers)
    BY <2>1 DEF PushInv, EndIsEnd, Finished
  <2> QED BY <2>1, <2>2, <2>3, <2>4 DEF Timed
<1> HIDE DEF z
<1>2. Takes(z)
  BY <1>1, WakeWithOne
<1>3. Keeps
  BY <1>1, <1>2, InLineIs DEF Keeps, Takes, Holds, Before
<1>4. Given' = Given /\ InOrder' /\ HoldsAll'
  BY <1>3, NoneNew
<1>5. PushTypeOK'
  BY <1>1, <1>2, <1>4 DEF PushInv, PushTypeOK, Takes, Numbers
<1>6. HoldsGiven' /\ EndIsEnd' /\ OneWaits'
  BY <1>1, <1>2, <1>4 DEF PushInv, HoldsGiven, EndIsEnd, OneWaits, Takes
<1> QED BY <1>4, <1>5, <1>6 DEF PushInv

LEMMA InvEnds ==
  ASSUME PushInv, NEW s \in Numbers, Ends(s)
  PROVE  PushInv'
<1>1. /\ state[s] = "pulling" /\ state' = [state EXCEPT ![s] = "done"] /\ Wake(queue, Finished({s}))
      /\ UNCHANGED <<kind, scripts, given, pumpTimer>>
      /\ Over \notin ToSet(answers) /\ answers \in Seq(Pairs) /\ waiting \in {0, Len(answers)}
      /\ (waiting # 0 => queue = <<>> /\ answers[waiting] = Nil)
  BY NextItem DEF Ends, PushInv, PushTypeOK, OneWaits
<1>2. Numbers' = Numbers /\ state' \in [Numbers -> {"pulling", "done", "rejected"}] /\ Timed' = Timed /\ queue' = queue
  <2>1. queue' = queue
    BY <1>1 DEF Wake
  <2> QED BY <1>1, <2>1 DEF Numbers, Timed, PushInv, PushTypeOK
<1>3. CASE waiting = 0 \/ ~Finished({s})
  <2>1. answers' = answers /\ waiting' = waiting
    BY <1>1, <1>3 DEF Wake
  <2>2. Keeps
    BY <1>1, <1>2, <2>1 DEF Keeps, Holds, Before, InLine, LineBefore
  <2>3. Given' = Given /\ InOrder' /\ HoldsAll'
    BY <2>2, NoneNew
  <2>4. PushTypeOK'
    BY <1>1, <1>2, <2>1, <2>3 DEF PushInv, PushTypeOK, IsErrItem
  <2>5. Finished({})' => waiting' = 0
    <3>1. Finished({})' => Finished({s})
      BY <1>1, <1>2 DEF Finished, PushInv, PushTypeOK
    <3> QED BY <1>3, <2>1, <3>1
  <2>6. HoldsGiven' /\ OneWaits'
    BY <1>1, <1>2, <2>1, <2>3 DEF PushInv, HoldsGiven, OneWaits
  <2>7. EndIsEnd'
    BY <1>1, <1>2, <2>1, <2>5 DEF EndIsEnd
  <2> QED BY <2>3, <2>4, <2>6, <2>7 DEF PushInv
<1>4. CASE waiting # 0 /\ Finished({s})
  <2>1. answers' = [answers EXCEPT ![waiting] = Over] /\ waiting' = 0 /\ queue = <<>>
    BY <1>1, <1>4 DEF Wake
  <2>2. answers' \in Seq(Pairs) /\ Grows(answers', answers, Over)
    BY <1>1, <1>4, <2>1, Answered, MarksAre
  <2>3. Keeps
    <3>1. \A x \in Given : x # Nil /\ x # Over
      BY GivenAre DEF PushInv, Marks
    <3> QED BY <1>1, <1>2, <2>1, <2>2, <3>1 DEF Keeps, Holds, Before, InLine, LineBefore, Grows
  <2>4. Given' = Given /\ InOrder' /\ HoldsAll'
    BY <2>3, NoneNew
  <2>5. PushTypeOK'
    BY <1>1, <1>2, <2>1, <2>2, <2>4 DEF PushInv, PushTypeOK, IsErrItem
  <2>6. Finished({})'
    BY <1>1, <1>2, <1>4 DEF Finished, PushInv, PushTypeOK
  <2>7. HoldsGiven' /\ EndIsEnd' /\ OneWaits'
    BY <1>1, <1>2, <2>1, <2>2, <2>4, <2>6 DEF PushInv, HoldsGiven, EndIsEnd, OneWaits, Grows, Marks
  <2> QED BY <2>4, <2>5, <2>7 DEF PushInv
<1> QED BY <1>3, <1>4

LEMMA InvRejects ==
  ASSUME PushInv, NEW s \in Numbers, SourceRejects(s)
  PROVE  PushInv'
<1>1. /\ state[s] = "pulling" /\ state' = [state EXCEPT ![s] = "rejected"]
      /\ UNCHANGED <<kind, scripts, given, pumpTimer, queue, waiting, answers>>
      /\ Over \notin ToSet(answers)
  BY NextItem DEF SourceRejects
<1>2. Numbers' = Numbers /\ state' \in [Numbers -> {"pulling", "done", "rejected"}] /\ Timed' = Timed
  BY <1>1 DEF Numbers, Timed, PushInv, PushTypeOK
<1>3. Keeps
  BY <1>1, <1>2 DEF Keeps, Holds, Before, InLine, LineBefore
<1>4. Given' = Given /\ InOrder' /\ HoldsAll'
  BY <1>3, NoneNew
<1>5. PushTypeOK'
  BY <1>1, <1>2, <1>4 DEF PushInv, PushTypeOK, IsErrItem
<1>6. ~Finished({})'
  BY <1>1, <1>2 DEF Finished, PushInv, PushTypeOK
<1> QED BY <1>1, <1>4, <1>5, <1>6 DEF PushInv, HoldsGiven, EndIsEnd, OneWaits

LEMMA InvAsk ==
  ASSUME PushInv, Ask
  PROVE  PushInv'
<1>1. /\ UNCHANGED <<kind, scripts, given, state, pumpTimer>>
      /\ answers \in Seq(Pairs) /\ queue \in Seq(Pairs) /\ waiting \in {0, Len(answers)}
      /\ Numbers' = Numbers /\ Timed' = Timed /\ Given' = Given
      /\ (Finished({})' <=> Finished({}))
  BY DEF Ask, PushInv, PushTypeOK, Numbers, Timed, Given, Finished
<1>2. \A x \in Given : x # Nil /\ x # Over
  BY GivenAre DEF PushInv, Marks
<1>3. ASSUME NEW z \in Pairs, answers' = Append(answers, z)
      PROVE  /\ answers' \in Seq(Pairs) /\ Grows(answers', answers, z) /\ Len(answers') = Len(answers) + 1
             /\ ToSet(answers) \subseteq ToSet(answers') /\ Len(answers) \in Nat /\ answers'[Len(answers')] = z
             /\ \A x \in ToSet(answers') : x \in ToSet(answers) \cup {z}
  <2>1. ToSet(answers) \subseteq ToSet(answers')
    <3>1. \A i \in DOMAIN answers : i \in DOMAIN answers' /\ answers'[i] = answers[i]
      BY <1>1, <1>3
    <3> QED BY <3>1 DEF ToSet
  <2> QED BY <1>1, <1>3, <2>1, Appended DEF Grows
<1>4. ASSUME Keeps, answers' \in Seq(Pairs), queue' \in Seq(Pairs), waiting' \in {0, Len(answers')}, HoldsGiven', EndIsEnd', OneWaits'
      PROVE  PushInv'
  <2>1. PushTypeOK'
    BY <1>1, <1>4 DEF PushInv, PushTypeOK, IsErrItem
  <2> QED BY <1>4, <2>1, NoneNew DEF PushInv
<1>5. CASE queue # <<>>
  <2>1. PICK z \in Pairs : z = Head(queue)
    BY <1>1, <1>5, First
  <2>2. answers' = Append(answers, z) /\ queue' = Tail(queue) /\ waiting' = waiting
    BY <1>5, <2>1 DEF Ask
  <2>3. waiting = 0 /\ z \in ToSet(queue) /\ z \in Given /\ Over \notin ToSet(answers)
    <3>1. z \in ToSet(queue)
      BY <1>1, <1>5, <2>1, First
    <3> QED BY <1>5, <3>1 DEF PushInv, OneWaits, HoldsGiven, EndIsEnd
  <2>4. queue' \in Seq(Pairs) /\ ToSet(queue) = ToSet(queue') \cup {z}
        /\ (\A x, y : Earlier(queue', x, y) => Earlier(queue, x, y))
        /\ \A y \in ToSet(queue') : Earlier(queue, z, y)
    BY <1>1, <1>5, <2>1, <2>2, First
  <2>5. Keeps
    BY <1>1, <1>2, <1>3, <2>2, <2>3, <2>4 DEF Keeps, Holds, Before, InLine, LineBefore, Grows
  <2>6. HoldsGiven' /\ EndIsEnd' /\ OneWaits'
    BY <1>1, <1>2, <1>3, <2>2, <2>3, <2>4 DEF PushInv, HoldsGiven, EndIsEnd, OneWaits
  <2> QED BY <1>3, <1>4, <2>2, <2>3, <2>4, <2>5, <2>6
<1>6. ASSUME queue = <<>>, NEW z \in Marks, answers' = Append(answers, z), queue' = queue,
             waiting' \in {0, Len(answers')}, OneWaits', z = Over => Finished({}), Finished({}) => waiting' = 0
      PROVE  PushInv'
  <2>1. z \in Pairs
    BY <1>6, MarksAre DEF Marks
  <2>2. Keeps
    BY <1>1, <1>2, <1>3, <1>6, <2>1 DEF Keeps, Holds, Before, InLine, LineBefore, Grows, Marks
  <2>3. HoldsGiven' /\ EndIsEnd'
    BY <1>1, <1>2, <1>3, <1>6, <2>1 DEF PushInv, HoldsGiven, EndIsEnd, Marks
  <2>4. answers' \in Seq(Pairs)
    BY <1>3, <1>6, <2>1
  <2>5. queue' \in Seq(Pairs)
    BY <1>1, <1>6
  <2> QED BY <1>4, <1>6, <2>2, <2>3, <2>4, <2>5
<1>7. CASE queue = <<>> /\ Finished({})
  <2>1. answers' = Append(answers, Over) /\ queue' = queue /\ waiting' = waiting
    BY <1>7 DEF Ask
  <2>2. waiting = 0
    BY <1>7 DEF PushInv, EndIsEnd
  <2>3. OneWaits' /\ waiting' \in {0, Len(answers')}
    BY <2>1, <2>2 DEF OneWaits
  <2>4. Over \in Marks
    BY DEF Marks
  <2> QED BY <1>6, <1>7, <2>1, <2>2, <2>3, <2>4
<1>8. CASE queue = <<>> /\ ~Finished({})
  <2>1. answers' = Append(answers, Nil) /\ queue' = queue /\ waiting' = Len(answers')
    BY <1>8 DEF Ask
  <2>2. OneWaits' /\ waiting' \in {0, Len(answers')}
    BY <1>3, <1>8, <2>1, MarksAre DEF OneWaits
  <2>3. Nil \in Marks /\ Nil # Over
    BY MarksAre DEF Marks
  <2> QED BY <1>6, <1>8, <2>1, <2>2, <2>3
<1> QED BY <1>5, <1>7, <1>8

LEMMA InvInit == PushInit => PushInv
<1> SUFFICES ASSUME PushInit PROVE PushInv
  OBVIOUS
<1>1. PICK n \in 0..MaxStreams : scripts \in [1..n -> Scripts]
  BY DEF PushInit
<1>2. Numbers = 1..n /\ n \in Nat /\ Numbers \subseteq Nat \ {0}
  BY <1>1 DEF Numbers
<1>3. kind \in {"merge", "debounce"} /\ given = [s \in Numbers |-> 0] /\ state = [s \in Numbers |-> "pulling"]
      /\ pumpTimer = Nil /\ queue = <<>> /\ waiting = 0 /\ answers = <<>>
  BY DEF PushInit
<1>4. kind = "debounce" => Numbers = {1}
  <2>1. kind = "debounce" => Len(scripts) = 1
    BY DEF PushInit
  <2>2. Len(scripts) = n
    BY <1>1, <1>2
  <2>3. 1..1 = {1}
    OBVIOUS
  <2> QED BY <1>2, <2>1, <2>2, <2>3
<1>5. ToSet(answers) = {} /\ ToSet(queue) = {} /\ answers \in Seq(Pairs) /\ queue \in Seq(Pairs) /\ Len(answers) = 0
      /\ \A x, y : ~Earlier(answers, x, y) /\ ~Earlier(queue, x, y)
  BY <1>3, EmptyHasNone
<1>6. PushTypeOK
  BY <1>2, <1>3, <1>4, <1>5 DEF PushTypeOK
<1>7. Given = {}
  <2>1. \A s \in Numbers : {<<s, k>> : k \in 1..given[s]} = {}
    BY <1>3
  <2> QED BY <2>1 DEF Given
<1> QED BY <1>3, <1>5, <1>6, <1>7 DEF PushInv, HoldsGiven, InOrder, HoldsAll, EndIsEnd, OneWaits

LEMMA InvNext == PushInv /\ [PushNext]_pushVars => PushInv'
<1> SUFFICES ASSUME PushInv, [PushNext]_pushVars PROVE PushInv'
  OBVIOUS
<1>1. CASE UNCHANGED pushVars
  <2>1. UNCHANGED <<kind, scripts, given, state, pumpTimer, queue, waiting, answers>>
    BY <1>1 DEF pushVars
  <2>2. UNCHANGED <<Numbers, Given, Timed, InLine>>
    BY <2>1 DEF Numbers, Given, Timed, InLine
  <2>3. Keeps
    BY <2>1, <2>2 DEF Keeps, Holds, Before, LineBefore
  <2>4. InOrder' /\ HoldsAll'
    BY <2>3, NoneNew
  <2>5. PushTypeOK'
    BY <2>1, <2>2 DEF PushInv, PushTypeOK, IsErrItem
  <2>6. HoldsGiven' /\ OneWaits'
    BY <2>1, <2>2 DEF PushInv, HoldsGiven, OneWaits
  <2>7. EndIsEnd'
    BY <2>1, <2>2 DEF PushInv, EndIsEnd, Finished
  <2> QED BY <2>4, <2>5, <2>6, <2>7 DEF PushInv
<1> QED BY <1>1, InvAsk, InvFlushes, InvMerges, InvPumps, InvEnds, InvRejects DEF PushNext

-----------------------------------------------------------------------------
\* Two sequences, one behind the other.
LEMMA Joined ==
  ASSUME NEW s \in Seq(Pairs), NEW t \in Seq(Pairs)
  PROVE  /\ s \o t \in Seq(Pairs) /\ ToSet(s \o t) = ToSet(s) \cup ToSet(t)
         /\ \A x, y : Earlier(s \o t, x, y) =>
              Earlier(s, x, y) \/ Earlier(t, x, y) \/ (x \in ToSet(s) /\ y \in ToSet(t))
<1>0. s \o t \in Seq(Pairs)
  OBVIOUS
<1>1. PICK u \in Seq(Pairs) : u = s \o t
  BY <1>0
<1>2. /\ Len(s) \in Nat /\ Len(t) \in Nat /\ Len(u) = Len(s) + Len(t)
      /\ DOMAIN s = 1..Len(s) /\ DOMAIN t = 1..Len(t) /\ DOMAIN u = 1..Len(u)
      /\ \A i \in 1..Len(s) : u[i] = s[i]
      /\ \A i \in 1..Len(t) : u[Len(s) + i] = t[i]
  BY <1>1
<1>3. ASSUME NEW i \in DOMAIN u
      PROVE  (i \in DOMAIN s /\ u[i] = s[i]) \/ (i > Len(s) /\ i - Len(s) \in DOMAIN t /\ u[i] = t[i - Len(s)])
  <2>1. CASE i <= Len(s)
    BY <1>2, <1>3, <2>1
  <2>2. CASE i > Len(s)
    <3>1. PICK k \in 1..Len(t) : i = Len(s) + k
      <4>1. i - Len(s) \in 1..Len(t) /\ i = Len(s) + (i - Len(s))
        BY <1>2, <1>3, <2>2
      <4> QED BY <4>1
    <3>2. i - Len(s) = k
      BY <1>2, <3>1
    <3> QED BY <1>2, <2>2, <3>1, <3>2
  <2> QED BY <1>2, <1>3, <2>1, <2>2
<1>4. ToSet(u) \subseteq ToSet(s) \cup ToSet(t)
  BY <1>3 DEF ToSet
<1>5. ToSet(s) \cup ToSet(t) \subseteq ToSet(u)
  <2>1. \A i \in DOMAIN s : i \in DOMAIN u /\ u[i] = s[i]
    BY <1>2
  <2>2. \A i \in DOMAIN t : Len(s) + i \in DOMAIN u /\ u[Len(s) + i] = t[i]
    BY <1>2
  <2> QED BY <2>1, <2>2 DEF ToSet
<1>6. ASSUME NEW x, NEW y, Earlier(u, x, y)
      PROVE  Earlier(s, x, y) \/ Earlier(t, x, y) \/ (x \in ToSet(s) /\ y \in ToSet(t))
  <2>1. PICK i \in DOMAIN u, j \in DOMAIN u : i < j /\ u[i] = x /\ u[j] = y
    BY <1>6 DEF Earlier
  <2>2. i \in Nat /\ j \in Nat
    BY <1>2
  <2>3. CASE j \in DOMAIN s /\ u[j] = s[j]
    <3>1. i \in DOMAIN s /\ u[i] = s[i]
      BY <1>2, <2>1, <2>2, <2>3
    <3> QED BY <2>1, <2>3, <3>1 DEF Earlier
  <2>4. CASE j - Len(s) \in DOMAIN t /\ u[j] = t[j - Len(s)]
    <3>1. CASE i \in DOMAIN s /\ u[i] = s[i]
      BY <2>1, <2>4, <3>1 DEF ToSet
    <3>2. CASE i - Len(s) \in DOMAIN t /\ u[i] = t[i - Len(s)]
      <4>1. i - Len(s) < j - Len(s)
        BY <1>2, <2>1, <2>2
      <4> QED BY <2>1, <2>4, <3>2, <4>1 DEF Earlier
    <3> QED BY <1>3, <2>1, <3>1, <3>2
  <2> QED BY <1>3, <2>1, <2>3, <2>4
<1> QED BY <1>1, <1>4, <1>5, <1>6

\* Held, as the invariant sees it.
LEMMA HeldIs ==
  ASSUME PushInv
  PROVE  /\ Held \in Seq(Pairs) /\ ToSet(Held) = InLine \cup Timed
         /\ \A x, y : Earlier(Held, x, y) => Before(x, y)
<1> DEFINE last == IF pumpTimer = Nil THEN <<>> ELSE <<pumpTimer>>
<1>1. PushTypeOK /\ answers \in Seq(Pairs) /\ queue \in Seq(Pairs)
  BY DEF PushInv, PushTypeOK
<1>2. last \in Seq(Pairs) /\ ToSet(last) = Timed /\ \A x, y : ~Earlier(last, x, y)
  <2>1. CASE pumpTimer = Nil
    BY <2>1, EmptyHasNone DEF Timed
  <2>2. CASE pumpTimer # Nil
    <3>1. pumpTimer \in Pairs
      BY <1>1, <2>2, GivenAre DEF PushTypeOK
    <3>2. last = <<pumpTimer>> /\ DOMAIN last = {1} /\ last[1] = pumpTimer
      BY <2>2
    <3> HIDE DEF last
    <3> QED BY <2>2, <3>1, <3>2 DEF ToSet, Timed, Earlier
  <2> QED BY <2>1, <2>2
<1>3. PICK line \in Seq(Pairs) : line = answers \o queue
  BY <1>1, Joined
<1> HIDE DEF last
<1>4. Held = line \o last
  BY <1>3 DEF Held, last
<1>5. ToSet(line) = InLine /\ \A x, y : Earlier(line, x, y) => LineBefore(x, y)
  BY <1>1, <1>3, Joined DEF InLine, LineBefore
<1>6. Held \in Seq(Pairs) /\ ToSet(Held) = InLine \cup Timed
  BY <1>2, <1>4, <1>5, Joined
<1>7. ASSUME NEW x, NEW y, Earlier(Held, x, y) PROVE Before(x, y)
  <2>1. Earlier(line, x, y) \/ (x \in ToSet(line) /\ y \in ToSet(last))
    BY <1>2, <1>4, <1>7, Joined
  <2> QED BY <1>2, <1>5, <2>1 DEF Before
<1> QED BY <1>6, <1>7

LEMMA InvTells == PushInv => NothingIsLost
<1> SUFFICES ASSUME PushInv PROVE NothingIsLost
  OBVIOUS
<1>1. PushTypeOK /\ answers \in Seq(Pairs) /\ Held \in Seq(Pairs) /\ ToSet(Held) = InLine \cup Timed
      /\ \A x, y : Earlier(Held, x, y) => Before(x, y)
  BY HeldIs DEF PushInv, PushTypeOK
<1>2. ToSet(Held) \subseteq Given \cup {Nil, Over}
  <2>1. Timed \subseteq Given \cup {Nil, Over}
    BY <1>1 DEF PushTypeOK, Timed
  <2> QED BY <1>1, <2>1, InLineIs DEF Marks
<1>3. ASSUME NEW i \in DOMAIN Held, NEW j \in DOMAIN Held, i < j, Alike(Held[i], Held[j])
      PROVE  Held[i][2] < Held[j][2]
  <2>1. PICK x, y : x = Held[i] /\ y = Held[j]
    OBVIOUS
  <2>2. Earlier(Held, x, y)
    BY <1>3, <2>1 DEF Earlier
  <2>3. x \in Given /\ y \in Given /\ Alike(x, y) /\ Before(x, y)
    BY <1>1, <1>3, <2>1, <2>2 DEF Alike
  <2> QED BY <2>1, <2>3 DEF PushInv, InOrder
<1>4. \A x : Contains(Held, x) <=> Holds(x)
  BY <1>1, Shown DEF Holds
<1>5. \A x \in Given : Contains(Held, x) \/ Superseded(x)
  BY <1>4 DEF PushInv, HoldsAll, Later, Superseded
<1>6. Contains(answers, Over) => Finished({}) /\ queue = <<>>
  BY <1>1, Shown DEF PushInv, EndIsEnd
<1> QED BY <1>2, <1>3, <1>5, <1>6 DEF PushInv, NothingIsLost

\* Nothing is lost or doubled between the sources and next(), with any number of sources,
\* scripts of any length and any number of calls, however these overlap.
THEOREM NothingLost == PushSpec => []NothingIsLost
<1>1. PushSpec => []PushInv
  BY InvInit, InvNext, PTL DEF PushSpec
<1> QED BY <1>1, InvTells, PTL
=============================================================================
