-------------------------- MODULE UtilitiesProofs --------------------------
(***************************************************************************)
(* What EventEmitter, Cron, RateLimiter, StableVec, Cache, Release and Net *)
(* promise, for any handlers, bounds, calendar, policy, insertions, keys,  *)
(* cron expression, versions and arrivals.                                 *)
(***************************************************************************)
EXTENDS EventEmitter, Cron, RateLimiter, StableVec, Cache, Release, Net, FiniteSetTheorems, TLAPS

(* Cron.  That the minute of a call is remembered is enough for the        *)
(* minute it is: the ones before it do not come back, the ones after it    *)
(* have not been looked at.                                                *)

CronIInv ==
  /\ today \in Minutes /\ looked \subseteq Minutes /\ runs \in [Minutes -> Nat]
  /\ \A m \in Minutes : m > today => m \notin looked
  /\ runs[today] > 0 => lastFiredMinute = CurrentMinute(Calendar[today])
  /\ NeverTwice

LEMMA CronInitIInv == CronInit => CronIInv
  <1> SUFFICES ASSUME CronInit PROVE CronIInv
    OBVIOUS
  <1>1. today \in Minutes /\ looked = {} /\ runs = [m \in Minutes |-> 0]
    BY DEF CronInit, Never
  <1>2. QED
    BY <1>1 DEF CronIInv, NeverTwice

LEMMA BeginsIInv ==
  ASSUME CronIInv, Begins, UNCHANGED today
  PROVE  CronIInv'
  <1>1. today' \in Minutes /\ looked' = {} /\ runs' = [m \in Minutes |-> 0]
    BY DEF CronIInv, Begins, Never
  <1>2. QED
    BY <1>1 DEF CronIInv, NeverTwice, Minutes

LEMMA TickIInv ==
  ASSUME CronIInv, Tick
  PROVE  CronIInv'
  <1> DEFINE d == Calendar[today]
             due == CurrentMinute(d) # lastFiredMinute /\ Matches(d)
  <1>1. /\ today \in Minutes /\ today' = today
        /\ looked \subseteq Minutes /\ looked' = looked \cup {today}
        /\ runs \in [Minutes -> Nat]
    BY DEF CronIInv, Tick
  <1>2. \A m \in Minutes : m > today' => m \notin looked'
    <2>1. \A m \in Minutes : m > today => m \notin looked
      BY DEF CronIInv
    <2>2. Minutes \subseteq Nat
      BY CronAssumption DEF Minutes
    <2>3. QED
      BY <1>1, <2>1, <2>2
  <1>3. CASE due /\ Fires(d)
    <2>1. lastFiredMinute' = CurrentMinute(d) /\ runs' = [runs EXCEPT ![today] = @ + 1]
      BY <1>3 DEF Fires
    <2>2. runs[today] = 0
      BY <1>1, <1>3 DEF CronIInv
    <2>3. runs' \in [Minutes -> Nat] /\ runs'[today] = 1 /\ \A m \in Minutes \ {today} : runs'[m] = runs[m]
      BY <1>1, <2>1, <2>2
    <2>4. NeverTwice'
      <3>1. SUFFICES ASSUME NEW m \in Minutes
                     PROVE  runs'[m] <= (IF m \in looked' /\ Matches(Calendar[m]) THEN 1 ELSE 0)
        BY DEF NeverTwice, Minutes, Matches
      <3>2. CASE m = today
        BY <1>1, <1>3, <2>3, <3>2
      <3>3. CASE m # today
        <4>1. runs[m] <= (IF m \in looked /\ Matches(Calendar[m]) THEN 1 ELSE 0)
          BY DEF CronIInv, NeverTwice
        <4>2. QED
          BY <1>1, <2>3, <3>3, <4>1
      <3>4. QED
        BY <3>2, <3>3
    <2>5. QED
      BY <1>1, <1>2, <2>1, <2>3, <2>4 DEF CronIInv, Minutes, CurrentMinute
  <1>4. CASE UNCHANGED <<lastFiredMinute, runs>>
    <2>1. NeverTwice'
      <3>1. \A m \in Minutes : runs[m] <= (IF m \in looked /\ Matches(Calendar[m]) THEN 1 ELSE 0)
        BY DEF CronIInv, NeverTwice
      <3>2. \A m \in Minutes : runs'[m] <= (IF m \in looked' /\ Matches(Calendar[m]) THEN 1 ELSE 0)
        BY <1>1, <1>4, <3>1
      <3>3. QED
        BY <3>2 DEF NeverTwice, Minutes, Matches
    <2>2. QED
      BY <1>1, <1>2, <1>4, <2>1 DEF CronIInv, Minutes, CurrentMinute
  <1>5. QED
    BY <1>3, <1>4 DEF Tick

LEMMA PassesIInv ==
  ASSUME CronIInv, Passes
  PROVE  CronIInv'
  <1>1. /\ today \in Minutes /\ today < Len(Calendar) /\ today' = today + 1
        /\ UNCHANGED <<lastFiredMinute, looked, runs>>
        /\ looked \subseteq Minutes /\ runs \in [Minutes -> Nat]
    BY DEF CronIInv, Passes
  <1>2. Minutes = 1..Len(Calendar) /\ Len(Calendar) \in Nat
    BY CronAssumption DEF Minutes
  <1>3. today' \in Minutes /\ today' > today
    BY <1>1, <1>2
  <1>4. today' \notin looked /\ \A m \in Minutes : m > today' => m \notin looked
    BY <1>1, <1>2, <1>3 DEF CronIInv
  <1>5. \A m \in Minutes : runs[m] <= (IF m \in looked /\ Matches(Calendar[m]) THEN 1 ELSE 0)
    BY DEF CronIInv, NeverTwice
  <1>6. ~(runs[today'] > 0)
    BY <1>1, <1>3, <1>4, <1>5
  <1>7. NeverTwice'
    BY <1>1, <1>5 DEF NeverTwice, Minutes, Matches
  <1>8. QED
    BY <1>1, <1>3, <1>4, <1>6, <1>7 DEF CronIInv, Minutes

LEMMA CronStepIInv == CronIInv /\ [CronNext]_cronVars => CronIInv'
  <1> SUFFICES ASSUME CronIInv, [CronNext]_cronVars PROVE CronIInv'
    OBVIOUS
  <1>1. CASE UNCHANGED <<lastFiredMinute, today, looked, runs>>
    BY <1>1 DEF CronIInv, NeverTwice, Minutes, Matches, CurrentMinute
  <1>2. CASE Start
    BY <1>1, <1>2, BeginsIInv DEF Start
  <1>3. CASE Stop
    BY <1>1, <1>3 DEF Stop
  <1>4. CASE Tick
    BY <1>4, TickIInv
  <1>5. CASE Passes
    BY <1>5, PassesIInv
  <1>6. QED
    BY <1>1, <1>2, <1>3, <1>4, <1>5 DEF CronNext, cronVars

\* However often a minute is looked at, and whatever was started and stopped before,
\* the handler runs once in it at most, and only if it is one of the schedule.
THEOREM MinuteRunsOnce == CronSpec => []NeverTwice
  <1>1. CronIInv => NeverTwice
    BY DEF CronIInv
  <1>2. QED
    BY <1>1, CronInitIInv, CronStepIInv, PTL DEF CronSpec
-----------------------------------------------------------------------------
(* EventEmitter.  A wrapper that has called is not in the Set of the event *)
(* any more, and it was in no other: what calls it again walks a Set that  *)
(* has been left behind.                                                   *)

EmitterShape ==
  /\ sets \in Seq(Seq(Listener \cup {Gap}))
  /\ listeners \in 0..Len(sets)
  /\ walks \in Seq([set : Nat, at : Nat, owed : SUBSET Listener])
  /\ \A i \in DOMAIN walks : walks[i].set \in DOMAIN sets
  /\ fired \in [1..MaxOnce -> Nat]

\* A wrapper is in one Set at most, and has one handler.
OneHome ==
  \A n \in 1..MaxOnce : \A s, t \in DOMAIN sets : \A g, h \in Handlers :
    <<g, n>> \in Known(s) /\ <<h, n>> \in Known(t) => s = t /\ g = h

CalledIsGone ==
  \A n \in 1..MaxOnce : fired[n] > 0 /\ listeners # 0 => \A h \in Handlers : <<h, n>> \notin Known(listeners)

EmitterIInv == EmitterShape /\ OneHome /\ CalledIsGone /\ OnceFiresOnce

LEMMA EmitterInitIInv == EmitterInit => EmitterIInv
  BY EmitterAssumption DEF EmitterInit, EmitterIInv, EmitterShape, OneHome, CalledIsGone, OnceFiresOnce

LEMMA PairIsNotEmpty == ASSUME NEW a, NEW b PROVE <<a, b>> # <<>>
  OBVIOUS

LEMMA ListenerIsNoGap == \A x \in Listener : x # Gap
  <1> SUFFICES ASSUME NEW x \in Listener PROVE x # <<>>
    BY DEF Gap
  <1>1. x = <<x[1], x[2]>>
    BY DEF Listener
  <1>2. QED
    BY <1>1, PairIsNotEmpty

\* What a deletion leaves in the Sets.
LEMMA DeletedKnown ==
  ASSUME EmitterShape, NEW x \in Listener, Deleted(x)
  PROVE  /\ sets' \in Seq(Seq(Listener \cup {Gap})) /\ Len(sets') = Len(sets) /\ DOMAIN sets' = DOMAIN sets
         /\ \A s \in DOMAIN sets : Known(s)' = IF s = listeners THEN Known(s) \ {x} ELSE Known(s)
  <1>1. CASE listeners = 0
    BY <1>1 DEF EmitterShape, Deleted, Known, Range
  <1>2. CASE listeners # 0
    <2> DEFINE old == sets[listeners]
               new == Without(old, x)
    <2>1. listeners \in DOMAIN sets /\ sets \in Seq(Seq(Listener \cup {Gap}))
      BY <1>2 DEF EmitterShape
    <2>2. old \in Seq(Listener \cup {Gap})
      BY <2>1
    <2>3. new \in Seq(Listener \cup {Gap}) /\ DOMAIN new = DOMAIN old
      BY <2>2 DEF Without
    <2>4. Range(new) \ {Gap} = (Range(old) \ {Gap}) \ {x}
      BY <2>2, ListenerIsNoGap DEF Without, Range
    <2> HIDE DEF old, new
    <2>5. sets' = [sets EXCEPT ![listeners] = new]
      BY <1>2 DEF Deleted, new, old
    <2>6. sets' \in Seq(Seq(Listener \cup {Gap})) /\ Len(sets') = Len(sets) /\ DOMAIN sets' = DOMAIN sets
      BY <2>1, <2>3, <2>5
    <2>7. sets'[listeners] = new /\ \A s \in DOMAIN sets : s # listeners => sets'[s] = sets[s]
      BY <2>1, <2>5
    <2>8. \A s \in DOMAIN sets : Known(s)' = IF s = listeners THEN Known(s) \ {x} ELSE Known(s)
      BY <2>4, <2>7 DEF Known, old
    <2>9. QED
      BY <2>6, <2>8
  <1>3. QED
    BY <1>1, <1>2

\* A deletion takes nothing from OneHome and CalledIsGone.
LEMMA DeletedIInv ==
  ASSUME EmitterIInv, NEW x \in Listener, Deleted(x), UNCHANGED <<listeners, fired>>
  PROVE  (OneHome /\ CalledIsGone)'
  <1>1. DOMAIN sets' = DOMAIN sets /\ \A s \in DOMAIN sets : Known(s)' \subseteq Known(s)
    BY DeletedKnown DEF EmitterIInv, EmitterShape
  <1>2. listeners # 0 => listeners \in DOMAIN sets
    BY DEF EmitterIInv, EmitterShape
  <1>3. OneHome'
    BY <1>1 DEF EmitterIInv, OneHome
  <1>4. CalledIsGone'
    BY <1>1, <1>2 DEF EmitterIInv, CalledIsGone
  <1>5. QED
    BY <1>3, <1>4

LEMMA RangeOfAppend ==
  ASSUME NEW S
  PROVE  \A q \in Seq(S) : \A x \in S : Range(Append(q, x)) = Range(q) \cup {x}
  <1> SUFFICES ASSUME NEW q \in Seq(S), NEW x \in S PROVE Range(Append(q, x)) = Range(q) \cup {x}
    OBVIOUS
  <1>1. DOMAIN Append(q, x) = DOMAIN q \cup {Len(q) + 1} /\ Append(q, x)[Len(q) + 1] = x
    OBVIOUS
  <1>2. \A i \in DOMAIN q : Append(q, x)[i] = q[i]
    OBVIOUS
  <1>3. QED
    BY <1>1, <1>2 DEF Range

\* What a registration adds to the Sets.
LEMMA AddKnown ==
  ASSUME EmitterShape, NEW x \in Listener, Add(x)
  PROVE  /\ sets' \in Seq(Seq(Listener \cup {Gap})) /\ listeners' \in DOMAIN sets'
         /\ DOMAIN sets \subseteq DOMAIN sets'
         /\ listeners = 0 => DOMAIN sets' = DOMAIN sets \cup {listeners'} /\ listeners' \notin DOMAIN sets
         /\ listeners # 0 => DOMAIN sets' = DOMAIN sets /\ listeners' = listeners
         /\ \A s \in DOMAIN sets : Known(s) \subseteq Known(s)'
         /\ \A s \in DOMAIN sets' : Known(s)' \subseteq (IF s \in DOMAIN sets THEN Known(s) ELSE {})
                                                   \cup (IF s = listeners' THEN {x} ELSE {})
  <1>1. sets \in Seq(Seq(Listener \cup {Gap})) /\ DOMAIN sets = 1..Len(sets) /\ listeners \in 0..Len(sets)
    BY DEF EmitterShape
  <1>2. CASE listeners = 0
    <2>1. listeners' = Len(sets) + 1 /\ sets' = Append(sets, <<x>>)
      BY <1>2 DEF Add
    <2>2. <<x>> \in Seq(Listener \cup {Gap}) /\ Range(<<x>>) = {x}
      BY DEF Range
    <2>3. sets' \in Seq(Seq(Listener \cup {Gap})) /\ DOMAIN sets' = DOMAIN sets \cup {listeners'}
          /\ listeners' \in DOMAIN sets' /\ listeners' \notin DOMAIN sets
      BY <1>1, <2>1, <2>2
    <2>4. sets'[listeners'] = <<x>> /\ \A s \in DOMAIN sets : sets'[s] = sets[s]
      BY <1>1, <2>1, <2>2
    <2>5. (Known(listeners))' \subseteq {x}
      BY <2>2, <2>4 DEF Known
    <2>6. \A s \in DOMAIN sets : Known(s)' = Known(s)
      BY <2>4 DEF Known
    <2>7. QED
      BY <1>2, <2>3, <2>5, <2>6
  <1>3. CASE listeners # 0 /\ UNCHANGED <<listeners, sets>>
    BY <1>1, <1>3 DEF Known
  <1>4. CASE listeners # 0 /\ UNCHANGED listeners /\ sets' = [sets EXCEPT ![listeners] = Append(@, x)]
    <2> DEFINE old == sets[listeners]
               new == Append(old, x)
    <2>1. listeners \in DOMAIN sets /\ old \in Seq(Listener \cup {Gap})
      BY <1>1, <1>4
    <2>2. new \in Seq(Listener \cup {Gap})
      BY <2>1
    <2>3. Range(new) = Range(old) \cup {x}
      BY <2>1, RangeOfAppend
    <2> HIDE DEF old, new
    <2>4. sets' = [sets EXCEPT ![listeners] = new]
      BY <1>4 DEF new, old
    <2>5. sets' \in Seq(Seq(Listener \cup {Gap})) /\ DOMAIN sets' = DOMAIN sets
      BY <1>1, <2>1, <2>2, <2>4
    <2>6. sets'[listeners] = new /\ \A s \in DOMAIN sets : s # listeners => sets'[s] = sets[s]
      BY <1>1, <2>1, <2>4
    <2>7. \A s \in DOMAIN sets : s # listeners => Known(s)' = Known(s)
      BY <2>6 DEF Known
    <2>8. Known(listeners) \subseteq Known(listeners)' /\ Known(listeners)' \subseteq Known(listeners) \cup {x}
      BY <1>4, <2>3, <2>6 DEF Known, old
    <2>9. QED
      BY <1>4, <2>1, <2>5, <2>7, <2>8
  <1>5. QED
    BY <1>2, <1>3, <1>4 DEF Add

\* A registration of a handler, or of a new wrapper.
LEMMA AddIInv ==
  ASSUME EmitterIInv, NEW h \in Handlers, NEW n \in 0..MaxOnce, n \notin Made, Add(<<h, n>>)
  PROVE  EmitterIInv'
  <1> DEFINE x == <<h, n>>
  <1>1. EmitterShape /\ x \in Listener /\ UNCHANGED <<walks, fired>>
    BY DEF EmitterIInv, Listener, Add
  <1>2. /\ sets' \in Seq(Seq(Listener \cup {Gap})) /\ listeners' \in DOMAIN sets'
        /\ DOMAIN sets \subseteq DOMAIN sets'
        /\ listeners = 0 => DOMAIN sets' = DOMAIN sets \cup {listeners'} /\ listeners' \notin DOMAIN sets
        /\ listeners # 0 => DOMAIN sets' = DOMAIN sets /\ listeners' = listeners
        /\ \A s \in DOMAIN sets : Known(s) \subseteq Known(s)'
        /\ \A s \in DOMAIN sets' : Known(s)' \subseteq (IF s \in DOMAIN sets THEN Known(s) ELSE {})
                                                  \cup (IF s = listeners' THEN {x} ELSE {})
    BY <1>1, AddKnown
  <1>3. EmitterShape'
    <2>1. listeners' \in 0..Len(sets')
      BY <1>2
    <2>2. \A i \in DOMAIN walks' : walks'[i].set \in DOMAIN sets'
      BY <1>1, <1>2 DEF EmitterShape
    <2>3. QED
      BY <1>1, <1>2, <2>1, <2>2 DEF EmitterShape
  <1>4. \A m \in 1..MaxOnce :
          m = n => fired[m] = 0 /\ \A s \in DOMAIN sets, g \in Handlers : <<g, m>> \notin Known(s)
    <2>1. fired \in [1..MaxOnce -> Nat]
      BY <1>1 DEF EmitterShape
    <2>2. QED
      BY <2>1 DEF Made
  <1>5. \A m \in 1..MaxOnce, s \in DOMAIN sets', g \in Handlers : <<g, m>> \in Known(s)' =>
          (m # n /\ s \in DOMAIN sets /\ <<g, m>> \in Known(s)) \/ (m = n /\ s = listeners' /\ g = h)
    <2> SUFFICES ASSUME NEW m \in 1..MaxOnce, NEW s \in DOMAIN sets', NEW g \in Handlers, <<g, m>> \in Known(s)'
                 PROVE  (m # n /\ s \in DOMAIN sets /\ <<g, m>> \in Known(s)) \/ (m = n /\ s = listeners' /\ g = h)
      OBVIOUS
    <2>1. CASE s \in DOMAIN sets /\ <<g, m>> \in Known(s)
      BY <1>4, <2>1
    <2>2. CASE s = listeners' /\ <<g, m>> = x
      BY <2>2
    <2>3. QED
      BY <1>2, <2>1, <2>2
  <1> HIDE DEF x
  <1>6. OneHome'
    <2>1. \A m \in 1..MaxOnce, s, t \in DOMAIN sets, f, g \in Handlers :
            <<f, m>> \in Known(s) /\ <<g, m>> \in Known(t) => s = t /\ f = g
      BY DEF EmitterIInv, OneHome
    <2>2. QED
      BY <1>5, <2>1 DEF OneHome
  <1>7. CalledIsGone'
    <2> SUFFICES ASSUME NEW m \in 1..MaxOnce, fired[m] > 0, NEW g \in Handlers, <<g, m>> \in (Known(listeners))'
                 PROVE  FALSE
      BY <1>1 DEF CalledIsGone
    <2>1. m # n
      BY <1>4
    <2>2. listeners' \in DOMAIN sets /\ <<g, m>> \in Known(listeners')
      BY <1>2, <1>5, <2>1
    <2>3. listeners # 0 /\ listeners' = listeners
      BY <1>2, <2>2
    <2>4. QED
      BY <2>2, <2>3 DEF EmitterIInv, CalledIsGone
  <1>8. OnceFiresOnce'
    <2> SUFFICES ASSUME NEW m \in 1..MaxOnce, fired[m] > 1
                 PROVE  \E s \in DOMAIN sets' \ {listeners'}, g \in Handlers : <<g, m>> \in Known(s)'
      BY <1>1 DEF OnceFiresOnce
    <2>1. PICK s \in DOMAIN sets \ {listeners}, g \in Handlers : <<g, m>> \in Known(s)
      BY DEF EmitterIInv, OnceFiresOnce
    <2>2. s \in DOMAIN sets' \ {listeners'} /\ <<g, m>> \in Known(s)'
      BY <1>2, <2>1
    <2>3. QED
      BY <2>2
  <1>9. QED
    BY <1>3, <1>6, <1>7, <1>8 DEF EmitterIInv

Walk == [set : Nat, at : Nat, owed : SUBSET Listener]

\* A call of a listener of a walk.
LEMMA CalledIInv ==
  ASSUME EmitterIInv, NEW s \in DOMAIN sets, NEW x \in Listener, x \in Known(s), Called(x), UNCHANGED listeners
  PROVE  /\ sets' \in Seq(Seq(Listener \cup {Gap})) /\ Len(sets') = Len(sets) /\ DOMAIN sets' = DOMAIN sets
         /\ fired' \in [1..MaxOnce -> Nat]
         /\ (OneHome /\ CalledIsGone /\ OnceFiresOnce)'
  <1>1. EmitterShape /\ fired \in [1..MaxOnce -> Nat] /\ (listeners # 0 => listeners \in DOMAIN sets)
    BY DEF EmitterIInv, EmitterShape
  <1>2. CASE UNCHANGED <<sets, fired>>
    <2>1. OneHome'
      BY <1>2 DEF EmitterIInv, OneHome, Known
    <2>2. CalledIsGone'
      BY <1>2 DEF EmitterIInv, CalledIsGone, Known
    <2>3. OnceFiresOnce'
      BY <1>2 DEF EmitterIInv, OnceFiresOnce, Known
    <2>4. QED
      BY <1>1, <1>2, <2>1, <2>2, <2>3 DEF EmitterShape
  <1>3. CASE x[2] # 0 /\ fired' = [fired EXCEPT ![x[2]] = @ + 1] /\ Deleted(x)
    <2>1. PICK g \in Handlers, n \in 0..MaxOnce : g = x[1] /\ n = x[2] /\ x = <<g, n>>
      BY DEF Listener
    <2>2. n \in 1..MaxOnce /\ fired' = [fired EXCEPT ![n] = @ + 1]
      BY <1>3, <2>1, EmitterAssumption
    <2>3. fired' \in [1..MaxOnce -> Nat] /\ fired'[n] = fired[n] + 1
          /\ \A m \in 1..MaxOnce : m # n => fired'[m] = fired[m]
      BY <1>1, <2>2
    <2>4. /\ sets' \in Seq(Seq(Listener \cup {Gap})) /\ Len(sets') = Len(sets) /\ DOMAIN sets' = DOMAIN sets
          /\ \A t \in DOMAIN sets : Known(t)' = IF t = listeners THEN Known(t) \ {x} ELSE Known(t)
      BY <1>1, <1>3, DeletedKnown
    <2>5. \A t, u \in DOMAIN sets, f, h \in Handlers, m \in 1..MaxOnce :
            <<f, m>> \in Known(t) /\ <<h, m>> \in Known(u) => t = u /\ f = h
      BY DEF EmitterIInv, OneHome
    <2>6. OneHome'
      <3>1. \A t \in DOMAIN sets : Known(t)' \subseteq Known(t)
        BY <2>4
      <3>2. DOMAIN sets' = DOMAIN sets
        BY <2>4
      <3>3. QED
        BY <2>5, <3>1, <3>2 DEF OneHome
    <2>7. CalledIsGone'
      <3> SUFFICES ASSUME NEW m \in 1..MaxOnce, fired'[m] > 0, listeners # 0,
                          NEW h \in Handlers, <<h, m>> \in Known(listeners)'
                   PROVE  FALSE
        BY DEF CalledIsGone
      <3>1. <<h, m>> \in Known(listeners) /\ <<h, m>> # x
        BY <1>1, <2>4
      <3>2. CASE m = n
        BY <1>1, <2>1, <2>5, <3>1, <3>2
      <3>3. CASE m # n
        BY <2>3, <3>1, <3>3 DEF EmitterIInv, CalledIsGone
      <3>4. QED
        BY <3>2, <3>3
    <2>8. OnceFiresOnce'
      <3> SUFFICES ASSUME NEW m \in 1..MaxOnce, fired'[m] > 1
                   PROVE  \E t \in DOMAIN sets' \ {listeners'}, h \in Handlers : <<h, m>> \in Known(t)'
        BY DEF OnceFiresOnce
      <3>1. \E t \in DOMAIN sets \ {listeners}, h \in Handlers : <<h, m>> \in Known(t)
        <4>1. CASE m = n
          <5>1. fired[n] > 0
            BY <1>1, <2>2, <2>3, <4>1
          <5>2. s # listeners
            <6>1. SUFFICES ASSUME s = listeners PROVE FALSE
              OBVIOUS
            <6>2. listeners # 0 /\ <<g, n>> \in Known(listeners)
              BY <1>1, <2>1, <6>1 DEF EmitterShape
            <6>3. QED
              BY <2>2, <5>1, <6>2 DEF EmitterIInv, CalledIsGone
          <5>3. QED
            BY <2>1, <4>1, <5>2
        <4>2. CASE m # n
          BY <2>3, <4>2 DEF EmitterIInv, OnceFiresOnce
        <4>3. QED
          BY <4>1, <4>2
      <3>2. PICK t \in DOMAIN sets, h \in Handlers : t # listeners /\ <<h, m>> \in Known(t)
        BY <3>1
      <3>3. t \in DOMAIN sets' /\ t # listeners' /\ Known(t)' = Known(t)
        BY <2>4, <3>2
      <3>4. QED
        BY <3>2, <3>3
    <2>9. QED
      BY <2>3, <2>4, <2>6, <2>7, <2>8
  <1>4. QED
    BY <1>2, <1>3 DEF Called

\* A walk goes on: it ends, or it calls its next listener.
LEMMA WalksIInv ==
  ASSUME EmitterIInv, NEW outer \in Seq(Walk), NEW loop \in Walk,
         \A i \in DOMAIN outer : outer[i].set \in DOMAIN sets, loop.set \in DOMAIN sets,
         Walks(outer, loop)
  PROVE  EmitterIInv'
  <1> DEFINE s == loop.set
             further == Ahead(loop.set, loop.at)
  <1>1. EmitterShape /\ UNCHANGED listeners
    BY DEF EmitterIInv, Walks
  <1>2. CASE walks' = outer /\ UNCHANGED <<sets, fired>>
    <2>1. EmitterShape'
      BY <1>1, <1>2 DEF EmitterShape, Walk
    <2>2. OneHome'
      BY <1>2 DEF EmitterIInv, OneHome, Known
    <2>3. CalledIsGone'
      BY <1>1, <1>2 DEF EmitterIInv, CalledIsGone, Known
    <2>4. OnceFiresOnce'
      BY <1>1, <1>2 DEF EmitterIInv, OnceFiresOnce, Known
    <2>5. QED
      BY <2>1, <2>2, <2>3, <2>4 DEF EmitterIInv
  <1>3. ASSUME NEW at \in further,
               walks' = Append(outer, [loop EXCEPT !.at = at, !.owed = @ \ {sets[s][at]}]),
               Called(sets[s][at])
        PROVE  EmitterIInv'
    <2>1. sets[s] \in Seq(Listener \cup {Gap}) /\ at \in DOMAIN sets[s] /\ sets[s][at] # Gap
      BY <1>1 DEF EmitterShape, Ahead
    <2>2. PICK x \in Listener : x = sets[s][at] /\ x \in Known(s)
      BY <2>1 DEF Known, Range
    <2>3. Called(x)
      BY <1>3, <2>2 DEF Called, Deleted, Without
    <2>4. /\ sets' \in Seq(Seq(Listener \cup {Gap})) /\ Len(sets') = Len(sets) /\ DOMAIN sets' = DOMAIN sets
          /\ fired' \in [1..MaxOnce -> Nat]
          /\ (OneHome /\ CalledIsGone /\ OnceFiresOnce)'
      BY <1>1, <2>2, <2>3, CalledIInv
    <2> DEFINE next == [loop EXCEPT !.at = at, !.owed = @ \ {x}]
    <2>5. at \in Nat
      BY <2>1
    <2>6. next \in Walk /\ next.set = s
      BY <2>5 DEF Walk
    <2> HIDE DEF next
    <2>7. walks' = Append(outer, next)
      BY <1>3, <2>2 DEF next
    <2>8. walks' \in Seq(Walk) /\ \A i \in DOMAIN walks' : walks'[i].set \in DOMAIN sets
      BY <2>6, <2>7
    <2>9. EmitterShape'
      BY <1>1, <2>4, <2>8 DEF EmitterShape, Walk
    <2>10. QED
      BY <2>4, <2>9 DEF EmitterIInv
  <1>4. QED
    BY <1>2, <1>3 DEF Walks

LEMMA EmitIInv ==
  ASSUME EmitterIInv, Emit
  PROVE  EmitterIInv'
  <1> DEFINE first == [set |-> listeners, at |-> 0, owed |-> Known(listeners)]
  <1>1. EmitterShape /\ listeners \in DOMAIN sets
    BY DEF EmitterIInv, EmitterShape, Emit
  <1>2. Known(listeners) \subseteq Listener
    BY <1>1 DEF EmitterShape, Known, Range
  <1>3. PICK loop \in Walk : loop = first
    <2>1. listeners \in Nat
      BY <1>1 DEF EmitterShape
    <2>2. first \in Walk
      BY <1>2, <2>1 DEF Walk
    <2>3. QED
      BY <2>2
  <1>4. PICK outer \in Seq(Walk) : outer = walks
    BY <1>1 DEF EmitterShape, Walk
  <1>5. Walks(walks, first)
    BY DEF Emit
  <1> HIDE DEF first
  <1>6. Walks(outer, loop)
    BY <1>3, <1>4, <1>5 DEF Walks, Called, Deleted
  <1>7. loop.set \in DOMAIN sets
    BY <1>1, <1>3 DEF first
  <1>8. QED
    BY <1>1, <1>4, <1>6, <1>7, WalksIInv DEF EmitterShape

LEMMA ReturnsIInv ==
  ASSUME EmitterIInv, Returns
  PROVE  EmitterIInv'
  <1>1. EmitterShape /\ walks \in Seq(Walk) /\ walks # <<>> /\ Walks(Front(walks), Last(walks))
    BY DEF EmitterIInv, EmitterShape, Walk, Returns
  <1>2. Front(walks) \in Seq(Walk) /\ Last(walks) \in Walk
        /\ Last(walks).set \in DOMAIN sets
        /\ \A i \in DOMAIN Front(walks) : Front(walks)[i].set \in DOMAIN sets
    <2>1. Front(walks) \in Seq(Walk) /\ DOMAIN Front(walks) \subseteq DOMAIN walks
          /\ \A i \in DOMAIN Front(walks) : Front(walks)[i] = walks[i]
      BY <1>1 DEF Front
    <2>2. Len(walks) \in DOMAIN walks /\ Last(walks) = walks[Len(walks)]
      BY <1>1 DEF Last
    <2>3. \A i \in DOMAIN walks : walks[i] \in Walk /\ walks[i].set \in DOMAIN sets
      BY <1>1 DEF EmitterShape
    <2>4. Last(walks) \in Walk /\ Last(walks).set \in DOMAIN sets
      BY <2>2, <2>3
    <2>5. \A i \in DOMAIN Front(walks) : Front(walks)[i].set \in DOMAIN sets
      BY <2>1, <2>3
    <2>6. QED
      BY <2>1, <2>4, <2>5
  <1>3. PICK loop \in Walk : loop = Last(walks)
    BY <1>2
  <1>4. PICK outer \in Seq(Walk) : outer = Front(walks)
    BY <1>2
  <1>5. Walks(outer, loop)
    BY <1>1, <1>3, <1>4 DEF Walks, Called, Deleted
  <1>6. QED
    BY <1>2, <1>3, <1>4, <1>5, WalksIInv

LEMMA EmitterStepIInv == EmitterIInv /\ [EmitterNext]_emitterVars => EmitterIInv'
  <1> SUFFICES ASSUME EmitterIInv, [EmitterNext]_emitterVars PROVE EmitterIInv'
    OBVIOUS
  <1>1. EmitterShape
    BY DEF EmitterIInv
  <1>2. ASSUME NEW h \in Handlers, On(h) PROVE EmitterIInv'
    <2>1. 0 \in 0..MaxOnce /\ 0 \notin Made
      BY EmitterAssumption DEF Made
    <2>2. QED
      BY <1>2, <2>1, AddIInv DEF On
  <1>3. ASSUME NEW h \in Handlers, Once(h) PROVE EmitterIInv'
    <2>1. PICK n \in 1..MaxOnce : n \notin Made /\ Add(<<h, n>>)
      BY <1>3 DEF Once
    <2>2. QED
      BY <2>1, AddIInv
  <1>4. ASSUME NEW h \in Handlers, Off(h) PROVE EmitterIInv'
    <2>1. <<h, 0>> \in Listener
      BY EmitterAssumption DEF Listener
    <2>2. Deleted(<<h, 0>>) /\ UNCHANGED <<listeners, walks, fired>>
      BY <1>4 DEF Off
    <2>3. /\ sets' \in Seq(Seq(Listener \cup {Gap})) /\ Len(sets') = Len(sets) /\ DOMAIN sets' = DOMAIN sets
          /\ \A s \in DOMAIN sets : Known(s)' = IF s = listeners THEN Known(s) \ {<<h, 0>>} ELSE Known(s)
      BY <1>1, <2>1, <2>2, DeletedKnown
    <2>4. OneHome' /\ CalledIsGone'
      BY <2>1, <2>2, DeletedIInv
    <2>5. \A s \in DOMAIN sets : s # listeners => Known(s)' = Known(s)
      BY <2>3
    <2>6. OnceFiresOnce'
      <3> SUFFICES ASSUME NEW m \in 1..MaxOnce, fired'[m] > 1
                   PROVE  \E s \in DOMAIN sets' \ {listeners'}, g \in Handlers : <<g, m>> \in Known(s)'
        BY DEF OnceFiresOnce
      <3>1. PICK s \in DOMAIN sets \ {listeners}, g \in Handlers : <<g, m>> \in Known(s)
        BY <2>2 DEF EmitterIInv, OnceFiresOnce
      <3>2. s \in DOMAIN sets' \ {listeners'} /\ Known(s)' = Known(s)
        BY <2>2, <2>3, <2>5
      <3>3. QED
        BY <3>1, <3>2
    <2>7. EmitterShape'
      BY <1>1, <2>2, <2>3 DEF EmitterShape
    <2>8. QED
      BY <2>4, <2>6, <2>7 DEF EmitterIInv
  <1>5. ASSUME UNCHANGED <<sets, fired>>, listeners' = listeners \/ listeners' = 0,
               walks' \in Seq(Walk) /\ \A i \in DOMAIN walks' : walks'[i].set \in DOMAIN sets
        PROVE  EmitterIInv'
    <2>1. EmitterShape'
      BY <1>1, <1>5 DEF EmitterShape, Walk
    <2>2. OneHome'
      BY <1>5 DEF EmitterIInv, OneHome, Known
    <2>3. CalledIsGone'
      BY <1>5 DEF EmitterIInv, CalledIsGone, Known
    <2>4. 0 \notin DOMAIN sets
      BY <1>1 DEF EmitterShape
    <2>5. OnceFiresOnce'
      BY <1>5, <2>4 DEF EmitterIInv, OnceFiresOnce, Known
    <2>6. QED
      BY <2>1, <2>2, <2>3, <2>5 DEF EmitterIInv
  <1>6. walks \in Seq(Walk) /\ \A i \in DOMAIN walks : walks[i].set \in DOMAIN sets
    BY <1>1 DEF EmitterShape, Walk
  <1>7. CASE RemoveAll \/ UNCHANGED emitterVars
    BY <1>5, <1>6, <1>7 DEF RemoveAll, emitterVars
  <1>8. CASE Throws
    <2>1. Front(walks) \in Seq(Walk) /\ \A i \in DOMAIN Front(walks) : Front(walks)[i].set \in DOMAIN sets
      BY <1>6, <1>8 DEF Front, Throws
    <2>2. QED
      BY <1>5, <1>8, <2>1 DEF Throws
  <1>9. QED
    BY <1>2, <1>3, <1>4, <1>7, <1>8, EmitIInv, ReturnsIInv DEF EmitterNext

\* Whatever the handlers do to the emitter from inside its emits, and however deep those
\* are, a wrapper calls its handler twice only from a Set that removeAll() left behind.
THEOREM WrapperCallsOnce == EmitterSpec => []OnceFiresOnce
  <1>1. EmitterIInv => OnceFiresOnce
    BY DEF EmitterIInv
  <1>2. QED
    BY <1>1, EmitterInitIInv, EmitterStepIInv, PTL DEF EmitterSpec
-----------------------------------------------------------------------------
(* EventEmitter: nobody is passed over.  What a step does to a Set keeps    *)
(* what stands in it in its place, or leaves a gap for all of it, and what  *)
(* is new comes last.                                                      *)

Kept(q, r) ==
  /\ Len(q) <= Len(r)
  /\ \A i \in DOMAIN q : r[i] = q[i] \/ r[i] = Gap
  /\ \A i, j \in DOMAIN q : q[i] = q[j] => r[i] = r[j]

\* A walk of the Set q is still to come to those it owes a call.
Meets(q, loop) ==
  /\ loop.at \in 0..Len(q)
  /\ \A x \in loop.owed : \A i \in DOMAIN q : q[i] = x => \E j \in DOMAIN q : j > loop.at /\ q[j] = x

AllMeet == \A i \in DOMAIN walks : Meets(sets[walks[i].set], walks[i])

LEMMA KeptMeets ==
  ASSUME NEW q \in Seq(Listener \cup {Gap}), NEW r \in Seq(Listener \cup {Gap}), NEW loop \in Walk,
         Kept(q, r), Meets(q, loop)
  PROVE  Meets(r, loop)
  <1>1. /\ DOMAIN q = 1..Len(q) /\ DOMAIN r = 1..Len(r) /\ Len(q) \in Nat /\ Len(r) \in Nat /\ Len(q) <= Len(r)
        /\ loop.at \in 0..Len(q) /\ loop.owed \subseteq Listener
    BY DEF Kept, Meets, Walk
  <1>2. ASSUME NEW x \in loop.owed, NEW i \in DOMAIN r, r[i] = x
        PROVE  \E j \in DOMAIN r : j > loop.at /\ r[j] = x
    <2>1. CASE i > Len(q)
      BY <1>1, <1>2, <2>1
    <2>2. CASE i \in DOMAIN q
      <3>1. x # Gap /\ q[i] = x
        BY <1>1, <1>2, <2>2, ListenerIsNoGap DEF Kept
      <3>2. PICK j \in DOMAIN q : j > loop.at /\ q[j] = x
        BY <2>2, <3>1 DEF Meets
      <3>3. r[j] = x /\ j \in DOMAIN r
        BY <1>1, <1>2, <2>2, <3>1, <3>2 DEF Kept
      <3>4. QED
        BY <3>2, <3>3
    <2>3. QED
      BY <1>1, <2>1, <2>2
  <1>3. QED
    BY <1>1, <1>2 DEF Meets

\* The walk calls the first of those ahead of it.
LEMMA NextMeets ==
  ASSUME NEW q \in Seq(Listener \cup {Gap}), NEW loop \in Walk, Meets(q, loop),
         NEW at \in DOMAIN q, at > loop.at, q[at] # Gap,
         \A j \in DOMAIN q : j > loop.at /\ q[j] # Gap => at <= j
  PROVE  /\ [loop EXCEPT !.at = at, !.owed = @ \ {q[at]}] \in Walk
         /\ Meets(q, [loop EXCEPT !.at = at, !.owed = @ \ {q[at]}])
  <1> DEFINE next == [loop EXCEPT !.at = at, !.owed = @ \ {q[at]}]
  <1>1. DOMAIN q = 1..Len(q) /\ Len(q) \in Nat /\ at \in Nat
    OBVIOUS
  <1>2. /\ loop.at \in Nat /\ loop.owed \subseteq Listener
        /\ next.at = at /\ next.owed = loop.owed \ {q[at]} /\ next \in Walk
    BY <1>1 DEF Walk
  <1> HIDE DEF next
  <1>3. ASSUME NEW x \in next.owed, NEW i \in DOMAIN q, q[i] = x
        PROVE  \E j \in DOMAIN q : j > next.at /\ q[j] = x
    <2>1. x \in loop.owed /\ x # q[at] /\ x # Gap
      BY <1>2, ListenerIsNoGap
    <2>2. PICK j \in DOMAIN q : j > loop.at /\ q[j] = x
      BY <1>3, <2>1 DEF Meets
    <2>3. at <= j /\ at # j
      BY <2>1, <2>2
    <2>4. QED
      BY <1>1, <1>2, <2>2, <2>3
  <1>4. Meets(q, next)
    BY <1>1, <1>2, <1>3 DEF Meets
  <1>5. QED
    BY <1>2, <1>4 DEF next

LEMMA DeletedKeeps ==
  ASSUME EmitterShape, NEW x \in Listener, Deleted(x)
  PROVE  \A s \in DOMAIN sets : Kept(sets[s], sets'[s])
  <1>1. sets \in Seq(Seq(Listener \cup {Gap})) /\ \A s \in DOMAIN sets : sets[s] \in Seq(Listener \cup {Gap})
    BY DEF EmitterShape
  <1>2. \A q \in Seq(Listener \cup {Gap}) : Kept(q, q) /\ Kept(q, Without(q, x))
    <2> SUFFICES ASSUME NEW q \in Seq(Listener \cup {Gap}) PROVE Kept(q, q) /\ Kept(q, Without(q, x))
      OBVIOUS
    <2>1. Kept(q, q)
      BY DEF Kept
    <2>2. Without(q, x) \in Seq(Listener \cup {Gap}) /\ Len(Without(q, x)) = Len(q)
          /\ \A i \in DOMAIN q : Without(q, x)[i] = IF q[i] = x THEN Gap ELSE q[i]
      BY DEF Without
    <2>3. QED
      BY <2>1, <2>2 DEF Kept
  <1>3. ASSUME NEW s \in DOMAIN sets PROVE sets'[s] = sets[s] \/ sets'[s] = Without(sets[s], x)
    BY <1>1 DEF Deleted
  <1>4. QED
    BY <1>1, <1>2, <1>3

LEMMA AddKeeps ==
  ASSUME EmitterShape, NEW x \in Listener, Add(x)
  PROVE  \A s \in DOMAIN sets : Kept(sets[s], sets'[s])
  <1>1. sets \in Seq(Seq(Listener \cup {Gap})) /\ \A s \in DOMAIN sets : sets[s] \in Seq(Listener \cup {Gap})
    BY DEF EmitterShape
  <1>2. \A q \in Seq(Listener \cup {Gap}) : Kept(q, q) /\ Kept(q, Append(q, x))
    <2> SUFFICES ASSUME NEW q \in Seq(Listener \cup {Gap}) PROVE Kept(q, q) /\ Kept(q, Append(q, x))
      OBVIOUS
    <2>1. Kept(q, q)
      BY DEF Kept
    <2>2. Len(Append(q, x)) = Len(q) + 1 /\ \A i \in DOMAIN q : Append(q, x)[i] = q[i]
      OBVIOUS
    <2>3. QED
      BY <2>1, <2>2 DEF Kept
  <1>3. ASSUME NEW s \in DOMAIN sets PROVE sets'[s] = sets[s] \/ sets'[s] = Append(sets[s], x)
    <2>1. CASE sets' = Append(sets, <<x>>)
      BY <1>1, <2>1
    <2>2. CASE UNCHANGED sets
      BY <2>2
    <2>3. CASE sets' = [sets EXCEPT ![listeners] = Append(@, x)]
      BY <1>1, <2>3
    <2>4. QED
      BY <2>1, <2>2, <2>3 DEF Add
  <1>4. QED
    BY <1>1, <1>2, <1>3

LEMMA CalledKeeps ==
  ASSUME EmitterShape, NEW x \in Listener, Called(x)
  PROVE  \A s \in DOMAIN sets : Kept(sets[s], sets'[s])
  <1>1. CASE UNCHANGED sets
    BY <1>1 DEF EmitterShape, Kept
  <1>2. CASE Deleted(x)
    BY <1>2, DeletedKeeps
  <1>3. QED
    BY <1>1, <1>2 DEF Called

LEMMA WalksTyped ==
  ASSUME EmitterShape, AllMeet
  PROVE  /\ walks \in Seq(Walk)
         /\ \A i \in DOMAIN walks : walks[i] \in Walk /\ walks[i].set \in DOMAIN sets /\ Meets(sets[walks[i].set], walks[i])
  <1>1. walks \in Seq(Walk) /\ \A i \in DOMAIN walks : walks[i].set \in DOMAIN sets
    BY DEF EmitterShape, Walk
  <1>2. \A i \in DOMAIN walks : walks[i] \in Walk
    BY <1>1
  <1>3. QED
    BY <1>1, <1>2 DEF AllMeet

\* A walk goes on.
LEMMA WalksMeet ==
  ASSUME EmitterIInv, EmitterIInv', NEW outer \in Seq(Walk), NEW loop \in Walk,
         \A i \in DOMAIN outer : outer[i].set \in DOMAIN sets /\ Meets(sets[outer[i].set], outer[i]),
         loop.set \in DOMAIN sets, Meets(sets[loop.set], loop),
         Walks(outer, loop)
  PROVE  AllMeet'
  <1> DEFINE s == loop.set
  <1>1. /\ \A t \in DOMAIN sets : sets[t] \in Seq(Listener \cup {Gap})
        /\ \A t \in DOMAIN sets' : sets'[t] \in Seq(Listener \cup {Gap})
        /\ EmitterShape
    BY DEF EmitterIInv, EmitterShape
  <1>2. CASE walks' = outer /\ UNCHANGED <<sets, fired>>
    BY <1>2 DEF AllMeet
  <1>3. ASSUME NEW at \in Ahead(s, loop.at), \A j \in Ahead(s, loop.at) : at <= j,
               walks' = Append(outer, [loop EXCEPT !.at = at, !.owed = @ \ {sets[s][at]}]),
               Called(sets[s][at])
        PROVE  AllMeet'
    <2> DEFINE q == sets[s]
               next == [loop EXCEPT !.at = at, !.owed = @ \ {q[at]}]
    <2>1. /\ q \in Seq(Listener \cup {Gap}) /\ at \in DOMAIN q /\ at > loop.at /\ q[at] # Gap
          /\ \A j \in DOMAIN q : j > loop.at /\ q[j] # Gap => at <= j
      BY <1>1, <1>3 DEF Ahead
    <2>2. next \in Walk /\ Meets(q, next)
      BY <2>1, NextMeets
    <2>3. q[at] \in Listener
      BY <2>1
    <2>4. \A t \in DOMAIN sets : Kept(sets[t], sets'[t])
      BY <1>1, <1>3, <2>3, CalledKeeps
    <2>5. DOMAIN sets' = DOMAIN sets
      BY <1>1, <1>3, <2>3, DeletedKnown DEF Called
    <2>6. next.set = s
      BY DEF Walk
    <2> HIDE DEF next
    <2>7. walks' = Append(outer, next)
      BY <1>3 DEF next
    <2>8. Meets(sets'[next.set], next)
      BY <1>1, <2>1, <2>2, <2>4, <2>5, <2>6, KeptMeets
    <2>9. \A i \in DOMAIN outer : Meets(sets'[outer[i].set], outer[i])
      <3> SUFFICES ASSUME NEW i \in DOMAIN outer PROVE Meets(sets'[outer[i].set], outer[i])
        OBVIOUS
      <3>1. outer[i] \in Walk /\ outer[i].set \in DOMAIN sets /\ Meets(sets[outer[i].set], outer[i])
        OBVIOUS
      <3>2. QED
        BY <1>1, <2>4, <2>5, <3>1, KeptMeets
    <2>10. \A i \in DOMAIN walks' : (i \in DOMAIN outer /\ walks'[i] = outer[i]) \/ walks'[i] = next
      BY <2>2, <2>7
    <2>11. QED
      BY <2>8, <2>9, <2>10 DEF AllMeet
  <1>4. QED
    BY <1>2, <1>3 DEF Walks

LEMMA EmitMeets ==
  ASSUME EmitterIInv, EmitterIInv', AllMeet, Emit
  PROVE  AllMeet'
  <1> DEFINE first == [set |-> listeners, at |-> 0, owed |-> Known(listeners)]
  <1>1. /\ EmitterShape /\ listeners \in DOMAIN sets /\ listeners \in Nat
        /\ sets[listeners] \in Seq(Listener \cup {Gap})
        /\ walks \in Seq(Walk) /\ \A i \in DOMAIN walks : walks[i].set \in DOMAIN sets
    BY DEF EmitterIInv, EmitterShape, Emit, Walk
  <1>2. first \in Walk
    BY <1>1 DEF Walk, Known, Range
  <1>3. Meets(sets[listeners], first)
    BY <1>1 DEF Meets
  <1>4. first.set = listeners
    OBVIOUS
  <1>5. Walks(walks, first)
    BY DEF Emit
  <1> HIDE DEF first
  <1>6. PICK loop \in Walk : loop = first
    BY <1>2
  <1>7. PICK outer \in Seq(Walk) : outer = walks
    BY <1>1
  <1>8. Walks(outer, loop)
    BY <1>5, <1>6, <1>7 DEF Walks, Called, Deleted
  <1>9. QED
    BY <1>1, <1>3, <1>4, <1>6, <1>7, <1>8, WalksMeet DEF AllMeet

LEMMA ReturnsMeet ==
  ASSUME EmitterIInv, EmitterIInv', AllMeet, Returns
  PROVE  AllMeet'
  <1>1. /\ walks \in Seq(Walk) /\ walks # <<>> /\ Walks(Front(walks), Last(walks))
        /\ \A i \in DOMAIN walks : walks[i] \in Walk /\ walks[i].set \in DOMAIN sets /\ Meets(sets[walks[i].set], walks[i])
    BY WalksTyped DEF EmitterIInv, Returns
  <1>2. Front(walks) \in Seq(Walk) /\ DOMAIN Front(walks) \subseteq DOMAIN walks
        /\ \A i \in DOMAIN Front(walks) : Front(walks)[i] = walks[i]
    BY <1>1 DEF Front
  <1>3. Len(walks) \in DOMAIN walks /\ Last(walks) = walks[Len(walks)]
    BY <1>1 DEF Last
  <1>4. PICK loop \in Walk : loop = Last(walks)
    BY <1>1, <1>3
  <1>5. PICK outer \in Seq(Walk) : outer = Front(walks)
    BY <1>2
  <1>6. Walks(outer, loop)
    BY <1>1, <1>4, <1>5 DEF Walks, Called, Deleted
  <1>7. loop.set \in DOMAIN sets /\ Meets(sets[loop.set], loop)
    BY <1>1, <1>3, <1>4
  <1>8. \A i \in DOMAIN outer : outer[i].set \in DOMAIN sets /\ Meets(sets[outer[i].set], outer[i])
    BY <1>1, <1>2, <1>5
  <1>9. QED
    BY <1>6, <1>7, <1>8, WalksMeet

LEMMA StepMeets == EmitterIInv /\ EmitterIInv' /\ AllMeet /\ [EmitterNext]_emitterVars => AllMeet'
  <1> SUFFICES ASSUME EmitterIInv, EmitterIInv', AllMeet, [EmitterNext]_emitterVars PROVE AllMeet'
    OBVIOUS
  <1>1. /\ EmitterShape /\ walks \in Seq(Walk)
        /\ \A s \in DOMAIN sets : sets[s] \in Seq(Listener \cup {Gap})
        /\ \A s \in DOMAIN sets' : sets'[s] \in Seq(Listener \cup {Gap})
        /\ \A i \in DOMAIN walks : walks[i] \in Walk /\ walks[i].set \in DOMAIN sets /\ Meets(sets[walks[i].set], walks[i])
    <2>1. EmitterShape /\ EmitterShape'
      BY DEF EmitterIInv
    <2>2. sets \in Seq(Seq(Listener \cup {Gap})) /\ sets' \in Seq(Seq(Listener \cup {Gap}))
      BY <2>1 DEF EmitterShape
    <2>3. QED
      BY <2>1, <2>2, WalksTyped
  <1>2. ASSUME UNCHANGED walks, DOMAIN sets \subseteq DOMAIN sets', \A s \in DOMAIN sets : Kept(sets[s], sets'[s])
        PROVE  AllMeet'
    BY <1>1, <1>2, KeptMeets DEF AllMeet
  <1>3. ASSUME NEW x \in Listener, Add(x) PROVE AllMeet'
    BY <1>1, <1>2, <1>3, AddKnown, AddKeeps DEF Add
  <1>4. ASSUME NEW h \in Handlers, On(h) \/ Once(h) PROVE AllMeet'
    <2>1. \A n \in 0..MaxOnce : <<h, n>> \in Listener
      BY DEF Listener
    <2>2. 0 \in 0..MaxOnce /\ 1..MaxOnce \subseteq 0..MaxOnce
      BY EmitterAssumption
    <2>3. QED
      BY <1>3, <1>4, <2>1, <2>2 DEF On, Once
  <1>5. ASSUME NEW h \in Handlers, Off(h) PROVE AllMeet'
    <2>1. <<h, 0>> \in Listener
      BY EmitterAssumption DEF Listener
    <2>2. QED
      BY <1>1, <1>2, <1>5, <2>1, DeletedKnown, DeletedKeeps DEF Off
  <1>6. CASE RemoveAll \/ UNCHANGED emitterVars
    BY <1>6 DEF RemoveAll, emitterVars, AllMeet
  <1>7. CASE Throws
    BY <1>1, <1>7 DEF Throws, AllMeet, Front
  <1>8. QED
    BY <1>4, <1>5, <1>6, <1>7, EmitMeets, ReturnsMeet DEF EmitterNext

\* Nobody who was registered when an emit began and still is can be passed over, whatever
\* the handlers before it registered, removed, emitted or threw.
THEOREM NobodyPassedOver == EmitterSpec => []EmitReaches
  <1>1. EmitterInit => AllMeet
    BY DEF EmitterInit, AllMeet
  <1>2. EmitterIInv /\ AllMeet => EmitReaches
    <2> SUFFICES ASSUME EmitterIInv, AllMeet, NEW i \in DOMAIN walks, NEW x \in walks[i].owed \cap Known(walks[i].set)
                 PROVE  \E j \in Ahead(walks[i].set, walks[i].at) : sets[walks[i].set][j] = x
      BY DEF EmitReaches
    <2> DEFINE q == sets[walks[i].set]
    <2>1. x # Gap /\ x \in walks[i].owed /\ \E k \in DOMAIN q : q[k] = x
      BY DEF Known, Range
    <2>2. PICK j \in DOMAIN q : j > walks[i].at /\ q[j] = x
      BY <2>1 DEF AllMeet, Meets
    <2>3. QED
      BY <2>1, <2>2 DEF Ahead
  <1>3. QED
    BY <1>1, <1>2, EmitterInitIInv, EmitterStepIInv, StepMeets, PTL DEF EmitterSpec
-----------------------------------------------------------------------------
(* RateLimiter.  An interval ends for the bucket that is filled on time     *)
(* when it ends for the one that is filled late, since the moment of its   *)
(* last refill is a whole number of intervals after the bucket was full.   *)

\* Products and divisions, which the provers know little of.
LEMMA ProductIsNat == \A m, n \in Nat : m * n \in Nat
  OBVIOUS

LEMMA ProductGrows == \A m, n, k \in Nat : m <= n => m * k <= n * k
<1> SUFFICES ASSUME NEW m \in Nat, NEW n \in Nat, NEW k \in Nat, m <= n PROVE m * k <= n * k
  OBVIOUS
<1>1. PICK d \in Nat : n = m + d
  BY n - m \in Nat
<1>2. n * k = m * k + d * k
  BY <1>1
<1>3. m * k \in Nat /\ d * k \in Nat
  BY ProductIsNat
<1> QED BY <1>2, <1>3

LEMMA OneMore == \A m, k \in Nat : (m + 1) * k = m * k + k
  OBVIOUS

LEMMA Divided ==
  \A e \in Nat, i \in Nat \ {0} :
    e \div i \in Nat /\ e % i \in Nat /\ e % i < i /\ e = (e \div i) * i + (e % i)
  OBVIOUS

LEMMA DividedOnce ==
  ASSUME NEW q \in Nat, NEW r \in Nat, NEW i \in Nat \ {0}, r < i
  PROVE  (q * i + r) \div i = q /\ (q * i + r) % i = r
<1> DEFINE p == q * i
<1>1. p \in Nat
  BY ProductIsNat
<1> DEFINE d == (p + r) \div i
<1> DEFINE m == (p + r) % i
<1>2. d \in Nat /\ m \in Nat /\ m < i /\ p + r = d * i + m
  BY <1>1, Divided
<1>3. d = q
  <2>1. CASE d < q
    <3>1. (d + 1) * i <= q * i /\ (d + 1) * i = d * i + i /\ d * i \in Nat
      BY <1>2, <2>1, ProductGrows, OneMore, ProductIsNat
    <3> QED BY <1>1, <1>2, <3>1
  <2>2. CASE q < d
    <3>1. (q + 1) * i <= d * i /\ (q + 1) * i = q * i + i /\ d * i \in Nat
      BY <1>2, <2>2, ProductGrows, OneMore, ProductIsNat
    <3> QED BY <1>1, <1>2, <3>1
  <2> QED BY <1>2, <2>1, <2>2
<1>4. m = r
  BY <1>1, <1>2, <1>3
<1> QED BY <1>3, <1>4

LEMMA LeastOfTwo == \A a, b \in Int : Min({a, b}) = IF a <= b THEN a ELSE b
<1> SUFFICES ASSUME NEW a \in Int, NEW b \in Int PROVE Min({a, b}) = IF a <= b THEN a ELSE b
  OBVIOUS
<1> DEFINE least == IF a <= b THEN a ELSE b
<1>1. least \in {a, b} /\ \A y \in {a, b} : least <= y
  OBVIOUS
<1>2. \A x \in {a, b} : (\A y \in {a, b} : x <= y) => x = least
  OBVIOUS
<1> HIDE DEF least
<1> QED BY <1>1, <1>2 DEF Min, least
-----------------------------------------------------------------------------
Least(a, b) == IF a <= b THEN a ELSE b

LEMMA MinIsLeast == \A a, b \in Int : Min({a, b}) = Least(a, b)
  BY LeastOfTwo DEF Least

\* e is q intervals and r.
Splits(e, q, r) == q \in Nat /\ r \in Nat /\ r < Interval /\ e = q * Interval + r

LEMMA Split == \A e \in Nat : \E q, r \in Nat : Splits(e, q, r)
<1> SUFFICES ASSUME NEW e \in Nat PROVE \E q, r \in Nat : Splits(e, q, r)
  OBVIOUS
<1>1. Interval \in Nat \ {0}
  BY LimiterAssumption
<1>2. e \div Interval \in Nat /\ e % Interval \in Nat
  BY <1>1, Divided
<1>3. Splits(e, e \div Interval, e % Interval)
  BY <1>1, Divided DEF Splits
<1> QED BY <1>2, <1>3

LEMMA SplitOnce == \A e, q, r : Splits(e, q, r) => e \div Interval = q /\ e % Interval = r
<1> SUFFICES ASSUME NEW e, NEW q, NEW r, Splits(e, q, r) PROVE e \div Interval = q /\ e % Interval = r
  OBVIOUS
<1>1. Interval \in Nat \ {0}
  BY LimiterAssumption
<1>2. q \in Nat /\ r \in Nat /\ r < Interval /\ e = q * Interval + r
  BY DEF Splits
<1>3. (q * Interval + r) \div Interval = q /\ (q * Interval + r) % Interval = r
  BY <1>1, <1>2, DividedOnce
<1> QED BY <1>2, <1>3

\* One more, and some intervals more.
LEMMA SplitNext ==
  \A e, q, r \in Nat : Splits(e, q, r) => /\ r + 1 < Interval => Splits(e + 1, q, r + 1)
                                          /\ r + 1 >= Interval => Splits(e + 1, q + 1, 0)
<1> SUFFICES ASSUME NEW e \in Nat, NEW q \in Nat, NEW r \in Nat, Splits(e, q, r)
             PROVE  /\ r + 1 < Interval => Splits(e + 1, q, r + 1)
                    /\ r + 1 >= Interval => Splits(e + 1, q + 1, 0)
  OBVIOUS
<1>1. Interval \in Nat \ {0}
  BY LimiterAssumption
<1>2. q \in Nat /\ r \in Nat /\ r < Interval /\ e = q * Interval + r
  BY DEF Splits
<1>3. q * Interval \in Nat /\ (q + 1) * Interval = q * Interval + Interval
  BY <1>1, <1>2, ProductIsNat, OneMore
<1> QED BY <1>1, <1>2, <1>3 DEF Splits

LEMMA SplitMore ==
  \A e, q, r : \A n \in Nat : Splits(e, q, r) => Splits(n * Interval + e, n + q, r)
<1> SUFFICES ASSUME NEW e, NEW q, NEW r, NEW n \in Nat, Splits(e, q, r)
             PROVE  Splits(n * Interval + e, n + q, r)
  OBVIOUS
<1>1. Interval \in Nat \ {0}
  BY LimiterAssumption
<1>2. q \in Nat /\ r \in Nat /\ r < Interval /\ e = q * Interval + r
  BY DEF Splits
<1>3. q * Interval \in Nat /\ n * Interval \in Nat /\ (n + q) * Interval = n * Interval + q * Interval
  BY <1>1, <1>2, ProductIsNat
<1> QED BY <1>2, <1>3 DEF Splits

\* What a look finds after e: the intervals that have passed, up to the capacity.
Found(t, e) == IF e >= Interval THEN Min({Capacity, t + (e \div Interval) * RefillRate}) ELSE t

LEMMA FoundIs ==
  \A t \in 0..Capacity : \A e, q, r : Splits(e, q, r) =>
    q * RefillRate \in Nat /\ Found(t, e) = Least(Capacity, t + q * RefillRate)
<1> SUFFICES ASSUME NEW t \in 0..Capacity, NEW e, NEW q, NEW r, Splits(e, q, r)
             PROVE  q * RefillRate \in Nat /\ Found(t, e) = Least(Capacity, t + q * RefillRate)
  OBVIOUS
<1>1. Capacity \in Nat /\ RefillRate \in Nat /\ Interval \in Nat \ {0}
  BY LimiterAssumption
<1>2. q \in Nat /\ r \in Nat /\ r < Interval /\ e = q * Interval + r /\ q * Interval \in Nat
  BY <1>1, ProductIsNat DEF Splits
<1>3. e \div Interval = q
  BY SplitOnce
<1>4. q * RefillRate \in Nat
  BY <1>1, <1>2, ProductIsNat
<1> DEFINE more == q * RefillRate
<1>5. Found(t, e) = IF e >= Interval THEN Min({Capacity, t + more}) ELSE t
  BY <1>3 DEF Found
<1>6. CASE e >= Interval
  <2> HIDE DEF more
  <2>1. more \in Nat
    BY <1>4 DEF more
  <2>2. Min({Capacity, t + more}) = Least(Capacity, t + more)
    BY <1>1, <2>1, MinIsLeast
  <2> QED BY <1>4, <1>5, <1>6, <2>2 DEF more
<1>7. CASE e < Interval
  <2>1. q = 0
    <3>1. SUFFICES ASSUME q >= 1 PROVE FALSE
      BY <1>2
    <3>2. 1 * Interval <= q * Interval
      BY <1>1, <1>2, <3>1, ProductGrows
    <3> QED BY <1>1, <1>2, <1>7, <3>2
  <2>2. more = 0
    BY <1>1, <2>1
  <2> HIDE DEF more
  <2> QED BY <1>1, <1>2, <1>4, <1>5, <1>7, <2>2 DEF Least, more
<1> QED BY <1>1, <1>2, <1>6, <1>7

LEMMA RefilledIsFound == Refilled = Found(tokens, Elapsed)
  BY DEF Refilled, Found, Intervals

\* Until the clock is set back the intervals are those of the bucket that is filled on time.
InStep ==
  /\ lastRefill >= bucket.since /\ clock >= lastRefill
  /\ \E n \in Nat : lastRefill = bucket.since + n * Interval
  /\ bucket.tokens \in 0..Capacity
  /\ Refilled = bucket.tokens

LimiterIInv ==
  /\ tokens \in 0..Capacity /\ lastRefill \in Int /\ clock \in Nat
  /\ bucket \in [tokens : Int, since : Nat, steady : BOOLEAN]
  /\ bucket.steady => InStep

LEMMA RefilledInRange ==
  ASSUME tokens \in 0..Capacity, clock \in Nat, lastRefill \in Int
  PROVE  Refilled \in 0..Capacity
<1>1. Capacity \in Nat /\ RefillRate \in Nat /\ Interval \in Nat \ {0} /\ Elapsed \in Int
  BY LimiterAssumption DEF Elapsed
<1>2. CASE Elapsed >= Interval
  <2>1. Elapsed \in Nat
    BY <1>1, <1>2
  <2>2. PICK q, r \in Nat : Splits(Elapsed, q, r)
    BY <2>1, Split
  <2>3. Refilled = Least(Capacity, tokens + q * RefillRate) /\ q * RefillRate \in Nat
    BY <2>2, FoundIs, RefilledIsFound
  <2> DEFINE more == q * RefillRate
  <2> HIDE DEF more
  <2>4. Refilled = Least(Capacity, tokens + more) /\ more \in Nat
    BY <2>3 DEF more
  <2> QED BY <1>1, <2>4 DEF Least
<1>3. CASE ~(Elapsed >= Interval)
  BY <1>3 DEF Refilled
<1> QED BY <1>2, <1>3

\* A look leaves less than an interval, so that it can be looked at again.
LEMMA LookedAt ==
  ASSUME Elapsed \in Nat, clock \in Nat, lastRefill \in Nat, tokens' \in 0..Capacity, Refill, UNCHANGED clock
  PROVE  /\ lastRefill' >= lastRefill /\ clock' >= lastRefill'
         /\ \E n \in Nat : lastRefill' = lastRefill + n * Interval
         /\ Refilled' = tokens'
<1>1. Interval \in Nat \ {0} /\ clock = lastRefill + Elapsed
  BY LimiterAssumption DEF Elapsed
<1> DEFINE passed == Intervals * Interval
<1> DEFINE rest == Elapsed % Interval
<1>2. /\ passed \in Nat /\ rest \in Nat /\ rest < Interval /\ Elapsed = passed + rest
  BY <1>1, Divided, ProductIsNat DEF Intervals
<1>3. Intervals \in Nat
  BY <1>1, Divided DEF Intervals
<1>4. CASE Elapsed >= Interval
  <2>1. lastRefill' = lastRefill + passed
    BY <1>4 DEF Refill
  <2> HIDE DEF passed, rest
  <2>2. Elapsed' = rest /\ lastRefill' >= lastRefill /\ clock' >= lastRefill'
    BY <1>1, <1>2, <2>1 DEF Elapsed
  <2>3. Refilled' = tokens'
    BY <1>1, <1>2, <2>2 DEF Refilled
  <2> QED BY <1>3, <2>1, <2>2, <2>3 DEF passed
<1>5. CASE Elapsed < Interval
  <2>1. lastRefill' = lastRefill /\ Elapsed' = Elapsed
    BY <1>1, <1>5 DEF Refill, Elapsed
  <2>2. Refilled' = tokens'
    BY <1>1, <1>5, <2>1 DEF Refilled
  <2>3. lastRefill' = lastRefill + 0 * Interval
    BY <1>1, <2>1
  <2>4. clock' >= lastRefill'
    BY <1>1, <2>1
  <2> QED BY <2>1, <2>2, <2>3, <2>4
<1> QED BY <1>1, <1>4, <1>5

\* Multiples add up.
LEMMA Onwards ==
  \A a, n, m, k \in Nat : a + n * k + m * k = a + (n + m) * k
  OBVIOUS

\* So does what has been looked at once.
LEMMA LookKeepsIInv ==
  ASSUME LimiterIInv, Refill, UNCHANGED clock, tokens' \in 0..Capacity,
         bucket' \in [tokens : Int, since : Nat, steady : BOOLEAN], bucket'.steady = bucket.steady,
         bucket.steady => bucket'.since = bucket.since /\ bucket'.tokens = tokens'
  PROVE  LimiterIInv'
<1>1. Interval \in Nat \ {0}
  BY LimiterAssumption
<1>2. lastRefill' \in Int
  <2>1. Elapsed \in Int
    BY DEF LimiterIInv, Elapsed
  <2>2. CASE Elapsed >= Interval
    <3>1. Intervals \in Nat
      BY <1>1, <2>1, <2>2, Divided DEF Intervals
    <3>2. Intervals * Interval \in Nat
      BY <1>1, <3>1, ProductIsNat
    <3> QED BY <2>2, <3>2 DEF Refill, LimiterIInv
  <2>3. CASE ~(Elapsed >= Interval)
    BY <2>3 DEF Refill, LimiterIInv
  <2> QED BY <2>2, <2>3
<1>3. CASE bucket.steady
  <2>1. /\ Elapsed \in Nat /\ clock \in Nat /\ lastRefill \in Nat /\ bucket.since \in Nat
        /\ lastRefill >= bucket.since
    BY <1>3 DEF LimiterIInv, InStep, Elapsed
  <2>2. /\ lastRefill' >= lastRefill /\ clock' >= lastRefill' /\ Refilled' = tokens'
        /\ \E n \in Nat : lastRefill' = lastRefill + n * Interval
    BY <2>1, LookedAt
  <2>3. PICK n \in Nat, m \in Nat : lastRefill = bucket.since + n * Interval /\ lastRefill' = lastRefill + m * Interval
    BY <1>3, <2>2 DEF LimiterIInv, InStep
  <2>4. lastRefill' = bucket.since + (n + m) * Interval
    BY <1>1, <2>1, <2>3, Onwards
  <2>5. n + m \in Nat
    OBVIOUS
  <2>6. InStep'
    BY <1>2, <1>3, <2>1, <2>2, <2>4, <2>5 DEF InStep
  <2> QED BY <1>2, <2>6 DEF LimiterIInv
<1> QED BY <1>2, <1>3 DEF LimiterIInv

\* The clock goes on by one: an interval ends for the one when it ends for the other.
LEMMA TimeGoesOn ==
  ASSUME LimiterIInv, bucket.steady, UNCHANGED <<tokens, lastRefill>>, clock' = clock + 1,
         bucket' = IF (clock' - bucket.since) % Interval = 0
                   THEN [bucket EXCEPT !.tokens = Min({Capacity, @ + RefillRate})]
                   ELSE bucket
  PROVE  InStep' /\ bucket' \in [tokens : Int, since : Nat, steady : BOOLEAN]
<1>1. Capacity \in Nat /\ RefillRate \in Nat /\ Interval \in Nat \ {0}
  BY LimiterAssumption
<1>2. PICK n \in Nat : lastRefill = bucket.since + n * Interval
  BY DEF LimiterIInv, InStep
<1>3. /\ Elapsed \in Nat /\ clock \in Nat /\ lastRefill \in Nat /\ bucket.since \in Nat
      /\ Elapsed' = Elapsed + 1 /\ clock' >= lastRefill /\ lastRefill >= bucket.since
      /\ tokens \in 0..Capacity /\ tokens' = tokens /\ bucket.tokens \in 0..Capacity
      /\ bucket \in [tokens : Int, since : Nat, steady : BOOLEAN]
  BY DEF LimiterIInv, InStep, Elapsed
<1>4. PICK q, r \in Nat : Splits(Elapsed, q, r)
  BY <1>3, Split
<1>5. clock' - bucket.since = n * Interval + (Elapsed + 1)
  <2>1. n * Interval \in Nat
    BY <1>1, ProductIsNat
  <2> QED BY <1>2, <1>3, <2>1 DEF Elapsed
<1>6. /\ Refilled = Found(tokens, Elapsed) /\ Refilled' = Found(tokens, Elapsed + 1)
      /\ bucket.tokens = Found(tokens, Elapsed)
  <2>1. Refilled = Found(tokens, Elapsed) /\ Refilled' = Found(tokens', Elapsed')
    BY RefilledIsFound DEF Refilled, Found, Intervals
  <2> QED BY <1>3, <2>1 DEF LimiterIInv, InStep
<1>7. q \in Nat /\ r \in Nat /\ r < Interval
  BY <1>4 DEF Splits
<1>8. Found(tokens, Elapsed) = Least(Capacity, tokens + q * RefillRate) /\ q * RefillRate \in Nat
  BY <1>3, <1>4, FoundIs
<1>9. CASE r + 1 < Interval
  <2>1. Splits(Elapsed + 1, q, r + 1)
    BY <1>3, <1>4, <1>9, SplitNext
  <2>2. Splits(clock' - bucket.since, n + q, r + 1)
    BY <1>5, <2>1, SplitMore
  <2>3. (clock' - bucket.since) % Interval = r + 1
    BY <2>2, SplitOnce
  <2>4. bucket' = bucket
    BY <1>7, <2>3
  <2>5. Found(tokens, Elapsed + 1) = Found(tokens, Elapsed)
    BY <1>3, <1>8, <2>1, FoundIs
  <2> QED BY <1>2, <1>3, <1>6, <2>4, <2>5 DEF InStep
<1>10. CASE r + 1 >= Interval
  <2>1. Splits(Elapsed + 1, q + 1, 0)
    BY <1>3, <1>4, <1>10, SplitNext
  <2>2. Splits(clock' - bucket.since, n + (q + 1), 0)
    BY <1>5, <2>1, SplitMore
  <2>3. (clock' - bucket.since) % Interval = 0
    BY <2>2, SplitOnce
  <2> DEFINE more == q * RefillRate
  <2>4. Found(tokens, Elapsed + 1) = Least(Capacity, tokens + (more + RefillRate))
    <3>1. Found(tokens, Elapsed + 1) = Least(Capacity, tokens + (q + 1) * RefillRate)
      BY <1>3, <2>1, FoundIs
    <3>2. (q + 1) * RefillRate = more + RefillRate
      BY <1>1, <1>7, OneMore
    <3> QED BY <3>1, <3>2
  <2>5. bucket.tokens = Least(Capacity, tokens + more) /\ more \in Nat
    BY <1>6, <1>8
  <2> HIDE DEF more
  <2>6. bucket' = [bucket EXCEPT !.tokens = Least(Capacity, bucket.tokens + RefillRate)]
    <3>1. Min({Capacity, bucket.tokens + RefillRate}) = Least(Capacity, bucket.tokens + RefillRate)
      BY <1>1, <1>3, MinIsLeast
    <3>2. bucket' = [bucket EXCEPT !.tokens = Min({Capacity, bucket.tokens + RefillRate})]
      BY <2>3
    <3> QED BY <3>1, <3>2
  <2>7. Least(Capacity, bucket.tokens + RefillRate) = Found(tokens, Elapsed + 1)
        /\ Least(Capacity, bucket.tokens + RefillRate) \in 0..Capacity
    BY <1>1, <1>3, <2>4, <2>5 DEF Least
  <2>8. /\ bucket'.tokens = Found(tokens, Elapsed + 1) /\ bucket'.tokens \in 0..Capacity
        /\ bucket'.since = bucket.since
        /\ bucket' \in [tokens : Int, since : Nat, steady : BOOLEAN]
    <3>1. Capacity \in Nat /\ Least(Capacity, bucket.tokens + RefillRate) \in Int
      BY <1>1, <2>7
    <3> QED BY <1>3, <2>6, <2>7, <3>1
  <2> QED BY <1>2, <1>3, <1>6, <2>8 DEF InStep
<1> QED BY <1>1, <1>7, <1>9, <1>10

LEMMA LimiterInitIInv == LimiterInit => LimiterIInv
<1> SUFFICES ASSUME LimiterInit PROVE LimiterIInv
  OBVIOUS
<1>1. /\ Capacity \in Nat /\ MaxClock \in Nat /\ Interval \in Nat \ {0} /\ clock \in Nat
      /\ tokens = Capacity /\ lastRefill = clock
      /\ bucket = [tokens |-> Capacity, since |-> clock, steady |-> TRUE]
  BY LimiterAssumption DEF LimiterInit, Full
<1>2. Refilled = Capacity
  BY <1>1 DEF Refilled, Elapsed
<1>3. lastRefill = clock + 0 * Interval
  BY <1>1
<1> QED BY <1>1, <1>2, <1>3 DEF LimiterIInv, InStep

LEMMA LimiterStepIInv == LimiterIInv /\ [LimiterNext]_limiterVars => LimiterIInv'
<1> SUFFICES ASSUME LimiterIInv, [LimiterNext]_limiterVars PROVE LimiterIInv'
  OBVIOUS
<1>1. /\ Capacity \in Nat /\ Interval \in Nat \ {0} /\ RefillRate \in Nat /\ MaxClock \in Nat
      /\ tokens \in 0..Capacity /\ clock \in Nat /\ lastRefill \in Int
      /\ bucket \in [tokens : Int, since : Nat, steady : BOOLEAN]
  BY LimiterAssumption DEF LimiterIInv
<1>2. bucket.steady => Refilled = bucket.tokens /\ bucket.tokens \in 0..Capacity
  BY DEF LimiterIInv, InStep
<1>3. Refilled \in 0..Capacity
  BY <1>1, RefilledInRange
<1>4. CASE TryAcquire
  <2>1. CASE Refilled > 0 /\ tokens' = Refilled - 1 /\ bucket' = Fewer
    BY <1>1, <1>2, <1>3, <1>4, <2>1, LookKeepsIInv DEF TryAcquire, Fewer
  <2>2. CASE Refilled = 0 /\ tokens' = 0 /\ UNCHANGED bucket
    BY <1>1, <1>2, <1>3, <1>4, <2>2, LookKeepsIInv DEF TryAcquire
  <2> QED BY <1>4, <2>1, <2>2 DEF TryAcquire
<1>5. CASE Tokens
  BY <1>1, <1>2, <1>3, <1>5, LookKeepsIInv DEF Tokens
<1>6. CASE Reset
  <2>1. /\ tokens' = Capacity /\ lastRefill' = clock /\ clock' = clock
        /\ bucket' = [tokens |-> Capacity, since |-> clock, steady |-> TRUE]
    BY <1>6 DEF Reset, Full
  <2>2. Refilled' = Capacity
    BY <1>1, <2>1 DEF Refilled, Elapsed
  <2>3. lastRefill' = clock + 0 * Interval
    BY <1>1, <2>1
  <2> QED BY <1>1, <2>1, <2>2, <2>3 DEF LimiterIInv, InStep
<1>7. CASE Time
  <2>1. CASE clock' \in 0..(clock - 1) /\ bucket' = Lost
    BY <1>1, <1>7, <2>1 DEF Time, Lost, LimiterIInv
  <2>2. CASE clock' = clock + 1 /\ bucket.steady
             /\ bucket' = IF (clock' - bucket.since) % Interval = 0
                          THEN [bucket EXCEPT !.tokens = Min({Capacity, @ + RefillRate})]
                          ELSE bucket
    <3>1. UNCHANGED <<tokens, lastRefill>>
      BY <1>7 DEF Time
    <3>2. InStep' /\ bucket' \in [tokens : Int, since : Nat, steady : BOOLEAN]
      BY <2>2, <3>1, TimeGoesOn
    <3> QED BY <1>1, <2>2, <3>1, <3>2 DEF LimiterIInv
  <2>3. CASE clock' = clock + 1 /\ ~bucket.steady /\ bucket' = bucket
    BY <1>1, <1>7, <2>3 DEF Time, LimiterIInv
  <2> QED BY <1>7, <2>1, <2>2, <2>3 DEF Time
<1>8. CASE UNCHANGED <<tokens, lastRefill, clock, bucket>>
  BY <1>8 DEF LimiterIInv, InStep, Refilled, Elapsed, Intervals
<1> QED BY <1>4, <1>5, <1>6, <1>7, <1>8 DEF LimiterNext, limiterVars

\* Looking only when somebody asks costs no token and gives none, whatever the policy, until
\* the clock is set back.
THEOREM RefilledOnTime == LimiterSpec => []LazyIsEager
<1>1. LimiterIInv => LazyIsEager
  BY DEF LimiterIInv, InStep, LazyIsEager
<1> QED BY <1>1, LimiterInitIInv, LimiterStepIInv, PTL DEF LimiterSpec

-----------------------------------------------------------------------------
(* StableVec.  A handle finds its own element as long as that is there, and *)
(* nothing afterwards.                                                     *)

VecTypeOK ==
  /\ data \in Seq(Nat) /\ meta \in Seq(Nat) /\ Len(meta) = Len(data)
  /\ slots \in Seq(Slot) /\ freeSlots \in Seq(DOMAIN slots)
  /\ handles \in Seq(Handle) /\ removed \subseteq Inserted

\* Data and slots point at each other.
DataHaveSlots ==
  \A i \in 1..Len(data) :
    /\ data[i] \in Held /\ meta[i] \in DOMAIN slots
    /\ slots[meta[i]].dataIndex = i
    /\ handles[data[i]].index = meta[i]

SlotsHaveData ==
  \A s \in DOMAIN slots :
    slots[s].dataIndex > 0 => slots[s].dataIndex \in 1..Len(data) /\ meta[slots[s].dataIndex] = s

\* The handle of what is there is the one its slot would be asked for.
LivingResolve ==
  \A n \in Held :
    /\ Resolves(handles[n])
    /\ data[slots[handles[n].index].dataIndex] = n

\* The slot of what was removed has gone on to a later generation.
RemovedAreStale ==
  \A n \in removed :
    /\ handles[n].index \in DOMAIN slots
    /\ handles[n].generation < slots[handles[n].index].generation

\* A slot is free once, and nothing is in it.
FreeAreEmpty ==
  /\ \A i \in 1..Len(freeSlots) : slots[freeSlots[i]].dataIndex = 0
  /\ \A i, j \in 1..Len(freeSlots) : freeSlots[i] = freeSlots[j] => i = j

StableIInv ==
  VecTypeOK /\ DataHaveSlots /\ SlotsHaveData /\ LivingResolve /\ RemovedAreStale /\ FreeAreEmpty

\* A sequence without its last element, and two sequences joined.
LEMMA FrontOf ==
  ASSUME NEW S, NEW s \in Seq(S), s # <<>>
  PROVE  LET t == SubSeq(s, 1, Len(s) - 1)
         IN  /\ t \in Seq(S) /\ Len(t) = Len(s) - 1 /\ Len(t) \in 0..Len(s)
             /\ \A i \in 1..Len(t) : t[i] = s[i]
<1>1. Len(s) \in Nat /\ Len(s) >= 1
  OBVIOUS
<1> DEFINE t == SubSeq(s, 1, Len(s) - 1)
<1>2. t \in Seq(S)
  BY <1>1
<1>3. Len(t) = Len(s) - 1 /\ Len(t) \in 0..Len(s)
  <2> DEFINE n == Len(s) - 1
  <2>1. n \in Nat
    BY <1>1
  <2>2. t = SubSeq(s, 1, n)
    OBVIOUS
  <2> HIDE DEF n
  <2>3. Len(SubSeq(s, 1, n)) = n
    BY <2>1
  <2> QED BY <1>1, <2>2, <2>3 DEF n
<1>4. \A i \in 1..Len(t) : t[i] = s[i]
  BY <1>1, <1>3
<1> QED BY <1>2, <1>3, <1>4

LEMMA Joined ==
  ASSUME NEW S, NEW s \in Seq(S), NEW t \in Seq(S)
  PROVE  /\ s \o t \in Seq(S) /\ Len(s \o t) = Len(s) + Len(t)
         /\ \A i \in 1..(Len(s) + Len(t)) : (s \o t)[i] = IF i <= Len(s) THEN s[i] ELSE t[i - Len(s)]
<1>1. s \o t \in Seq(S)
  OBVIOUS
<1>2. Len(s \o t) = Len(s) + Len(t)
  OBVIOUS
<1>3. \A i \in 1..(Len(s) + Len(t)) : (s \o t)[i] = IF i <= Len(s) THEN s[i] ELSE t[i - Len(s)]
  OBVIOUS
<1> QED BY <1>1, <1>2, <1>3

LEMMA StableInitIInv == StableInit => StableIInv
BY DEF StableInit, StableIInv, VecTypeOK, DataHaveSlots, SlotsHaveData, LivingResolve, RemovedAreStale,
       FreeAreEmpty, Inserted, Held

\* What the fields of slots and handles are, and that no two elements share a slot.
LEMMA Fields ==
  ASSUME StableIInv
  PROVE  /\ \A s \in DOMAIN slots : slots[s].dataIndex \in Nat /\ slots[s].generation \in Nat
         /\ \A n \in Inserted : handles[n].index \in Nat /\ handles[n].generation \in Nat
         /\ Inserted = 1..Len(handles) /\ Len(handles) \in Nat
         /\ DOMAIN slots = 1..Len(slots) /\ Len(slots) \in Nat
         /\ Len(data) \in Nat /\ Len(freeSlots) \in Nat
         /\ \A i \in 1..Len(freeSlots) : freeSlots[i] \in DOMAIN slots
         /\ \A i, j \in 1..Len(data) : meta[i] = meta[j] => i = j
<1>1. \A s \in DOMAIN slots : slots[s] \in Slot
  BY DEF StableIInv, VecTypeOK
<1>2. \A n \in Inserted : handles[n] \in Handle
  BY DEF StableIInv, VecTypeOK, Inserted
<1>3. \A i, j \in 1..Len(data) : meta[i] = meta[j] => i = j
  BY DEF StableIInv, DataHaveSlots
<1> QED BY <1>1, <1>2, <1>3 DEF Slot, Handle, StableIInv, VecTypeOK, Inserted

\* Resolving is living.
LEMMA ResolvesIsHeld ==
  ASSUME StableIInv, NEW n \in Inserted
  PROVE  Resolves(handles[n]) <=> n \in Held
<1>1. ASSUME n \in Held PROVE Resolves(handles[n])
  BY <1>1 DEF StableIInv, LivingResolve
<1>2. ASSUME n \notin Held PROVE ~Resolves(handles[n])
  <2>1. n \in removed
    BY <1>2 DEF Held
  <2>2. /\ handles[n].index \in DOMAIN slots
        /\ handles[n].generation < slots[handles[n].index].generation
    BY <2>1 DEF StableIInv, RemovedAreStale
  <2> QED BY <2>2, Fields DEF Resolves
<1> QED BY <1>1, <1>2

LEMMA Extended ==
  ASSUME NEW S, NEW q \in Seq(S), NEW x \in S
  PROVE  /\ Append(q, x) \in Seq(S) /\ Len(Append(q, x)) = Len(q) + 1 /\ Append(q, x)[Len(q) + 1] = x
         /\ \A i \in 1..Len(q) : Append(q, x)[i] = q[i]
<1>1. Append(q, x) \in Seq(S) /\ Len(Append(q, x)) = Len(q) + 1
  OBVIOUS
<1>2. Append(q, x)[Len(q) + 1] = x
  OBVIOUS
<1>3. \A i \in 1..Len(q) : Append(q, x)[i] = q[i]
  OBVIOUS
<1> QED BY <1>1, <1>2, <1>3

-----------------------------------------------------------------------------
LEMMA InsertIInv == ASSUME StableIInv, Insert PROVE StableIInv'
<1> DEFINE reuse == freeSlots # <<>>
           index == IF reuse THEN freeSlots[Len(freeSlots)] ELSE Len(slots) + 1
           generation == IF reuse THEN slots[index].generation ELSE 0
           slot == [dataIndex |-> Len(data) + 1, generation |-> generation]
           new == Len(handles) + 1
           top == Len(data) + 1
<1>0. VecTypeOK /\ DataHaveSlots /\ SlotsHaveData /\ LivingResolve /\ RemovedAreStale /\ FreeAreEmpty
  BY DEF StableIInv
<1>1. /\ data' = Append(data, new) /\ meta' = Append(meta, index)
      /\ slots' = IF reuse THEN [slots EXCEPT ![index] = slot] ELSE Append(slots, slot)
      /\ freeSlots' = IF reuse THEN SubSeq(freeSlots, 1, Len(freeSlots) - 1) ELSE freeSlots
      /\ handles' = Append(handles, [index |-> index, generation |-> generation])
      /\ removed' = removed
  BY DEF Insert
<1>2. reuse => Len(freeSlots) \in 1..Len(freeSlots) /\ index \in DOMAIN slots
  BY <1>0, Fields DEF VecTypeOK
<1>3. index \in Nat /\ generation \in Nat /\ (reuse => slots[index].dataIndex = 0) /\ (~reuse => index \notin DOMAIN slots)
  BY <1>0, <1>2, Fields DEF FreeAreEmpty
<1> HIDE DEF index, generation
<1>4. /\ slots' \in Seq(Slot) /\ DOMAIN slots' = DOMAIN slots \cup {index}
      /\ slots'[index] = slot /\ \A s \in DOMAIN slots \ {index} : slots'[s] = slots[s]
  <2>1. slot \in Slot
    BY <1>3, Fields DEF Slot
  <2>2. CASE reuse
    <3>1. slots' = [slots EXCEPT ![index] = slot] /\ slots \in Seq(Slot) /\ index \in DOMAIN slots
      BY <1>0, <1>1, <1>2, <2>2 DEF VecTypeOK
    <3> HIDE DEF slot
    <3>2. slots' \in Seq(Slot)
      BY <2>1, <3>1
    <3>3. DOMAIN slots' = DOMAIN slots /\ slots'[index] = slot /\ \A s \in DOMAIN slots \ {index} : slots'[s] = slots[s]
      BY <3>1
    <3> QED BY <3>1, <3>2, <3>3
  <2>3. CASE ~reuse
    <3>1. index = Len(slots) + 1
      BY <2>3 DEF index
    <3>2. slots' = Append(slots, slot) /\ slots \in Seq(Slot)
      BY <1>0, <1>1, <2>3 DEF VecTypeOK
    <3>3. slots' \in Seq(Slot) /\ DOMAIN slots' = 1..(Len(slots) + 1)
      BY <2>1, <3>2
    <3>4. slots'[Len(slots) + 1] = slot /\ \A s \in 1..Len(slots) : slots'[s] = slots[s]
      BY <2>1, <3>2
    <3>5. 1..(Len(slots) + 1) = (1..Len(slots)) \cup {Len(slots) + 1}
      BY Fields
    <3> QED BY <3>1, <3>3, <3>4, <3>5, Fields
  <2> QED BY <2>2, <2>3
<1>5. /\ Len(data') = top /\ data'[top] = new /\ \A i \in 1..Len(data) : data'[i] = data[i]
      /\ data' \in Seq(Nat)
  <2>1. data \in Seq(Nat) /\ new \in Nat
    BY <1>0, Fields DEF VecTypeOK
  <2> HIDE DEF new
  <2> QED BY <1>1, <2>1, Extended
<1>6. /\ Len(meta') = top /\ meta'[top] = index /\ \A i \in 1..Len(data) : meta'[i] = meta[i]
      /\ meta' \in Seq(Nat)
  <2>1. meta \in Seq(Nat) /\ Len(meta) = Len(data)
    BY <1>0 DEF VecTypeOK
  <2> QED BY <1>1, <1>3, <2>1, Extended
<1>7. /\ handles' \in Seq(Handle) /\ Inserted' = Inserted \cup {new} /\ new \notin Inserted
      /\ handles'[new].index = index /\ handles'[new].generation = generation
      /\ \A n \in Inserted : handles'[n] = handles[n]
  <2>1. [index |-> index, generation |-> generation] \in Handle
    BY <1>3 DEF Handle
  <2> QED BY <1>0, <1>1, <2>1, Fields DEF VecTypeOK, Inserted
<1>8. Held' = Held \cup {new} /\ new \notin removed
  BY <1>0, <1>1, <1>7 DEF Held, VecTypeOK
<1>9. freeSlots' \in Seq(DOMAIN slots') /\ Len(freeSlots') \in 0..Len(freeSlots)
      /\ (\A i \in 1..Len(freeSlots') : freeSlots'[i] = freeSlots[i])
      /\ (reuse => Len(freeSlots') = Len(freeSlots) - 1)
  <2>1. \A i \in 1..Len(freeSlots) : freeSlots[i] \in DOMAIN slots'
    BY <1>4, Fields
  <2>2. CASE reuse
    <3>1. freeSlots' = SubSeq(freeSlots, 1, Len(freeSlots) - 1) /\ freeSlots \in Seq(DOMAIN slots) /\ freeSlots # <<>>
      BY <1>0, <1>1, <2>2 DEF VecTypeOK
    <3>2. freeSlots \in Seq(DOMAIN slots')
      BY <2>1, <3>1
    <3> QED BY <3>1, <3>2, FrontOf
  <2>3. CASE ~reuse
    <3>1. freeSlots' = freeSlots /\ freeSlots \in Seq(DOMAIN slots)
      BY <1>0, <1>1, <2>3 DEF VecTypeOK
    <3>2. freeSlots \in Seq(DOMAIN slots')
      BY <2>1, <3>1
    <3> QED BY <2>3, <3>1, <3>2, Fields
  <2> QED BY <2>2, <2>3
<1>10. VecTypeOK'
  BY <1>0, <1>1, <1>4, <1>5, <1>6, <1>7, <1>9 DEF VecTypeOK
<1>11. \A i \in 1..Len(data) : meta[i] # index
  BY <1>0, <1>3, Fields DEF DataHaveSlots
<1>12. DataHaveSlots'
  <2>1. SUFFICES ASSUME NEW i \in 1..top
                 PROVE  /\ data'[i] \in Held' /\ meta'[i] \in DOMAIN slots'
                        /\ slots'[meta'[i]].dataIndex = i /\ handles'[data'[i]].index = meta'[i]
    BY <1>5 DEF DataHaveSlots
  <2>2. CASE i = top
    BY <1>4, <1>5, <1>6, <1>7, <1>8, <2>2
  <2>3. CASE i # top
    <3>1. i \in 1..Len(data)
      BY <2>3, Fields
    <3>2. /\ data[i] \in Held /\ meta[i] \in DOMAIN slots \ {index} /\ slots[meta[i]].dataIndex = i
          /\ handles[data[i]].index = meta[i] /\ data[i] \in Inserted
      BY <1>0, <1>11, <3>1 DEF DataHaveSlots, Held
    <3> QED BY <1>4, <1>5, <1>6, <1>7, <1>8, <3>1, <3>2
  <2> QED BY <2>2, <2>3
<1>13. SlotsHaveData'
  <2>1. SUFFICES ASSUME NEW s \in DOMAIN slots', slots'[s].dataIndex > 0
                 PROVE  slots'[s].dataIndex \in 1..top /\ meta'[slots'[s].dataIndex] = s
    BY <1>5 DEF SlotsHaveData
  <2>2. CASE s = index
    BY <1>4, <1>6, <2>2, Fields
  <2>3. CASE s # index
    BY <1>0, <1>4, <1>6, <2>1, <2>3, Fields DEF SlotsHaveData
  <2> QED BY <2>2, <2>3
<1>14. LivingResolve'
  <2>1. SUFFICES ASSUME NEW n \in Held'
                 PROVE  /\ handles'[n].index \in DOMAIN slots'
                        /\ slots'[handles'[n].index].generation = handles'[n].generation
                        /\ slots'[handles'[n].index].dataIndex > 0
                        /\ data'[slots'[handles'[n].index].dataIndex] = n
    BY DEF LivingResolve, Resolves
  <2>2. CASE n = new
    BY <1>4, <1>5, <1>7, <2>2, Fields
  <2>3. CASE n # new
    <3>1. n \in Held /\ n \in Inserted /\ handles'[n] = handles[n]
      BY <1>7, <1>8, <2>3 DEF Held
    <3>2. /\ handles[n].index \in DOMAIN slots /\ slots[handles[n].index].generation = handles[n].generation
          /\ slots[handles[n].index].dataIndex > 0 /\ data[slots[handles[n].index].dataIndex] = n
      BY <1>0, <3>1 DEF LivingResolve, Resolves
    <3>3. slots[handles[n].index].dataIndex \in 1..Len(data)
      BY <1>0, <3>2 DEF SlotsHaveData
    <3>4. handles[n].index # index
      BY <1>3, <3>2
    <3> QED BY <1>4, <1>5, <3>1, <3>2, <3>3, <3>4
  <2> QED BY <2>2, <2>3
<1>15. RemovedAreStale'
  <2>1. SUFFICES ASSUME NEW n \in removed
                 PROVE  handles'[n].index \in DOMAIN slots' /\ handles'[n].generation < slots'[handles'[n].index].generation
    BY <1>1 DEF RemovedAreStale
  <2>2. /\ handles'[n] = handles[n] /\ handles[n].index \in DOMAIN slots
        /\ handles[n].generation < slots[handles[n].index].generation
    BY <1>0, <1>7 DEF RemovedAreStale, VecTypeOK
  <2>3. CASE handles[n].index = index
    <3>1. generation = slots[index].generation
      BY <1>3, <2>2, <2>3 DEF generation
    <3> QED BY <1>4, <2>2, <2>3, <3>1
  <2>4. CASE handles[n].index # index
    BY <1>4, <2>2, <2>4
  <2> QED BY <2>3, <2>4
<1>16. FreeAreEmpty'
  <2>1. \A i \in 1..Len(freeSlots') : i \in 1..Len(freeSlots)
    BY <1>9, Fields
  <2>2. ASSUME NEW i \in 1..Len(freeSlots') PROVE slots'[freeSlots'[i]].dataIndex = 0
    <3>1. freeSlots[i] \in DOMAIN slots /\ slots[freeSlots[i]].dataIndex = 0
      BY <1>0, <2>1, Fields DEF FreeAreEmpty
    <3>2. freeSlots[i] # index
      <4>1. CASE reuse
        <5>1. index = freeSlots[Len(freeSlots)] /\ i # Len(freeSlots)
          BY <1>9, <4>1, Fields DEF index
        <5> QED BY <1>0, <1>2, <2>1, <4>1, <5>1 DEF FreeAreEmpty
      <4>2. CASE ~reuse
        BY <1>3, <3>1, <4>2
      <4> QED BY <4>1, <4>2
    <3> QED BY <1>4, <1>9, <3>1, <3>2
  <2>3. \A i, j \in 1..Len(freeSlots') : freeSlots'[i] = freeSlots'[j] => i = j
    BY <1>0, <1>9, <2>1 DEF FreeAreEmpty
  <2> QED BY <2>2, <2>3 DEF FreeAreEmpty
<1> QED BY <1>10, <1>12, <1>13, <1>14, <1>15, <1>16 DEF StableIInv
-----------------------------------------------------------------------------
LEMMA RemoveIInv == ASSUME StableIInv, NEW n \in Inserted, RemoveBy(n) PROVE StableIInv'
<1> DEFINE k == handles[n].index
           at == slots[k].dataIndex
           L == Len(data)
           last == meta[L]
<1>0. VecTypeOK /\ DataHaveSlots /\ SlotsHaveData /\ LivingResolve /\ RemovedAreStale /\ FreeAreEmpty
  BY DEF StableIInv
<1>1. n \in Held /\ k \in DOMAIN slots /\ at > 0 /\ slots[k].generation = handles[n].generation
  BY ResolvesIsHeld DEF RemoveBy, Resolves
<1>2. at \in 1..L /\ L \in Nat /\ L >= 1 /\ meta[at] = k /\ data[at] = n /\ Len(meta) = L
  <2>1. at \in 1..L /\ meta[at] = k
    BY <1>0, <1>1 DEF SlotsHaveData
  <2>2. data[at] = n
    BY <1>0, <1>1 DEF LivingResolve
  <2>3. L \in Nat /\ Len(meta) = L
    BY <1>0, Fields DEF VecTypeOK
  <2> QED BY <2>1, <2>2, <2>3
<1>3. last \in DOMAIN slots /\ slots[last].dataIndex = L /\ data[L] \in Held /\ handles[data[L]].index = last
  BY <1>0, <1>2 DEF DataHaveSlots
<1>4. last = k <=> at = L
  BY <1>2, <1>3
<1>5. /\ Len(data') = L - 1 /\ data' \in Seq(Nat)
      /\ \A i \in 1..(L - 1) : data'[i] = IF i = at THEN data[L] ELSE data[i]
  <2>1. data' = [i \in 1..(L - 1) |-> IF i = at THEN data[L] ELSE data[i]]
    BY DEF RemoveBy, SwapPop
  <2>2. \A i \in 1..L : data[i] \in Nat
    BY <1>0 DEF VecTypeOK
  <2> QED BY <1>2, <2>1, <2>2
<1>6. /\ Len(meta') = L - 1 /\ meta' \in Seq(Nat)
      /\ \A i \in 1..(L - 1) : meta'[i] = IF i = at THEN last ELSE meta[i]
  <2>1. meta' = [i \in 1..(L - 1) |-> IF i = at THEN last ELSE meta[i]]
    BY <1>2 DEF RemoveBy, SwapPop
  <2>2. \A i \in 1..L : meta[i] \in Nat
    <3>1. meta \in Seq(Nat) /\ Len(meta) = L
      BY <1>0 DEF VecTypeOK
    <3> HIDE DEF L
    <3> QED BY <3>1
  <2> QED BY <1>2, <2>1, <2>2
<1>7. /\ DOMAIN slots' = DOMAIN slots
      /\ slots'[k] = [dataIndex |-> 0, generation |-> slots[k].generation + 1]
      /\ last # k => slots'[last] = [dataIndex |-> at, generation |-> slots[last].generation]
      /\ \A s \in DOMAIN slots \ {k, last} : slots'[s] = slots[s]
  BY <1>1, <1>2, <1>3 DEF RemoveBy, Freed
<1>8. slots' \in Seq(Slot)
  <2>1. \A s \in DOMAIN slots : slots[s] \in Slot
    BY <1>0 DEF VecTypeOK
  <2>2. ASSUME NEW s \in DOMAIN slots PROVE slots'[s] \in Slot
    <3>1. CASE s = k
      BY <1>1, <1>7, <3>1, Fields DEF Slot
    <3>2. CASE s # k /\ s = last
      BY <1>1, <1>3, <1>7, <3>2, Fields DEF Slot
    <3>3. CASE s # k /\ s # last
      BY <1>7, <2>1, <3>3
    <3> QED BY <3>1, <3>2, <3>3
  <2>3. slots' = [s \in DOMAIN slots |-> slots'[s]]
    BY DEF RemoveBy
  <2> QED BY <2>2, <2>3, Fields
<1>9. /\ handles' = handles /\ Inserted' = Inserted /\ removed' = removed \cup {n} /\ Held' = Held \ {n}
  BY DEF RemoveBy, Held, Inserted
<1>10. /\ freeSlots' \in Seq(DOMAIN slots) /\ Len(freeSlots') = Len(freeSlots) + 1
       /\ freeSlots'[Len(freeSlots) + 1] = k
       /\ \A i \in 1..Len(freeSlots) : freeSlots'[i] = freeSlots[i]
  BY <1>0, <1>1 DEF RemoveBy, VecTypeOK
<1>11. handles[n].index = k /\ slots[k].dataIndex = at /\ meta[L] = last /\ Len(data) = L
  OBVIOUS
<1> HIDE DEF k, at, last, L
<1> USE <1>11
<1>12. VecTypeOK'
  BY <1>0, <1>5, <1>6, <1>7, <1>8, <1>9, <1>10 DEF VecTypeOK
<1>13. DataHaveSlots'
  <2>1. SUFFICES ASSUME NEW i \in 1..(L - 1)
                 PROVE  /\ data'[i] \in Held' /\ meta'[i] \in DOMAIN slots'
                        /\ slots'[meta'[i]].dataIndex = i /\ handles'[data'[i]].index = meta'[i]
    BY <1>5 DEF DataHaveSlots
  <2>2. CASE i = at
    <3>1. last # k /\ data[L] # n
      BY <1>2, <1>3, <1>4, <2>2
    <3> QED BY <1>3, <1>5, <1>6, <1>7, <1>9, <2>2, <3>1
  <2>3. CASE i # at
    <3>1. i \in 1..L /\ i # L
      BY <1>2
    <3>2. /\ data[i] \in Held /\ meta[i] \in DOMAIN slots /\ slots[meta[i]].dataIndex = i
          /\ handles[data[i]].index = meta[i]
      BY <1>0, <3>1 DEF DataHaveSlots
    <3>3. meta[i] # k /\ meta[i] # last /\ data[i] # n
      BY <1>3, <2>3, <3>1, <3>2
    <3> QED BY <1>5, <1>6, <1>7, <1>9, <2>3, <3>2, <3>3
  <2> QED BY <2>2, <2>3
<1>14. SlotsHaveData'
  <2>1. SUFFICES ASSUME NEW s \in DOMAIN slots, slots'[s].dataIndex > 0
                 PROVE  slots'[s].dataIndex \in 1..(L - 1) /\ meta'[slots'[s].dataIndex] = s
    BY <1>5, <1>7 DEF SlotsHaveData
  <2>2. s # k
    BY <1>7, <2>1
  <2>3. CASE s = last
    <3>1. at # L /\ slots'[s].dataIndex = at
      BY <1>4, <1>7, <2>2, <2>3
    <3> QED BY <1>2, <1>6, <2>3, <3>1
  <2>4. CASE s # last
    <3>1. slots'[s] = slots[s]
      BY <1>7, <2>2, <2>4
    <3>2. slots[s].dataIndex \in 1..L /\ meta[slots[s].dataIndex] = s
      BY <1>0, <2>1, <3>1 DEF SlotsHaveData
    <3>3. slots[s].dataIndex # L /\ slots[s].dataIndex # at
      BY <1>2, <2>2, <2>4, <3>2
    <3> QED BY <1>2, <1>6, <3>1, <3>2, <3>3
  <2> QED BY <2>3, <2>4
<1>15. LivingResolve'
  <2>1. SUFFICES ASSUME NEW m \in Held, m # n
                 PROVE  /\ handles[m].index \in DOMAIN slots
                        /\ slots'[handles[m].index].generation = handles[m].generation
                        /\ slots'[handles[m].index].dataIndex > 0
                        /\ data'[slots'[handles[m].index].dataIndex] = m
    BY <1>7, <1>9 DEF LivingResolve, Resolves
  <2> DEFINE q == handles[m].index
             d == slots[q].dataIndex
  <2>2. q \in DOMAIN slots /\ slots[q].generation = handles[m].generation /\ d > 0 /\ data[d] = m
    BY <1>0, <2>1 DEF LivingResolve, Resolves
  <2>3. d \in 1..L /\ meta[d] = q
    BY <1>0, <2>2 DEF SlotsHaveData
  <2>4. d # at /\ q # k
    BY <1>2, <2>1, <2>2
  <2>5. CASE q = last
    <3>1. d = L /\ at \in 1..(L - 1)
      BY <1>2, <1>3, <2>4, <2>5
    <3> QED BY <1>2, <1>5, <1>7, <2>2, <2>4, <2>5, <3>1
  <2>6. CASE q # last
    <3>1. d # L /\ d \in 1..(L - 1)
      BY <1>2, <2>3, <2>6
    <3> QED BY <1>5, <1>7, <2>2, <2>4, <2>6, <3>1
  <2> QED BY <2>5, <2>6
<1>16. RemovedAreStale'
  <2>1. \A s \in DOMAIN slots : slots'[s].generation >= slots[s].generation
    <3>1. SUFFICES ASSUME NEW s \in DOMAIN slots PROVE slots'[s].generation >= slots[s].generation
      OBVIOUS
    <3>2. slots[s].generation \in Nat
      BY Fields
    <3>3. CASE s = k
      BY <1>7, <3>2, <3>3
    <3>4. CASE s # k /\ s = last
      BY <1>7, <3>2, <3>4
    <3>5. CASE s # k /\ s # last
      BY <1>7, <3>2, <3>5
    <3> QED BY <3>3, <3>4, <3>5
  <2>2. SUFFICES ASSUME NEW m \in removed \cup {n}
                 PROVE  handles[m].index \in DOMAIN slots /\ handles[m].generation < slots'[handles[m].index].generation
    BY <1>7, <1>9 DEF RemovedAreStale
  <2>3. CASE m = n
    BY <1>1, <1>7, <2>3, Fields
  <2>4. CASE m \in removed
    <3>1. m \in Inserted /\ handles[m].index \in DOMAIN slots
          /\ handles[m].generation < slots[handles[m].index].generation
      BY <1>0, <2>4 DEF RemovedAreStale, VecTypeOK
    <3>2. handles[m].generation \in Nat /\ slots[handles[m].index].generation \in Nat
      BY <3>1, Fields
    <3>3. slots'[handles[m].index].generation \in Nat
      <4>1. slots'[handles[m].index] \in Slot
        BY <1>7, <1>8, <3>1
      <4> QED BY <4>1 DEF Slot
    <3> QED BY <2>1, <3>1, <3>2, <3>3
  <2> QED BY <2>3, <2>4
<1>17. FreeAreEmpty'
  <2>1. ASSUME NEW i \in 1..Len(freeSlots)
        PROVE  /\ freeSlots'[i] = freeSlots[i] /\ freeSlots[i] # k
               /\ slots'[freeSlots[i]].dataIndex = 0
    <3>1. freeSlots[i] \in DOMAIN slots /\ slots[freeSlots[i]].dataIndex = 0
      BY <1>0, Fields DEF FreeAreEmpty
    <3>2. freeSlots[i] # k /\ freeSlots[i] # last
      BY <1>1, <1>2, <1>3, <3>1
    <3> QED BY <1>7, <1>10, <3>1, <3>2
  <2>2. \A i \in 1..Len(freeSlots') : i \in 1..Len(freeSlots) \/ i = Len(freeSlots) + 1
    BY <1>10, Fields
  <2>3. slots'[k].dataIndex = 0
    BY <1>7
  <2>4. ASSUME NEW i \in 1..Len(freeSlots') PROVE slots'[freeSlots'[i]].dataIndex = 0
    BY <1>10, <2>1, <2>2, <2>3
  <2>5. \A i, j \in 1..Len(freeSlots) : freeSlots[i] = freeSlots[j] => i = j
    BY <1>0 DEF FreeAreEmpty
  <2>6. ASSUME NEW i \in 1..Len(freeSlots'), NEW j \in 1..Len(freeSlots'), freeSlots'[i] = freeSlots'[j]
        PROVE  i = j
    BY <1>10, <2>1, <2>2, <2>5, <2>6
  <2> QED BY <2>4, <2>6 DEF FreeAreEmpty
<1> QED BY <1>12, <1>13, <1>14, <1>15, <1>16, <1>17 DEF StableIInv

-----------------------------------------------------------------------------
LEMMA ClearIInv == ASSUME StableIInv, ClearAll PROVE StableIInv'
<1>0. VecTypeOK /\ DataHaveSlots /\ SlotsHaveData /\ LivingResolve /\ RemovedAreStale /\ FreeAreEmpty
  BY DEF StableIInv
<1>1. PICK freed \in [1..Len(data) -> Occupied] :
        /\ \A i, j \in 1..Len(data) : i < j => freed[i] < freed[j]
        /\ freeSlots' = freeSlots \o freed
  BY DEF ClearAll
<1>2. /\ slots' = [s \in DOMAIN slots |-> IF s \in Occupied THEN Freed(slots[s]) ELSE slots[s]]
      /\ data' = <<>> /\ meta' = <<>> /\ removed' = Inserted /\ handles' = handles
      /\ Inserted' = Inserted /\ Held' = {}
  BY DEF ClearAll, Inserted, Held
<1>3. Occupied \subseteq DOMAIN slots
  BY DEF Occupied
<1>4. /\ DOMAIN slots' = DOMAIN slots
      /\ \A s \in DOMAIN slots :
           /\ slots'[s].dataIndex = 0 /\ slots'[s].generation \in Nat
           /\ slots'[s].generation >= slots[s].generation
           /\ s \in Occupied => slots'[s].generation > slots[s].generation
  <2>1. SUFFICES ASSUME NEW s \in DOMAIN slots
                 PROVE  /\ slots'[s].dataIndex = 0 /\ slots'[s].generation \in Nat
                        /\ slots'[s].generation >= slots[s].generation
                        /\ s \in Occupied => slots'[s].generation > slots[s].generation
    BY <1>2
  <2>2. slots[s].dataIndex \in Nat /\ slots[s].generation \in Nat
    BY Fields
  <2>3. CASE s \in Occupied
    <3>1. slots'[s] = [dataIndex |-> 0, generation |-> slots[s].generation + 1]
      BY <1>2, <2>3 DEF Freed
    <3> QED BY <2>2, <3>1
  <2>4. CASE s \notin Occupied
    BY <1>2, <2>2, <2>4 DEF Occupied
  <2> QED BY <2>3, <2>4
<1>5. slots' \in Seq(Slot)
  <2>1. \A s \in DOMAIN slots : slots[s] \in Slot
    BY <1>0 DEF VecTypeOK
  <2>2. \A s \in DOMAIN slots : Freed(slots[s]) \in Slot
    BY Fields DEF Freed, Slot
  <2>3. slots' \in [1..Len(slots) -> Slot]
    BY <1>2, <2>1, <2>2, Fields
  <2> QED BY <2>3, Fields
<1>6. freed \in Seq(DOMAIN slots) /\ Len(freed) = Len(data) /\ freeSlots \in Seq(DOMAIN slots)
  <2>1. freed \in [1..Len(data) -> DOMAIN slots]
    BY <1>3
  <2> QED BY <1>0, <2>1, Fields DEF VecTypeOK
<1>7. /\ freeSlots' \in Seq(DOMAIN slots') /\ Len(freeSlots') = Len(freeSlots) + Len(data)
      /\ \A i \in 1..Len(freeSlots') :
           freeSlots'[i] = IF i <= Len(freeSlots) THEN freeSlots[i] ELSE freed[i - Len(freeSlots)]
  <2>1. freeSlots' = freeSlots \o freed
    BY <1>1
  <2>2. /\ freeSlots \o freed \in Seq(DOMAIN slots)
        /\ Len(freeSlots \o freed) = Len(freeSlots) + Len(freed)
        /\ \A i \in 1..(Len(freeSlots) + Len(freed)) :
             (freeSlots \o freed)[i] = IF i <= Len(freeSlots) THEN freeSlots[i] ELSE freed[i - Len(freeSlots)]
    BY <1>6, Joined
  <2> QED BY <1>4, <1>6, <2>1, <2>2
<1>8. VecTypeOK'
  BY <1>0, <1>2, <1>5, <1>7 DEF VecTypeOK
<1>9. DataHaveSlots' /\ SlotsHaveData' /\ LivingResolve'
  BY <1>2, <1>4 DEF DataHaveSlots, SlotsHaveData, LivingResolve
<1>10. RemovedAreStale'
  <2>1. SUFFICES ASSUME NEW m \in Inserted
                 PROVE  handles[m].index \in DOMAIN slots /\ handles[m].generation < slots'[handles[m].index].generation
    BY <1>2, <1>4 DEF RemovedAreStale
  <2>2. CASE m \in Held
    <3>1. handles[m].index \in Occupied /\ slots[handles[m].index].generation = handles[m].generation
      BY <1>0, <2>2 DEF LivingResolve, Resolves, Occupied
    <3> QED BY <1>3, <1>4, <3>1
  <2>3. CASE m \in removed
    <3>1. /\ handles[m].index \in DOMAIN slots
          /\ handles[m].generation < slots[handles[m].index].generation
      BY <1>0, <2>3 DEF RemovedAreStale
    <3>2. handles[m].generation \in Nat /\ slots[handles[m].index].generation \in Nat
      BY <3>1, Fields
    <3> QED BY <1>4, <3>1, <3>2
  <2> QED BY <2>2, <2>3 DEF Held
<1>11. FreeAreEmpty'
  <2>1. \A i \in 1..Len(freeSlots') : freeSlots'[i] \in DOMAIN slots
    BY <1>4, <1>7
  <2>2. \A i, j \in 1..Len(data) : freed[i] = freed[j] => i = j
    <3>1. SUFFICES ASSUME NEW i \in 1..Len(data), NEW j \in 1..Len(data), i # j PROVE freed[i] # freed[j]
      OBVIOUS
    <3>2. freed[i] \in 1..Len(slots) /\ freed[j] \in 1..Len(slots) /\ (i < j \/ j < i)
      <4>1. freed[i] \in DOMAIN slots /\ freed[j] \in DOMAIN slots
        BY <1>3
      <4>2. i < j \/ j < i
        BY <3>1, Fields
      <4> QED BY <4>1, <4>2, Fields
    <3>3. (i < j => freed[i] < freed[j]) /\ (j < i => freed[j] < freed[i])
      BY <1>1
    <3> QED BY <3>2, <3>3, Fields
  <2>3. ASSUME NEW i \in 1..Len(freeSlots), NEW j \in 1..Len(data) PROVE freeSlots[i] # freed[j]
    <3>1. slots[freeSlots[i]].dataIndex = 0
      BY <1>0 DEF FreeAreEmpty
    <3>2. freed[j] \in Occupied
      BY <1>0
    <3>3. slots[freed[j]].dataIndex # 0
      BY <3>2 DEF Occupied
    <3> QED BY <3>1, <3>3
  <2>4. \A i, j \in 1..Len(freeSlots) : freeSlots[i] = freeSlots[j] => i = j
    BY <1>0 DEF FreeAreEmpty
  <2>5. ASSUME NEW i \in 1..Len(freeSlots'), NEW j \in 1..Len(freeSlots'), freeSlots'[i] = freeSlots'[j]
        PROVE  i = j
    <3> DEFINE F == Len(freeSlots)
    <3>1. \A x \in 1..Len(freeSlots') : x <= F => x \in 1..F
      BY Fields
    <3>2. \A x \in 1..Len(freeSlots') : ~(x <= F) => x - F \in 1..Len(data)
      BY <1>7, Fields
    <3>3. CASE i <= F /\ j <= F
      BY <1>7, <2>4, <2>5, <3>1, <3>3
    <3>4. CASE i <= F /\ ~(j <= F)
      BY <1>7, <2>3, <2>5, <3>1, <3>2, <3>4
    <3>5. CASE ~(i <= F) /\ j <= F
      BY <1>7, <2>3, <2>5, <3>1, <3>2, <3>5
    <3>6. CASE ~(i <= F) /\ ~(j <= F)
      <4>1. i - F = j - F
        BY <1>7, <2>2, <2>5, <3>2, <3>6
      <4> QED BY <4>1, Fields
    <3> QED BY <3>3, <3>4, <3>5, <3>6
  <2> QED BY <1>4, <2>1, <2>5 DEF FreeAreEmpty
<1> QED BY <1>8, <1>9, <1>10, <1>11 DEF StableIInv

-----------------------------------------------------------------------------
LEMMA StableStepIInv == StableIInv /\ [StableNext]_stableVars => StableIInv'
<1> SUFFICES ASSUME StableIInv, [StableNext]_stableVars PROVE StableIInv'
  OBVIOUS
<1>1. CASE Insert
  BY <1>1, InsertIInv
<1>2. CASE ClearAll
  BY <1>2, ClearIInv
<1>3. CASE \E n \in Inserted : RemoveBy(n)
  BY <1>3, RemoveIInv
<1>4. CASE BeginWalk \/ Visit \/ EndWalk \/ UNCHANGED stableVars
  <2>1. UNCHANGED vecVars
    BY <1>4 DEF BeginWalk, Visit, EndWalk, stableVars
  <2>2. data' = data /\ meta' = meta /\ slots' = slots /\ freeSlots' = freeSlots /\ handles' = handles /\ removed' = removed
    BY <2>1 DEF vecVars
  <2> QED BY <2>2 DEF StableIInv, VecTypeOK, DataHaveSlots, SlotsHaveData, LivingResolve, RemovedAreStale,
                      FreeAreEmpty, Inserted, Held, Resolves
<1> QED BY <1>1, <1>2, <1>3, <1>4 DEF StableNext

LEMMA IInvIsTrue == StableIInv => HandlesFind
<1> SUFFICES ASSUME StableIInv, NEW n \in Inserted
             PROVE  /\ Resolves(handles[n]) <=> n \in Held
                    /\ GetAt(handles[n]) = IF n \in Held /\ n \notin Nothing THEN <<n>> ELSE <<>>
  BY DEF HandlesFind
<1>1. Resolves(handles[n]) <=> n \in Held
  BY ResolvesIsHeld
<1>2. n \in Held => data[slots[handles[n].index].dataIndex] = n
  BY DEF StableIInv, LivingResolve
<1> QED BY <1>1, <1>2 DEF GetAt

\* get(), has() and remove() of StableVec: a handle finds its own element while that is
\* there, and nothing once it was removed or cleared, whoever has its slot now.
THEOREM HandlesFindTheirOwn == StableSpec => []HandlesFind
<1>1. StableInit => StableIInv
  BY StableInitIInv
<1>2. StableIInv /\ [StableNext]_stableVars => StableIInv'
  BY StableStepIInv
<1>3. StableIInv => HandlesFind
  BY IInvIsTrue
<1> QED BY <1>1, <1>2, <1>3, PTL DEF StableSpec


\* A loop that is under way has seen nothing of what is ahead, and all that is behind it
\* unless something was removed meanwhile.
WalkTypeOK ==
  walk \in [at : Nat, seen : SUBSET Inserted, again : BOOLEAN, meanwhile : BOOLEAN, missed : SUBSET Inserted]
AheadIsNew ==
  walk.at > 0 => \A i \in 1..Len(data) : i >= walk.at => data[i] \notin walk.seen
BehindIsSeen ==
  walk.at > 0 /\ ~walk.meanwhile => walk.at <= Len(data) + 1 /\ \A i \in 1..Len(data) : i < walk.at => data[i] \in walk.seen
WalkIInv == WalkTypeOK /\ AheadIsNew /\ BehindIsSeen /\ WalkMeetsAll

\* An element is in one place, and whoever lives is in some.
LEMMA OneIndex ==
  ASSUME StableIInv
  PROVE  /\ Len(data) \in Nat /\ data \in Seq(Nat) /\ \A i \in 1..Len(data) : data[i] \in Held
         /\ \A i, j \in 1..Len(data) : data[i] = data[j] => i = j
         /\ \A n \in Held : \E i \in 1..Len(data) : data[i] = n
<1>1. Len(data) \in Nat /\ data \in Seq(Nat)
  BY DEF StableIInv, VecTypeOK
<1>2. ASSUME NEW i \in 1..Len(data), NEW j \in 1..Len(data), data[i] = data[j] PROVE i = j
  <2>1. meta[i] = meta[j]
    BY <1>2 DEF StableIInv, DataHaveSlots
  <2> QED BY <2>1 DEF StableIInv, DataHaveSlots
<1>3. \A i \in 1..Len(data) : data[i] \in Held
  BY DEF StableIInv, DataHaveSlots
<1>4. ASSUME NEW n \in Held PROVE \E i \in 1..Len(data) : data[i] = n
  <2>1. PICK s \in DOMAIN slots : s = handles[n].index /\ slots[s].dataIndex > 0
    BY DEF StableIInv, LivingResolve, Resolves
  <2>2. slots[s].dataIndex \in 1..Len(data)
    BY <2>1 DEF StableIInv, SlotsHaveData
  <2>3. data[slots[s].dataIndex] = n
    BY <2>1 DEF StableIInv, LivingResolve
  <2> QED BY <2>2, <2>3
<1> QED BY <1>1, <1>2, <1>3, <1>4

LEMMA WalkInitIInv == StableInit => WalkIInv
  BY DEF StableInit, NoWalk, WalkIInv, WalkTypeOK, AheadIsNew, BehindIsSeen, WalkMeetsAll, Inserted

LEMMA WalkInsertIInv == ASSUME StableIInv, WalkIInv, Insert PROVE WalkIInv'
<1>1. PICK k \in Nat, m \in Nat : k = Len(data) /\ m = Len(handles)
  BY DEF StableIInv, VecTypeOK
<1>2. data' = Append(data, m + 1) /\ walk' = walk /\ data \in Seq(Nat) /\ handles \in Seq(Handle)
  BY <1>1 DEF Insert, StableIInv, VecTypeOK
<1>3. Len(data') = k + 1 /\ data'[k + 1] = m + 1 /\ \A i \in 1..k : data'[i] = data[i]
  BY <1>1, <1>2
<1>4. Inserted = 1..m /\ Inserted \subseteq Inserted'
  <2>1. PICK x : handles' = Append(handles, x)
    BY DEF Insert
  <2>2. PICK old \in Seq(Handle \cup {x}) : old = handles
    <3>1. \A S : Handle \subseteq S => handles \in Seq(S)
      BY <1>2
    <3> QED BY <3>1
  <2>3. Append(old, x) \in Seq(Handle \cup {x}) /\ Len(Append(old, x)) = m + 1
    BY <1>1, <2>2
  <2>4. DOMAIN handles' = 1..(m + 1)
    BY <1>1, <2>1, <2>2, <2>3
  <2> QED BY <1>1, <1>2, <2>4 DEF Inserted
<1>5. walk.seen \subseteq 1..m /\ walk.missed \subseteq 1..m /\ walk.at \in Nat
  BY <1>4 DEF WalkIInv, WalkTypeOK
<1>6. \A i \in 1..(k + 1) : i \in 1..k \/ i = k + 1
  BY <1>1
<1>7. WalkTypeOK'
  BY <1>2, <1>4 DEF WalkIInv, WalkTypeOK
<1>8. AheadIsNew'
  <2>1. m + 1 \notin walk.seen
    BY <1>5
  <2> QED BY <1>1, <1>2, <1>3, <1>6, <2>1 DEF WalkIInv, AheadIsNew
<1>9. BehindIsSeen'
  <2> SUFFICES ASSUME walk.at > 0, ~walk.meanwhile
               PROVE  walk.at <= k + 1 + 1 /\ \A i \in 1..(k + 1) : i < walk.at => data'[i] \in walk.seen
    BY <1>2, <1>3 DEF BehindIsSeen
  <2>1. walk.at <= k + 1 /\ \A i \in 1..k : i < walk.at => data[i] \in walk.seen
    BY <1>1 DEF WalkIInv, BehindIsSeen
  <2> QED BY <1>1, <1>3, <1>5, <1>6, <2>1
<1> QED BY <1>2, <1>7, <1>8, <1>9 DEF WalkIInv, WalkMeetsAll

\* What removes marks the loop, and moves nothing that is ahead of it but back.
LEMMA DisturbedIInv ==
  ASSUME WalkIInv, walk' = Disturbed, Inserted' = Inserted,
         \A i \in 1..Len(data') : \E j \in 1..Len(data) : data'[i] = data[j] /\ i <= j,
         Len(data) \in Nat, Len(data') \in Nat
  PROVE  WalkIInv'
<1>1. /\ walk'.at = walk.at /\ walk'.seen = walk.seen /\ walk'.again = walk.again /\ walk'.missed = walk.missed
      /\ walk'.meanwhile = (walk.meanwhile \/ walk.at > 0) /\ walk'.meanwhile \in BOOLEAN /\ walk.at \in Nat
  BY DEF Disturbed, WalkIInv, WalkTypeOK
<1>2. WalkTypeOK'
  BY <1>1 DEF Disturbed, WalkIInv, WalkTypeOK
<1>3. AheadIsNew'
  <2> SUFFICES ASSUME walk.at > 0, NEW i \in 1..Len(data'), i >= walk.at PROVE data'[i] \notin walk.seen
    BY <1>1 DEF AheadIsNew
  <2>1. PICK j \in 1..Len(data) : data'[i] = data[j] /\ i <= j
    OBVIOUS
  <2>2. j >= walk.at
    BY <1>1, <2>1
  <2> QED BY <2>1, <2>2 DEF WalkIInv, AheadIsNew
<1>4. BehindIsSeen'
  BY <1>1 DEF BehindIsSeen
<1>5. WalkMeetsAll'
  BY <1>1 DEF WalkIInv, WalkMeetsAll
<1> QED BY <1>2, <1>3, <1>4, <1>5 DEF WalkIInv

LEMMA WalkRemoveIInv == ASSUME StableIInv, WalkIInv, NEW n \in Inserted, RemoveBy(n) PROVE WalkIInv'
<1>1. PICK at : at = slots[handles[n].index].dataIndex
  OBVIOUS
<1>2. at \in 1..Len(data)
  <2>1. handles[n].index \in DOMAIN slots /\ slots[handles[n].index].dataIndex > 0
    BY DEF RemoveBy, Resolves
  <2> QED BY <1>1, <2>1 DEF StableIInv, SlotsHaveData
<1>3. PICK k \in Nat : k = Len(data) /\ data \in Seq(Nat)
  BY OneIndex
<1>4. data' = [i \in 1..(k - 1) |-> IF i = at THEN data[k] ELSE data[i]]
  BY <1>1, <1>3 DEF RemoveBy, SwapPop
<1>5. k - 1 \in Nat /\ k \in 1..k
  BY <1>2, <1>3
<1>6. Len(data') = k - 1
  BY <1>4, <1>5
<1>7. ASSUME NEW i \in 1..(k - 1) PROVE \E j \in 1..k : data'[i] = data[j] /\ i <= j
  <2>1. CASE i = at
    BY <1>4, <1>5, <1>7, <2>1
  <2>2. CASE i # at
    <3>1. i \in 1..k /\ data'[i] = data[i]
      BY <1>3, <1>4, <1>7, <2>2
    <3> QED BY <3>1
  <2> QED BY <2>1, <2>2
<1>8. walk' = Disturbed /\ Inserted' = Inserted
  BY DEF RemoveBy, Inserted
<1> QED BY <1>3, <1>5, <1>6, <1>7, <1>8, DisturbedIInv

LEMMA WalkClearIInv == ASSUME StableIInv, WalkIInv, ClearAll PROVE WalkIInv'
<1>1. data' = <<>> /\ walk' = Disturbed /\ Inserted' = Inserted
  BY DEF ClearAll, Inserted
<1>2. Len(data') = 0 /\ Len(data) \in Nat
  BY <1>1, OneIndex
<1> QED BY <1>1, <1>2, DisturbedIInv

LEMMA WalkGoesOn ==
  ASSUME NEW I, NEW more \in SUBSET I, NEW p \in Nat,
         NEW x \in [at : Nat, seen : SUBSET I, again : BOOLEAN, meanwhile : BOOLEAN, missed : SUBSET I],
         NEW y, y = [x EXCEPT !.at = p, !.seen = more, !.again = x.again]
  PROVE  /\ y.at = p /\ y.seen = more /\ y.again = x.again /\ y.meanwhile = x.meanwhile /\ y.missed = x.missed
         /\ y \in [at : Nat, seen : SUBSET I, again : BOOLEAN, meanwhile : BOOLEAN, missed : SUBSET I]
<1>1. y = [at |-> p, seen |-> more, again |-> x.again, meanwhile |-> x.meanwhile, missed |-> x.missed]
  OBVIOUS
<1>2. x.again \in BOOLEAN /\ x.meanwhile \in BOOLEAN /\ x.missed \in SUBSET I
  OBVIOUS
<1> QED BY <1>1, <1>2

LEMMA WalkStepIInv == StableIInv /\ StableIInv' /\ WalkIInv /\ [StableNext]_stableVars => WalkIInv'
<1> SUFFICES ASSUME StableIInv, WalkIInv, [StableNext]_stableVars PROVE WalkIInv'
  OBVIOUS
<1>1. CASE Insert
  BY <1>1, WalkInsertIInv
<1>2. CASE ClearAll
  BY <1>2, WalkClearIInv
<1>3. ASSUME NEW n \in Inserted, RemoveBy(n) PROVE WalkIInv'
  BY <1>3, WalkRemoveIInv
<1>4. PICK k \in Nat : k = Len(data)
  BY OneIndex
<1>5. walk.at \in Nat /\ walk.seen \subseteq Inserted /\ walk.again \in BOOLEAN /\ walk.meanwhile \in BOOLEAN /\ walk.missed \subseteq Inserted
  BY DEF WalkIInv, WalkTypeOK
<1>6. CASE UNCHANGED vecVars
  <2>1. data' = data /\ Inserted' = Inserted
    BY <1>6 DEF vecVars, Inserted
  <2>2. CASE BeginWalk
    <3>1. walk' = [at |-> 1, seen |-> {}, again |-> FALSE, meanwhile |-> FALSE, missed |-> {}]
      BY <2>2 DEF BeginWalk, NoWalk
    <3>2. WalkTypeOK'
      BY <2>1, <3>1 DEF WalkTypeOK
    <3>3. AheadIsNew' /\ BehindIsSeen' /\ WalkMeetsAll'
      BY <1>4, <2>1, <3>1 DEF AheadIsNew, BehindIsSeen, WalkMeetsAll
    <3> QED BY <3>2, <3>3 DEF WalkIInv
  <2>3. CASE Visit
    <3>1. PICK at \in 1..k : at = walk.at
      BY <1>4, <2>3, OneIndex DEF Visit
    <3>2. data[at] \notin walk.seen /\ data[at] \in Inserted
      BY <1>4, <3>1, OneIndex DEF WalkIInv, AheadIsNew, Held
    <3>3. /\ walk'.at = at + 1 /\ walk'.seen = walk.seen \cup {data[at]} /\ walk'.again = walk.again
          /\ walk'.meanwhile = walk.meanwhile /\ walk'.missed = walk.missed
          /\ walk' \in [at : Nat, seen : SUBSET Inserted, again : BOOLEAN, meanwhile : BOOLEAN, missed : SUBSET Inserted]
      <4>1. PICK more \in SUBSET Inserted : more = walk.seen \cup {data[at]}
        BY <1>5, <3>2
      <4>2. (walk.again \/ data[at] \in walk.seen) = walk.again
        BY <1>5, <3>2
      <4>3. walk' = [walk EXCEPT !.at = at + 1, !.seen = more, !.again = walk.again]
        BY <2>3, <3>1, <4>1, <4>2 DEF Visit
      <4>4. at + 1 \in Nat /\ walk \in [at : Nat, seen : SUBSET Inserted, again : BOOLEAN, meanwhile : BOOLEAN, missed : SUBSET Inserted]
        BY <3>1 DEF WalkIInv, WalkTypeOK
      <4>5. /\ walk'.at = at + 1 /\ walk'.seen = more /\ walk'.again = walk.again /\ walk'.meanwhile = walk.meanwhile /\ walk'.missed = walk.missed
            /\ walk' \in [at : Nat, seen : SUBSET Inserted, again : BOOLEAN, meanwhile : BOOLEAN, missed : SUBSET Inserted]
        BY <4>3, <4>4, WalkGoesOn, Zenon
      <4> QED BY <4>1, <4>5
    <3>4. AheadIsNew'
      <4> SUFFICES ASSUME NEW i \in 1..k, i >= at + 1 PROVE data[i] \notin walk.seen \cup {data[at]}
        BY <1>4, <2>1, <3>3 DEF AheadIsNew
      <4>1. data[i] # data[at]
        BY <1>4, <3>1, OneIndex
      <4>2. data[i] \notin walk.seen
        BY <1>4, <3>1 DEF WalkIInv, AheadIsNew
      <4> QED BY <4>1, <4>2
    <3>5. BehindIsSeen'
      <4> SUFFICES ASSUME ~walk.meanwhile PROVE at + 1 <= k + 1 /\ \A i \in 1..k : i < at + 1 => data[i] \in walk.seen \cup {data[at]}
        BY <1>4, <2>1, <3>3 DEF BehindIsSeen
      <4>1. \A i \in 1..k : i < at => data[i] \in walk.seen
        BY <1>4, <3>1 DEF WalkIInv, BehindIsSeen
      <4> QED BY <3>1, <4>1
    <3>6. WalkTypeOK' /\ WalkMeetsAll'
      BY <2>1, <3>3 DEF WalkIInv, WalkTypeOK, WalkMeetsAll
    <3> QED BY <3>4, <3>5, <3>6 DEF WalkIInv
  <2>4. CASE EndWalk
    <3>1. /\ walk'.at = 0 /\ walk'.missed = Held \ walk.seen /\ walk'.again = walk.again /\ walk'.meanwhile = walk.meanwhile
          /\ walk' \in [at : Nat, seen : SUBSET Inserted, again : BOOLEAN, meanwhile : BOOLEAN, missed : SUBSET Inserted]
      BY <1>5, <2>4 DEF EndWalk, WalkIInv, WalkTypeOK, Held
    <3>2. walk.at > k
      BY <1>4, <2>4 DEF EndWalk
    <3>3. ASSUME ~walk.meanwhile PROVE Held \subseteq walk.seen
      <4>1. \A i \in 1..k : data[i] \in walk.seen
        BY <1>4, <1>5, <3>2, <3>3 DEF WalkIInv, BehindIsSeen
      <4> QED BY <1>4, <4>1, OneIndex
    <3>4. WalkTypeOK' /\ AheadIsNew' /\ BehindIsSeen'
      BY <2>1, <3>1 DEF WalkTypeOK, AheadIsNew, BehindIsSeen
    <3>5. WalkMeetsAll'
      BY <3>1, <3>3 DEF WalkIInv, WalkMeetsAll
    <3> QED BY <3>4, <3>5 DEF WalkIInv
  <2>5. CASE walk' = walk
    BY <2>1, <2>5 DEF WalkIInv, WalkTypeOK, AheadIsNew, BehindIsSeen, WalkMeetsAll
  <2> QED BY <1>1, <1>2, <1>3, <2>2, <2>3, <2>4, <2>5 DEF StableNext, stableVars
<1> QED BY <1>1, <1>2, <1>3, <1>6 DEF StableNext, stableVars, BeginWalk, Visit, EndWalk

\* A loop over a vector, whatever its body inserts, removes or clears, sees no element twice
\* and misses none that lives when it ends, unless its body removed something.
THEOREM NoneSeenTwice == StableSpec => []WalkMeetsAll
<1>1. WalkIInv => WalkMeetsAll
  BY DEF WalkIInv
<1> QED BY <1>1, StableInitIInv, StableStepIInv, WalkInitIInv, WalkStepIInv, PTL DEF StableSpec

\* A vector as a whole: what is in it is of its type, a handle finds its own element and
\* nothing else, and a loop meets what stays.
THEOREM VecHolds == StableSpec => []HandlesAreTrue
<1>1. StableIInv => VecTypeOK
  BY DEF StableIInv
<1>2. WalkIInv => WalkTypeOK
  BY DEF WalkIInv
<1>3. VecTypeOK /\ WalkTypeOK => StableTypeOK
  BY DEF VecTypeOK, WalkTypeOK, StableTypeOK, Inserted, Slot, Handle
<1>4. StableTypeOK /\ HandlesFind /\ WalkMeetsAll => HandlesAreTrue
  BY DEF HandlesAreTrue
<1>5. WalkIInv => WalkMeetsAll
  BY DEF WalkIInv
<1> QED BY <1>1, <1>2, <1>3, <1>4, <1>5, IInvIsTrue, StableInitIInv, StableStepIInv, WalkInitIInv, WalkStepIInv, PTL DEF StableSpec

-----------------------------------------------------------------------------
(* The cache.                                                                *)

LEMMA LeastNumber ==
  ASSUME NEW T, T \subseteq Nat, T # {}
  PROVE  \E n \in T : \A m \in T : n <= m
<1> DEFINE W == {0..n : n \in T}
<1>1. W \subseteq FiniteSubsetsOf(Nat)
  <2>1. \A n \in T : 0..n \in SUBSET Nat
    OBVIOUS
  <2>2. ASSUME NEW n \in T PROVE IsFiniteSet(0..n)
    <3>1. 0 \in Int /\ n \in Int
      OBVIOUS
    <3> QED BY <3>1, FS_Interval
  <2> QED BY <2>1, <2>2 DEF FiniteSubsetsOf
<1>2. IsWellFoundedOn(StrictSubsetOrdering(Nat), FiniteSubsetsOf(Nat))
  BY FS_StrictSubsetOrderingWellFounded
<1>3. W # {}
  OBVIOUS
<1>4. \E x \in W : \A y \in W : <<y, x>> \notin StrictSubsetOrdering(Nat)
  <2> HIDE DEF W
  <2> QED BY <1>1, <1>2, <1>3, WFMin
<1>5. PICK n \in T : \A y \in W : <<y, 0..n>> \notin StrictSubsetOrdering(Nat)
  BY <1>4
<1>6. ASSUME NEW m \in T, m < n PROVE FALSE
  <2>1. 0..m \subseteq 0..n /\ n \in 0..n /\ n \notin 0..m
    BY <1>6
  <2>2. 0..m \in SUBSET Nat /\ 0..n \in SUBSET Nat
    OBVIOUS
  <2>3. <<0..m, 0..n>> \in StrictSubsetOrdering(Nat)
    BY <2>1, <2>2 DEF StrictSubsetOrdering
  <2> QED BY <2>3, <1>5
<1> QED BY <1>5, <1>6

\* Filtered(), as an equation.
Filters(f, s, S, n) ==
  IF n = 0 THEN <<>> ELSE IF s[n] \in S THEN Append(f[n - 1], s[n]) ELSE f[n - 1]
FiltersUpTo(n, s, S) == \E f : \A m \in 0..n : f[m] = Filters(f, s, S, m)
IsFilter(f, s, S) == f = [n \in 0..Len(s) |-> Filters(f, s, S, n)]

LEMMA FilterGoesOn ==
  ASSUME NEW R, NEW s \in Seq(R), NEW S, NEW n \in Nat,
         n = 0 \/ FiltersUpTo(n - 1, s, S)
  PROVE  FiltersUpTo(n, s, S)
<1>1. PICK f : n = 0 \/ \A m \in 0..(n - 1) : f[m] = Filters(f, s, S, m)
  BY DEF FiltersUpTo
<1> DEFINE g == [m \in 0..n |-> Filters(f, s, S, m)]
<1>2. ASSUME NEW m \in 0..n PROVE g[m] = Filters(g, s, S, m)
  <2>1. CASE m = 0
    BY <2>1 DEF Filters
  <2>2. CASE m # 0
    <3>1. m - 1 \in 0..(n - 1) /\ m - 1 \in 0..n /\ n # 0
      BY <2>2
    <3>2. g[m - 1] = f[m - 1] /\ g[m] = Filters(f, s, S, m)
      BY <1>1, <3>1
    <3> HIDE DEF g
    <3> QED BY <3>2 DEF Filters
  <2> QED BY <2>1, <2>2
<1> HIDE DEF g
<1> QED BY <1>2 DEF FiltersUpTo

LEMMA FilterIsMade ==
  ASSUME NEW R, NEW s \in Seq(R), NEW S
  PROVE  \E f : IsFilter(f, s, S) /\ Filtered(s, S) = f[Len(s)]
<1> DEFINE T == {n \in Nat : ~FiltersUpTo(n, s, S)}
<1>1. T = {}
  <2> SUFFICES ASSUME T # {} PROVE FALSE
    OBVIOUS
  <2>1. PICK n \in T : \A m \in T : n <= m
    <3>1. T \subseteq Nat
      OBVIOUS
    <3> HIDE DEF T
    <3> QED BY <3>1, LeastNumber
  <2>2. n = 0 \/ (n - 1 \in Nat /\ n - 1 \notin T)
    BY <2>1
  <2>3. FiltersUpTo(n, s, S)
    BY <2>2, FilterGoesOn
  <2> QED BY <2>3
<1>2. Len(s) \in Nat
  OBVIOUS
<1>3. PICK f : \A m \in 0..Len(s) : f[m] = Filters(f, s, S, m)
  BY <1>1, <1>2 DEF FiltersUpTo
<1> DEFINE g == [m \in 0..Len(s) |-> f[m]]
<1>4. ASSUME NEW m \in 0..Len(s) PROVE g[m] = Filters(g, s, S, m)
  <2>1. m = 0 \/ g[m - 1] = f[m - 1]
    BY <1>2
  <2>2. g[m] = Filters(f, s, S, m)
    BY <1>3
  <2> HIDE DEF g
  <2> QED BY <2>1, <2>2 DEF Filters
<1>5. g = [m \in 0..Len(s) |-> Filters(g, s, S, m)]
  BY <1>4
<1>6. \E h : IsFilter(h, s, S)
  BY <1>5 DEF IsFilter
<1> DEFINE kept == CHOOSE h : IsFilter(h, s, S)
<1>7. IsFilter(kept, s, S)
  BY <1>6, Zenon
<1>8. Filtered(s, S) = kept[Len(s)]
  BY Zenon DEF Filtered, IsFilter, Filters
<1> QED BY <1>7, <1>8, Zenon

\* t is what the first n of s have in S, each at its place.
Finds(place, t, s, n, S) ==
  /\ place \in [1..Len(t) -> 1..n]
  /\ \A i \in 1..Len(t) : t[i] = s[place[i]] /\ t[i] \in S
  /\ \A i, j \in 1..Len(t) : i < j => place[i] < place[j]
  /\ \A a \in 1..n : s[a] \in S => \E i \in 1..Len(t) : place[i] = a
IsPart(R, t, s, n, S) ==
  /\ t \in Seq(R) /\ Len(t) <= n /\ ((\E a \in 1..n : s[a] \notin S) => Len(t) < n)
  /\ \E place : Finds(place, t, s, n, S)

LEMMA PartGrows ==
  ASSUME NEW R, NEW s \in Seq(R), NEW S, NEW n \in 1..Len(s), NEW t, IsPart(R, t, s, n - 1, S)
  PROVE  IsPart(R, IF s[n] \in S THEN Append(t, s[n]) ELSE t, s, n, S)
<1>1. t \in Seq(R) /\ Len(t) \in Nat /\ Len(t) <= n - 1 /\ n \in Nat /\ s[n] \in R
      /\ ((\E a \in 1..(n - 1) : s[a] \notin S) => Len(t) < n - 1)
  BY DEF IsPart
<1>2. PICK place : Finds(place, t, s, n - 1, S)
  BY DEF IsPart
<1>3. \A i \in 1..Len(t) : place[i] \in 1..(n - 1) /\ place[i] \in 1..n /\ place[i] < n
  BY <1>1, <1>2 DEF Finds
<1>4. CASE s[n] \notin S
  <2>1. place \in [1..Len(t) -> 1..n]
    BY <1>2, <1>3 DEF Finds
  <2>2. \A a \in 1..n : s[a] \in S => a \in 1..(n - 1)
    BY <1>1, <1>4
  <2>3. Finds(place, t, s, n, S)
    BY <1>2, <2>1, <2>2 DEF Finds
  <2> QED BY <1>1, <1>4, <2>3 DEF IsPart
<1>5. CASE s[n] \in S
  <2>1. PICK u : u = Append(t, s[n])
    OBVIOUS
  <2>2. u \in Seq(R) /\ Len(u) = Len(t) + 1 /\ u[Len(t) + 1] = s[n] /\ \A i \in 1..Len(t) : u[i] = t[i]
    BY <1>1, <2>1
  <2>3. PICK where : where = [i \in 1..Len(u) |-> IF i = Len(t) + 1 THEN n ELSE place[i]]
    OBVIOUS
  <2>4. \A i \in 1..Len(u) : i = Len(t) + 1 \/ i \in 1..Len(t)
    BY <1>1, <2>2
  <2>5. Len(t) + 1 \in 1..Len(u) /\ \A i \in 1..Len(t) : i \in 1..Len(u) /\ i # Len(t) + 1
    BY <1>1, <2>2
  <2>6. where[Len(t) + 1] = n /\ \A i \in 1..Len(t) : where[i] = place[i]
    BY <2>3, <2>5
  <2>7. where \in [1..Len(u) -> 1..n]
    BY <1>1, <1>3, <2>3, <2>4
  <2>8. \A i \in 1..Len(u) : u[i] = s[where[i]] /\ u[i] \in S
    BY <1>2, <1>5, <2>2, <2>4, <2>6 DEF Finds
  <2>9. ASSUME NEW i \in 1..Len(u), NEW j \in 1..Len(u), i < j PROVE where[i] < where[j]
    <3>1. i \in 1..Len(t)
      BY <1>1, <2>2, <2>4, <2>9
    <3>2. CASE j = Len(t) + 1
      BY <1>3, <2>6, <3>1, <3>2
    <3>3. CASE j \in 1..Len(t)
      BY <1>2, <2>6, <2>9, <3>1, <3>3 DEF Finds
    <3> QED BY <2>4, <3>2, <3>3
  <2>10. ASSUME NEW a \in 1..n, s[a] \in S PROVE \E i \in 1..Len(u) : where[i] = a
    <3>1. CASE a = n
      BY <2>5, <2>6, <3>1
    <3>2. CASE a # n
      <4>1. a \in 1..(n - 1)
        BY <1>1, <3>2
      <4>2. PICK i \in 1..Len(t) : place[i] = a
        BY <1>2, <2>10, <4>1 DEF Finds
      <4> QED BY <2>5, <2>6, <4>2
    <3> QED BY <3>1, <3>2
  <2>11. Finds(where, u, s, n, S)
    BY <2>7, <2>8, <2>9, <2>10 DEF Finds
  <2>12. (\E a \in 1..n : s[a] \notin S) => Len(u) < n
    <3>1. \A a \in 1..n : s[a] \notin S => a \in 1..(n - 1)
      BY <1>1, <1>5
    <3> QED BY <1>1, <2>2, <3>1
  <2>13. IsPart(R, u, s, n, S)
    BY <1>1, <2>2, <2>11, <2>12 DEF IsPart
  <2> QED BY <1>5, <2>1, <2>13
<1> QED BY <1>4, <1>5

LEMMA FilteredIsPart ==
  ASSUME NEW R, NEW s \in Seq(R), NEW S
  PROVE  IsPart(R, Filtered(s, S), s, Len(s), S)
<1>1. PICK f : IsFilter(f, s, S) /\ Filtered(s, S) = f[Len(s)]
  BY FilterIsMade
<1>2. Len(s) \in Nat /\ \A n \in 0..Len(s) : f[n] = Filters(f, s, S, n)
  BY <1>1 DEF IsFilter
<1> DEFINE T == {n \in Nat : n <= Len(s) /\ ~IsPart(R, f[n], s, n, S)}
<1>3. T = {}
  <2> SUFFICES ASSUME T # {} PROVE FALSE
    OBVIOUS
  <2>1. PICK n \in T : \A m \in T : n <= m
    <3>1. T \subseteq Nat
      OBVIOUS
    <3> HIDE DEF T
    <3> QED BY <3>1, LeastNumber
  <2>2. n \in Nat /\ n \in 0..Len(s) /\ ~IsPart(R, f[n], s, n, S)
    BY <1>2
  <2>3. CASE n = 0
    <3>1. f[n] = <<>>
      BY <1>2, <2>2, <2>3 DEF Filters
    <3>2. Finds(<<>>, <<>>, s, 0, S)
      BY DEF Finds
    <3>3. IsPart(R, <<>>, s, 0, S)
      BY <3>2 DEF IsPart
    <3> QED BY <2>2, <2>3, <3>1, <3>3
  <2>4. CASE n # 0
    <3>1. n - 1 \in Nat /\ n - 1 \notin T /\ n - 1 <= Len(s) /\ n \in 1..Len(s)
      BY <1>2, <2>1, <2>2, <2>4
    <3>2. IsPart(R, f[n - 1], s, n - 1, S)
      BY <3>1
    <3>3. f[n] = IF s[n] \in S THEN Append(f[n - 1], s[n]) ELSE f[n - 1]
      BY <1>2, <2>2, <2>4 DEF Filters
    <3> QED BY <2>2, <3>1, <3>2, <3>3, PartGrows
  <2> QED BY <2>3, <2>4
<1>4. IsPart(R, f[Len(s)], s, Len(s), S)
  BY <1>2, <1>3
<1> QED BY <1>1, <1>4

\* What the rest needs to know of it.
Before(s, x, y) == \E a, b \in DOMAIN s : a < b /\ s[a] = x /\ s[b] = y

LEMMA FilterKeeps ==
  ASSUME NEW R, NEW s \in Seq(R), NEW S
  PROVE  /\ Filtered(s, S) \in Seq(R) /\ Len(Filtered(s, S)) <= Len(s)
         /\ Range(Filtered(s, S)) = Range(s) \cap S
         /\ (~ Range(s) \subseteq S) => Len(Filtered(s, S)) < Len(s)
         /\ \A i, j \in DOMAIN Filtered(s, S) : i < j => Before(s, Filtered(s, S)[i], Filtered(s, S)[j])
         /\ \A x, y \in S : Before(s, x, y) => Before(Filtered(s, S), x, y)
<1>1. PICK t : t = Filtered(s, S)
  OBVIOUS
<1>2. /\ t \in Seq(R) /\ Len(t) \in Nat /\ Len(s) \in Nat /\ DOMAIN t = 1..Len(t) /\ DOMAIN s = 1..Len(s)
      /\ Len(t) <= Len(s) /\ ((\E a \in 1..Len(s) : s[a] \notin S) => Len(t) < Len(s))
  BY <1>1, FilteredIsPart DEF IsPart
<1>3. PICK place : Finds(place, t, s, Len(s), S)
  BY <1>1, FilteredIsPart DEF IsPart
<1>4. \A i \in 1..Len(t) : place[i] \in 1..Len(s) /\ t[i] = s[place[i]] /\ t[i] \in S
  BY <1>3 DEF Finds
<1>5. \A a \in 1..Len(s) : s[a] \in S => \E i \in 1..Len(t) : place[i] = a
  BY <1>3 DEF Finds
<1>6. Range(t) = Range(s) \cap S
  <2>1. Range(t) \subseteq Range(s) \cap S
    BY <1>2, <1>4 DEF Range
  <2>2. ASSUME NEW x \in Range(s), x \in S PROVE x \in Range(t)
    <3>1. PICK a \in 1..Len(s) : s[a] = x
      BY <1>2 DEF Range
    <3>2. PICK i \in 1..Len(t) : place[i] = a
      BY <1>5, <2>2, <3>1
    <3> QED BY <1>2, <1>4, <3>1, <3>2 DEF Range
  <2> QED BY <2>1, <2>2
<1>7. (~ Range(s) \subseteq S) => Len(t) < Len(s)
  BY <1>2 DEF Range
<1>8. ASSUME NEW i \in DOMAIN t, NEW j \in DOMAIN t, i < j PROVE Before(s, t[i], t[j])
  <2>1. place[i] < place[j]
    BY <1>2, <1>3, <1>8 DEF Finds
  <2> QED BY <1>2, <1>4, <2>1 DEF Before
<1>9. ASSUME NEW x \in S, NEW y \in S, Before(s, x, y) PROVE Before(t, x, y)
  <2>1. PICK a \in 1..Len(s), b \in 1..Len(s) : a < b /\ s[a] = x /\ s[b] = y
    BY <1>2, <1>9 DEF Before
  <2>2. PICK i \in 1..Len(t) : place[i] = a
    BY <1>5, <2>1
  <2>3. PICK j \in 1..Len(t) : place[j] = b
    BY <1>5, <2>1
  <2>4. i < j
    <3>1. j < i => place[j] < place[i]
      BY <1>3 DEF Finds
    <3>2. a \in Int /\ b \in Int /\ i \in Int /\ j \in Int
      BY <1>2
    <3> QED BY <2>1, <2>2, <2>3, <3>1, <3>2
  <2> QED BY <1>2, <1>4, <2>1, <2>2, <2>3, <2>4 DEF Before
<1> QED BY <1>1, <1>2, <1>6, <1>7, <1>8, <1>9

-----------------------------------------------------------------------------
\* The Map has the order of the uses: whoever is behind has been used later.
InOrder(map, used) ==
  /\ \A i, j \in DOMAIN map : i < j => Before(used, map[i][1], map[j][1])
  /\ \A i \in DOMAIN map : map[i][1] \in Range(used)
Unrepeated(used) == \A i, j \in DOMAIN used : used[i] = used[j] => i = j
Entries == CacheKeys \X Int

CacheIInv ==
  /\ store \in Seq(Entries) /\ Len(store) <= MaxSize
  /\ uses \in Seq(CacheKeys) /\ Unrepeated(uses)
  /\ now \in Nat
  /\ computing \in [Lookups -> {<<>>} \cup {<<k>> : k \in CacheKeys}]
  /\ InOrder(store, uses)

LEMMA OnceOrdered ==
  ASSUME NEW used \in Seq(CacheKeys), Unrepeated(used), NEW x, NEW y, Before(used, x, y)
  PROVE  x # y /\ ~Before(used, y, x)
  BY DEF Unrepeated, Before

LEMMA FilteredInOrder ==
  ASSUME NEW map \in Seq(Entries), NEW used, InOrder(map, used), NEW S
  PROVE  InOrder(Filtered(map, S), used)
<1>1. PICK t : t = Filtered(map, S)
  OBVIOUS
<1>2. /\ \A i, j \in DOMAIN t : i < j => Before(map, t[i], t[j])
      /\ Range(t) \subseteq Range(map)
  BY <1>1, FilterKeeps
<1>3. ASSUME NEW i \in DOMAIN t, NEW j \in DOMAIN t, i < j PROVE Before(used, t[i][1], t[j][1])
  <2>1. PICK a \in DOMAIN map, b \in DOMAIN map : a < b /\ map[a] = t[i] /\ map[b] = t[j]
    BY <1>2, <1>3 DEF Before
  <2> QED BY <2>1 DEF InOrder
<1>4. \A i \in DOMAIN t : t[i][1] \in Range(used)
  BY <1>2 DEF InOrder, Range
<1> QED BY <1>1, <1>3, <1>4 DEF InOrder

LEMMA SuffixInOrder ==
  ASSUME NEW map \in Seq(Entries), NEW used, InOrder(map, used), NEW m \in 1..(Len(map) + 1)
  PROVE  LET t == SubSeq(map, m, Len(map))
         IN  /\ t \in Seq(Entries) /\ InOrder(t, used) /\ Len(t) = Len(map) - m + 1
             /\ \A a \in DOMAIN map : a < m \/ map[a] \in Range(t)
             /\ \A i \in DOMAIN t : i + m - 1 \in DOMAIN map /\ t[i] = map[i + m - 1]
<1>1. PICK t : t = SubSeq(map, m, Len(map))
  OBVIOUS
<1>2. /\ t \in Seq(Entries) /\ Len(map) \in Nat /\ DOMAIN map = 1..Len(map) /\ m \in Nat /\ DOMAIN t = 1..Len(t)
      /\ Len(t) = Len(map) - m + 1
      /\ \A i \in 1..Len(t) : t[i] = map[i + m - 1]
  BY <1>1
<1>3. \A i \in DOMAIN t : i + m - 1 \in DOMAIN map /\ t[i] = map[i + m - 1]
  BY <1>2
<1>4. ASSUME NEW a \in DOMAIN map, a >= m PROVE map[a] \in Range(t)
  <2>0. a \in 1..Len(map)
    BY <1>2
  <2>1. PICK b \in Int : b = a - m + 1
    BY <1>2, <2>0
  <2>2. b \in 1..Len(t) /\ b + m - 1 = a
    <3>1. a \in Int /\ m \in Int /\ Len(t) \in Int /\ Len(map) \in Int /\ a >= m /\ a <= Len(map) /\ Len(t) = Len(map) - m + 1
      BY <1>2, <1>4, <2>0
    <3>2. b >= 1 /\ b <= Len(t) /\ b + m - 1 = a
      BY <2>1, <3>1
    <3> QED BY <2>1, <3>1, <3>2
  <2>3. t[b] = map[a] /\ b \in DOMAIN t
    BY <1>2, <2>2
  <2> QED BY <2>3 DEF Range
<1>5. InOrder(t, used)
  <2>1. ASSUME NEW i \in DOMAIN t, NEW j \in DOMAIN t, i < j PROVE Before(used, t[i][1], t[j][1])
    <3>1. i + m - 1 < j + m - 1
      BY <1>2, <2>1
    <3> QED BY <1>3, <3>1 DEF InOrder
  <2> QED BY <1>3, <2>1 DEF InOrder
<1>6. \A a \in DOMAIN map : a < m \/ a >= m
  BY <1>2
<1> QED BY <1>1, <1>2, <1>3, <1>4, <1>5, <1>6

\* Who is used, or inserted, is the last of both.
LEMMA UsedInOrder ==
  ASSUME NEW map \in Seq(Entries), NEW used \in Seq(CacheKeys), Unrepeated(used), InOrder(map, used),
         NEW k \in CacheKeys, NEW e \in Entries, e[1] = k, \A i \in DOMAIN map : map[i][1] # k
  PROVE  LET newer == Append(Filtered(used, Range(used) \ {k}), k)
         IN  newer \in Seq(CacheKeys) /\ Unrepeated(newer) /\ InOrder(Append(map, e), newer)
<1> DEFINE rest == Filtered(used, Range(used) \ {k})
<1>1. /\ rest \in Seq(CacheKeys) /\ Range(rest) = Range(used) \ {k}
      /\ \A i, j \in DOMAIN rest : i < j => Before(used, rest[i], rest[j])
      /\ \A x, y \in Range(used) \ {k} : Before(used, x, y) => Before(rest, x, y)
  BY FilterKeeps
<1> HIDE DEF rest
<1>2. PICK newer : newer = Append(rest, k)
  OBVIOUS
<1>3. /\ newer \in Seq(CacheKeys) /\ Len(rest) \in Nat /\ Len(newer) = Len(rest) + 1
      /\ DOMAIN rest = 1..Len(rest) /\ DOMAIN newer = 1..(Len(rest) + 1)
      /\ newer[Len(rest) + 1] = k /\ \A i \in 1..Len(rest) : newer[i] = rest[i]
  BY <1>1, <1>2
<1>4. \A i \in DOMAIN rest : i \in DOMAIN newer /\ newer[i] = rest[i] /\ rest[i] # k /\ i < Len(rest) + 1
  <2>1. \A i \in DOMAIN rest : rest[i] # k
    BY <1>1 DEF Range
  <2> QED BY <1>3, <2>1
<1>5. \A i \in DOMAIN newer : i \in DOMAIN rest \/ i = Len(rest) + 1
  BY <1>3
<1>6. ASSUME NEW i \in DOMAIN newer, NEW j \in DOMAIN newer, newer[i] = newer[j] PROVE i = j
  <2>1. \A a, b \in DOMAIN rest : a < b => rest[a] # rest[b]
    BY <1>1, OnceOrdered
  <2>2. i \in DOMAIN rest /\ j \in DOMAIN rest => i = j
    BY <1>3, <1>4, <1>6, <2>1
  <2> QED BY <1>3, <1>4, <1>5, <1>6, <2>2
<1>7. \A x, y : Before(rest, x, y) => Before(newer, x, y)
  BY <1>4 DEF Before
<1>8. \A x \in Range(rest) : Before(newer, x, k)
  BY <1>3, <1>4 DEF Before, Range
<1>9. PICK longer : longer = Append(map, e)
  OBVIOUS
<1>10. /\ Len(map) \in Nat /\ DOMAIN map = 1..Len(map) /\ DOMAIN longer = 1..(Len(map) + 1)
       /\ longer[Len(map) + 1] = e /\ \A i \in 1..Len(map) : longer[i] = map[i]
  BY <1>9
<1>11. \A i \in DOMAIN longer : (i \in DOMAIN map /\ longer[i] = map[i]) \/ (i = Len(map) + 1 /\ longer[i][1] = k)
  BY <1>10
<1>12. \A i \in DOMAIN map : map[i][1] \in Range(used) \ {k}
  BY DEF InOrder
<1>13. ASSUME NEW i \in DOMAIN longer, NEW j \in DOMAIN longer, i < j PROVE Before(newer, longer[i][1], longer[j][1])
  <2>1. i \in DOMAIN map /\ longer[i] = map[i]
    BY <1>10, <1>11, <1>13
  <2>2. CASE j \in DOMAIN map /\ longer[j] = map[j]
    <3>1. Before(used, map[i][1], map[j][1])
      BY <1>13, <2>1, <2>2 DEF InOrder
    <3> QED BY <1>1, <1>7, <1>12, <2>1, <2>2, <3>1
  <2>3. CASE longer[j][1] = k
    BY <1>1, <1>8, <1>12, <2>1, <2>3
  <2> QED BY <1>11, <2>2, <2>3
<1>14. ASSUME NEW i \in DOMAIN longer PROVE longer[i][1] \in Range(newer)
  <2>1. k \in Range(newer)
    BY <1>3 DEF Range
  <2>2. Range(rest) \subseteq Range(newer)
    BY <1>4 DEF Range
  <2> QED BY <1>1, <1>11, <1>12, <2>1, <2>2
<1>15. InOrder(longer, newer)
  BY <1>13, <1>14 DEF InOrder
<1>16. Unrepeated(newer)
  BY <1>6 DEF Unrepeated
<1> QED BY <1>2, <1>3, <1>9, <1>15, <1>16 DEF rest

\* evict() drops what has expired, and of the others those that were used first.
LEMMA EvictedIs ==
  ASSUME NEW map \in Seq(Entries), NEW used \in Seq(CacheKeys), InOrder(map, used), MaxSize \in Nat
  PROVE  /\ Evicted(map) \in Seq(Entries) /\ Len(Evicted(map)) <= MaxSize /\ InOrder(Evicted(map), used)
         /\ \A e \in Range(Evicted(map)) : ~IsExpired(e)
         /\ \A e \in Range(map) : ~IsExpired(e) =>
              e \in Range(Evicted(map)) \/ \A d \in Range(Evicted(map)) : Before(used, e[1], d[1])
<1> DEFINE alive == {e \in Range(map) : ~IsExpired(e)}
<1>1. PICK fresh : fresh = Filtered(map, alive)
  OBVIOUS
<1>2. fresh \in Seq(Entries) /\ Range(fresh) = alive /\ InOrder(fresh, used) /\ Len(fresh) \in Nat /\ DOMAIN fresh = 1..Len(fresh)
  BY <1>1, FilterKeeps, FilteredInOrder
<1>3. \A e \in Range(fresh) : ~IsExpired(e)
  BY <1>2
<1>4. CASE Len(fresh) <= MaxSize
  <2>1. Evicted(map) = fresh
    BY <1>1, <1>2, <1>4 DEF Evicted
  <2>2. \A e \in Range(map) : ~IsExpired(e) => e \in Range(fresh)
    BY <1>2
  <2> QED BY <1>2, <1>3, <1>4, <2>1, <2>2
<1>5. CASE Len(fresh) > MaxSize
  <2>1. PICK m : m = Len(fresh) - MaxSize + 1
    OBVIOUS
  <2>2. m \in 1..(Len(fresh) + 1)
    BY <1>2, <1>5, <2>1
  <2>3. PICK t : t = SubSeq(fresh, m, Len(fresh))
    OBVIOUS
  <2>4. Evicted(map) = t
    BY <1>1, <1>2, <1>5, <2>1, <2>3 DEF Evicted
  <2>5. /\ t \in Seq(Entries) /\ InOrder(t, used) /\ Len(t) = Len(fresh) - m + 1
        /\ \A a \in DOMAIN fresh : a < m \/ fresh[a] \in Range(t)
        /\ \A i \in DOMAIN t : i + m - 1 \in DOMAIN fresh /\ t[i] = fresh[i + m - 1]
    BY <1>2, <2>2, <2>3, SuffixInOrder
  <2>6. Range(t) \subseteq Range(fresh)
    BY <2>5 DEF Range
  <2>7. ASSUME NEW e \in Range(map), ~IsExpired(e), e \notin Range(t), NEW d \in Range(t)
        PROVE  Before(used, e[1], d[1])
    <3>1. e \in Range(fresh)
      BY <1>2, <2>7
    <3>2. PICK a \in DOMAIN fresh : fresh[a] = e
      BY <3>1 DEF Range
    <3>3. PICK i \in DOMAIN t : t[i] = d
      BY <2>7 DEF Range
    <3>4. a < m
      BY <2>5, <2>7, <3>2
    <3>5. i + m - 1 \in DOMAIN fresh /\ fresh[i + m - 1] = d /\ i \in Nat /\ i >= 1 /\ m \in Int /\ a \in Int
      BY <1>2, <2>2, <2>5, <3>3
    <3>6. a < i + m - 1
      BY <3>4, <3>5
    <3> QED BY <1>2, <3>2, <3>5, <3>6 DEF InOrder
  <2> QED BY <1>2, <1>3, <2>1, <2>4, <2>5, <2>6, <2>7
<1> QED BY <1>2, <1>4, <1>5

-----------------------------------------------------------------------------
CacheTypes == MaxSize \in Nat /\ TTLs \subseteq Nat

\* A step that only drops.
LEMMA InvDrops ==
  ASSUME CacheIInv, NEW S, store' = Filtered(store, S), UNCHANGED <<now, uses>>,
         computing' \in [Lookups -> {<<>>} \cup {<<k>> : k \in CacheKeys}], MaxSize \in Nat
  PROVE  CacheIInv'
<1>1. /\ store' \in Seq(Entries) /\ Len(store') <= Len(store)
      /\ Len(store) \in Nat /\ Len(store) <= MaxSize /\ Len(store') \in Nat
  BY FilterKeeps DEF CacheIInv
<1>2. Len(store') <= MaxSize
  BY <1>1
<1>3. InOrder(store', uses)
  BY FilteredInOrder DEF CacheIInv
<1> QED BY <1>1, <1>2, <1>3 DEF CacheIInv, InOrder, Unrepeated, Before, Entries

LEMMA InvTouch ==
  ASSUME CacheIInv, NEW k \in CacheKeys, Live(k), Touch(k), UNCHANGED now,
         computing' \in [Lookups -> {<<>>} \cup {<<q>> : q \in CacheKeys}], MaxSize \in Nat
  PROVE  CacheIInv'
<1> DEFINE rest == Dropped(store, k)
<1>1. /\ store \in Seq(Entries) /\ Len(store) <= MaxSize /\ uses \in Seq(CacheKeys) /\ Unrepeated(uses) /\ InOrder(store, uses)
      /\ Len(store) \in Nat
  BY DEF CacheIInv
<1>2. PICK e \in Entries : e = EntryOf(k) /\ e[1] = k /\ e \in Range(store)
  <2>1. \E e \in Range(store) : e[1] = k
    BY DEF Live, Stored, KeysOf
  <2>2. EntryOf(k) \in Range(store) /\ EntryOf(k)[1] = k
    BY <2>1 DEF EntryOf
  <2> QED BY <1>1, <2>2 DEF Range
<1>3. rest \in Seq(Entries) /\ InOrder(rest, uses) /\ Len(rest) < Len(store) /\ Len(rest) \in Nat
      /\ \A i \in DOMAIN rest : rest[i][1] # k
  <2> DEFINE S == {x \in Range(store) : x[1] # k}
  <2>1. rest = Filtered(store, S) /\ e \notin S
    BY <1>2 DEF Dropped
  <2>2. \A x \in S : x[1] # k
    OBVIOUS
  <2> HIDE DEF S
  <2>3. ~ Range(store) \subseteq S
    BY <1>2, <2>1
  <2>4. rest \in Seq(Entries) /\ InOrder(rest, uses) /\ Len(rest) < Len(store) /\ Range(rest) = Range(store) \cap S
    BY <1>1, <2>1, <2>3, FilterKeeps, FilteredInOrder
  <2> HIDE DEF rest
  <2>5. \A i \in DOMAIN rest : rest[i] \in S
    BY <2>4 DEF Range
  <2> QED BY <2>2, <2>4, <2>5
<1>4. store' = Append(rest, e) /\ uses' = Append(Filtered(uses, Range(uses) \ {k}), k)
  BY <1>2 DEF Touch, Used
<1> HIDE DEF rest
<1>5. uses' \in Seq(CacheKeys) /\ Unrepeated(uses') /\ InOrder(store', uses')
  BY <1>1, <1>2, <1>3, <1>4, UsedInOrder
<1>6. store' \in Seq(Entries) /\ Len(store') <= MaxSize
  BY <1>1, <1>2, <1>3, <1>4
<1>7. now' \in Nat
  BY DEF CacheIInv
<1> QED BY <1>5, <1>6, <1>7 DEF CacheIInv, InOrder, Unrepeated, Before, Entries

\* What is put in, and what evict() leaves of it.
LEMMA InvPut ==
  ASSUME CacheIInv, NEW k \in CacheKeys, NEW ttl \in TTLs, CacheTypes, UNCHANGED now, Put(k, ttl),
         computing' \in [Lookups -> {<<>>} \cup {<<q>> : q \in CacheKeys}]
  PROVE  /\ CacheIInv'
         /\ \E map \in Seq(Entries) :
              /\ store' = Evicted(map) /\ InOrder(map, uses')
              /\ \A e \in Range(store) : e \in Range(map) \/ (e[1] = k /\ <<k, now + ttl>> \in Range(map))
<1>1. /\ store \in Seq(Entries) /\ Len(store) <= MaxSize /\ uses \in Seq(CacheKeys) /\ Unrepeated(uses) /\ InOrder(store, uses)
      /\ now \in Nat /\ Len(store) \in Nat
  BY DEF CacheIInv
<1>2. PICK e \in Entries : e = <<k, now + ttl>> /\ e[1] = k
  <2>1. now + ttl \in Int
    BY <1>1 DEF CacheTypes
  <2>2. <<k, now + ttl>> \in Entries
    BY <2>1 DEF Entries
  <2> QED BY <2>2
<1>3. PICK map \in Seq(Entries) :
        /\ store' = Evicted(map) /\ InOrder(map, uses') /\ uses' \in Seq(CacheKeys) /\ Unrepeated(uses')
        /\ \A x \in Range(store) : x \in Range(map) \/ (x[1] = k /\ e \in Range(map))
  <2>1. CASE k \in Stored
    <3>1. PICK map : map = [i \in DOMAIN store |-> IF store[i][1] = k THEN e ELSE store[i]]
      OBVIOUS
    <3>2. map \in Seq(Entries) /\ DOMAIN map = DOMAIN store
      BY <1>1, <3>1
    <3>3. \A i \in DOMAIN store : map[i][1] = store[i][1] /\ (map[i] = store[i] \/ (store[i][1] = k /\ map[i] = e))
      BY <1>2, <3>1
    <3>4. InOrder(map, uses)
      BY <1>1, <3>2, <3>3 DEF InOrder
    <3>5. \A x \in Range(store) : x \in Range(map) \/ (x[1] = k /\ e \in Range(map))
      BY <3>2, <3>3 DEF Range
    <3>6. store' = Evicted(map) /\ uses' = uses
      BY <1>2, <2>1, <3>1 DEF Put
    <3> QED BY <1>1, <3>2, <3>4, <3>5, <3>6
  <2>2. CASE k \notin Stored
    <3>1. PICK map : map = Append(store, e)
      OBVIOUS
    <3>2. map \in Seq(Entries)
      BY <1>1, <3>1
    <3>3. \A i \in DOMAIN store : store[i][1] # k
      BY <2>2 DEF Stored, KeysOf, Range
    <3>4. store' = Evicted(map) /\ uses' = Append(Filtered(uses, Range(uses) \ {k}), k)
      BY <1>2, <2>2, <3>1 DEF Put, Used
    <3>5. uses' \in Seq(CacheKeys) /\ Unrepeated(uses') /\ InOrder(map, uses')
      BY <1>1, <1>2, <3>1, <3>3, <3>4, UsedInOrder
    <3>6. \A i \in DOMAIN store : i \in DOMAIN map /\ map[i] = store[i]
      BY <1>1, <3>1
    <3>7. \A x \in Range(store) : x \in Range(map)
      BY <3>6 DEF Range
    <3> QED BY <3>2, <3>4, <3>5, <3>7
  <2> QED BY <2>1, <2>2
<1>4. store' \in Seq(Entries) /\ Len(store') <= MaxSize /\ InOrder(store', uses')
  BY <1>3, EvictedIs DEF CacheTypes
<1>5. CacheIInv'
  BY <1>1, <1>3, <1>4 DEF CacheIInv, InOrder, Unrepeated, Before, Entries
<1> QED BY <1>2, <1>3, <1>5

LEMMA InvCacheInit == CacheInit /\ CacheTypes => CacheIInv
<1> SUFFICES ASSUME CacheInit, CacheTypes PROVE CacheIInv
  OBVIOUS
<1>1. store = <<>> /\ uses = <<>> /\ now = 0 /\ computing = [c \in Lookups |-> <<>>]
  BY DEF CacheInit
<1>2. Len(<<>>) <= MaxSize /\ <<>> \in Seq(Entries) /\ <<>> \in Seq(CacheKeys)
  BY DEF CacheTypes
<1> QED BY <1>1, <1>2 DEF CacheIInv, InOrder, Unrepeated

\* The steps, by what they do to the Map.
Touches == \E k \in CacheKeys : Live(k) /\ Touch(k) /\ UNCHANGED now
Puts == \E k \in CacheKeys, ttl \in TTLs : Put(k, ttl) /\ UNCHANGED now
Computing == computing' \in [Lookups -> {<<>>} \cup {<<k>> : k \in CacheKeys}]

LEMMA Kinds ==
  ASSUME CacheIInv, CacheTypes, CacheNext
  PROVE  /\ Computing
         /\ \/ \E k \in CacheKeys : Miss(k) /\ UNCHANGED <<now, uses>>
            \/ \E k \in CacheKeys : store' = Dropped(store, k) /\ UNCHANGED <<now, uses>>
            \/ Touches \/ Puts
            \/ store' = <<>> /\ UNCHANGED <<now, uses>>
            \/ store' = Evicted(store) /\ UNCHANGED <<now, uses>>
            \/ UNCHANGED <<store, uses>> /\ now' \in Nat
<1>1. computing \in [Lookups -> {<<>>} \cup {<<k>> : k \in CacheKeys}]
  BY DEF CacheIInv
<1>2. CASE \E k \in CacheKeys : Get(k) \/ Set(k) \/ Has(k) \/ Delete(k)
  BY <1>1, <1>2 DEF Get, Set, Has, Delete, Touches, Puts, Computing, Miss
<1>3. CASE Clear \/ Size
  BY <1>1, <1>3 DEF Clear, Size, Computing
<1>4. CASE Clock
  BY <1>1, <1>4 DEF Clock, Computing
<1>5. ASSUME NEW c \in Lookups, Computed(c)
      PROVE  Computing /\ (Puts \/ (UNCHANGED <<store, uses>> /\ now' \in Nat))
  <2>1. PICK k \in CacheKeys : computing[c] = <<k>> /\ computing[c][1] = k
    BY <1>1, <1>5 DEF Computed
  <2>2. Computing
    BY <1>1, <1>5 DEF Computed, Computing
  <2> QED BY <1>5, <2>1, <2>2 DEF Computed, Puts, CacheIInv
<1>6. ASSUME NEW c \in Lookups, NEW k \in CacheKeys, GetOrElse(c, k)
      PROVE  Computing /\ (Touches \/ (Miss(k) /\ UNCHANGED <<now, uses>>))
  BY <1>1, <1>6 DEF GetOrElse, Computing, Touches, Miss
<1> QED BY <1>2, <1>3, <1>4, <1>5, <1>6 DEF CacheNext

LEMMA InvCacheNext == CacheTypes /\ CacheIInv /\ [CacheNext]_cacheVars => CacheIInv'
<1> SUFFICES ASSUME CacheTypes, CacheIInv, [CacheNext]_cacheVars PROVE CacheIInv'
  OBVIOUS
<1>0. MaxSize \in Nat
  BY DEF CacheTypes
<1>1. CASE UNCHANGED cacheVars
  BY <1>1 DEF cacheVars, CacheIInv, InOrder, Unrepeated, Before, Entries
<1>2. CASE CacheNext
  <2>0. Computing
    BY <1>2, Kinds
  <2>1. ASSUME NEW k \in CacheKeys, store' = Dropped(store, k), UNCHANGED <<now, uses>> PROVE CacheIInv'
    BY <1>0, <2>0, <2>1, InvDrops DEF Dropped, Computing
  <2>2. CASE Touches
    BY <1>0, <2>0, <2>2, InvTouch DEF Touches, Computing
  <2>3. CASE Puts
    BY <2>0, <2>3, InvPut DEF Puts, Computing
  <2>4. CASE store' = <<>> /\ UNCHANGED <<now, uses>>
    BY <1>0, <2>0, <2>4 DEF CacheIInv, InOrder, Unrepeated, Before, Entries, Computing
  <2>5. CASE store' = Evicted(store) /\ UNCHANGED <<now, uses>>
    <3>1. store' \in Seq(Entries) /\ Len(store') <= MaxSize /\ InOrder(store', uses)
      BY <1>0, <2>5, EvictedIs DEF CacheIInv
    <3> QED BY <2>0, <2>5, <3>1 DEF CacheIInv, InOrder, Unrepeated, Before, Entries, Computing
  <2>6. CASE UNCHANGED <<store, uses>> /\ now' \in Nat
    BY <2>0, <2>6 DEF CacheIInv, InOrder, Unrepeated, Before, Entries, Computing
  <2> QED BY <1>2, <2>1, <2>2, <2>3, <2>4, <2>5, <2>6, Kinds DEF Miss
<1> QED BY <1>1, <1>2

LEMMA LaterUse ==
  ASSUME uses' \in Seq(CacheKeys), Unrepeated(uses'), NEW x, NEW y, Before(uses', x, y)
  PROVE  LastUse(y) > LastUse(x)
<1>1. PICK a \in DOMAIN uses', b \in DOMAIN uses' : a < b /\ uses'[a] = x /\ uses'[b] = y
  BY DEF Before
<1>2. LastUse(x) = a
  <2>1. \A i \in DOMAIN uses' : uses'[i] = x => i = a
    BY <1>1 DEF Unrepeated
  <2> QED BY <1>1, <2>1 DEF LastUse
<1>3. LastUse(y) = b
  <2>1. \A i \in DOMAIN uses' : uses'[i] = y => i = b
    BY <1>1 DEF Unrepeated
  <2> QED BY <1>1, <2>1 DEF LastUse
<1>4. a \in Int /\ b \in Int
  BY <1>1
<1> QED BY <1>1, <1>2, <1>3, <1>4

\* Room is made from the front of the Map, or an entry is deleted by name.
LEMMA EvictedFirst ==
  ASSUME CacheIInv, CacheIInv', CacheTypes, NEW map \in Seq(Entries), store' = Evicted(map), InOrder(map, uses'),
         NEW k \in CacheKeys, k \notin KeysOf(store'), NEW e \in Range(map), e[1] = k, ~IsExpired(e)
  PROVE  \A d \in Range(store') : ~IsExpired(d) /\ Before(uses', k, d[1])
<1>1. uses' \in Seq(CacheKeys) /\ MaxSize \in Nat
  BY DEF CacheIInv, CacheTypes
<1>2. e \notin Range(store')
  BY DEF KeysOf
<1> QED BY <1>1, <1>2, EvictedIs

LEMMA RoomIsMade ==
  ASSUME CacheIInv, CacheIInv', CacheTypes, CacheNext, NEW k \in CacheKeys, Live(k), k \notin KeysOf(store')
  PROVE  (\A e \in Range(store') : ~IsExpired(e) /\ Before(uses', k, e[1])) \/ Len(store') < MaxSize
<1>1. /\ store \in Seq(Entries) /\ Len(store) <= MaxSize /\ InOrder(store, uses) /\ now \in Nat
      /\ Len(store) \in Nat /\ MaxSize \in Nat
  BY DEF CacheIInv, CacheTypes
<1>2. PICK e \in Range(store) : e[1] = k /\ ~IsExpired(e)
  <2>1. \E x \in Range(store) : x[1] = k
    BY DEF Live, Stored, KeysOf
  <2>2. EntryOf(k) \in Range(store) /\ EntryOf(k)[1] = k
    BY <2>1 DEF EntryOf
  <2> QED BY <2>2 DEF Live
<1>3. ASSUME NEW q \in CacheKeys, store' = Dropped(store, q) PROVE q = k /\ Len(store') < Len(store) /\ Len(store') \in Nat
  <2> DEFINE S == {x \in Range(store) : x[1] # q}
  <2>1. store' = Filtered(store, S)
    BY <1>3 DEF Dropped
  <2>2. e[1] # q => e \in S
    OBVIOUS
  <2>3. e[1] = q => ~ Range(store) \subseteq S
    OBVIOUS
  <2> HIDE DEF S
  <2>4. Range(store') = Range(store) \cap S /\ (~ Range(store) \subseteq S => Len(store') < Len(store)) /\ store' \in Seq(Entries)
    BY <1>1, <2>1, FilterKeeps
  <2>5. e \notin Range(store')
    BY <1>2 DEF KeysOf
  <2> QED BY <1>2, <2>2, <2>3, <2>4, <2>5
<1>4. ASSUME NEW q \in CacheKeys, Miss(q) PROVE FALSE
  <2>1. q = k
    BY <1>3, <1>4 DEF Miss
  <2> QED BY <1>4, <2>1 DEF Miss
<1>5. ASSUME NEW q \in CacheKeys, store' = Dropped(store, q) PROVE Len(store') < MaxSize
  BY <1>1, <1>3, <1>5
<1>6. ASSUME Touches PROVE FALSE
  <2>1. PICK q \in CacheKeys : Live(q) /\ Touch(q)
    BY <1>6 DEF Touches
  <2> DEFINE S == {x \in Range(store) : x[1] # q}
  <2>2. PICK last \in Range(store) : last = EntryOf(q) /\ last[1] = q
    <3>1. \E x \in Range(store) : x[1] = q
      BY <2>1 DEF Live, Stored, KeysOf
    <3> QED BY <3>1 DEF EntryOf
  <2>3. PICK rest : rest = Filtered(store, S)
    OBVIOUS
  <2>4. rest \in Seq(Entries) /\ Range(rest) = Range(store) \cap S /\ Len(rest) \in Nat /\ DOMAIN rest = 1..Len(rest)
    BY <1>1, <2>3, FilterKeeps
  <2>5. store' = Append(rest, last) /\ last \in Entries
    BY <1>1, <2>1, <2>2, <2>3 DEF Touch, Dropped, Range
  <2>6. last \in Range(store') /\ Range(rest) \subseteq Range(store')
    <3>1. /\ DOMAIN store' = 1..(Len(rest) + 1) /\ store'[Len(rest) + 1] = last
          /\ \A i \in DOMAIN rest : i \in DOMAIN store' /\ store'[i] = rest[i]
      BY <2>4, <2>5
    <3>2. Len(rest) + 1 \in DOMAIN store'
      BY <2>4, <3>1
    <3> QED BY <3>1, <3>2 DEF Range
  <2>7. CASE q = k
    BY <2>2, <2>6, <2>7 DEF KeysOf
  <2>8. CASE q # k
    <3>1. e \in S
      BY <1>2, <2>8
    <3>2. e \in Range(store')
      BY <2>4, <2>6, <3>1
    <3> QED BY <1>2, <3>2 DEF KeysOf
  <2> QED BY <2>7, <2>8
<1>7. ASSUME Puts PROVE \A d \in Range(store') : ~IsExpired(d) /\ Before(uses', k, d[1])
  <2>1. PICK q \in CacheKeys, ttl \in TTLs : Put(q, ttl) /\ UNCHANGED now
    BY <1>7 DEF Puts
  <2>2. Computing
    BY Kinds
  <2>3. PICK map \in Seq(Entries) :
          /\ store' = Evicted(map) /\ InOrder(map, uses')
          /\ \A x \in Range(store) : x \in Range(map) \/ (x[1] = q /\ <<q, now + ttl>> \in Range(map))
    BY <2>1, <2>2, InvPut DEF Computing
  <2>4. CASE e \in Range(map)
    BY <1>2, <2>3, <2>4, EvictedFirst
  <2>5. CASE k = q /\ <<q, now + ttl>> \in Range(map)
    <3>1. PICK d : d = <<q, now + ttl>>
      OBVIOUS
    <3>2. d[1] = k /\ d[2] = now + ttl /\ ttl \in Nat
      BY <2>5, <3>1 DEF CacheTypes
    <3>3. ~IsExpired(d)
      BY <1>1, <3>2 DEF IsExpired
    <3> QED BY <2>3, <2>5, <3>1, <3>2, <3>3, EvictedFirst
  <2> QED BY <1>2, <2>3, <2>4, <2>5
<1>8. ASSUME store' = <<>> PROVE Range(store') = {}
  BY <1>8 DEF Range
<1>9. ASSUME store' = Evicted(store), UNCHANGED uses
      PROVE  \A d \in Range(store') : ~IsExpired(d) /\ Before(uses', k, d[1])
  BY <1>1, <1>2, <1>9, EvictedFirst
<1>10. ASSUME UNCHANGED store PROVE FALSE
  BY <1>2, <1>10 DEF KeysOf
<1> QED BY <1>4, <1>5, <1>6, <1>7, <1>8, <1>9, <1>10, Kinds

\* For any number of keys and lookups, any times to live and any clock: who is dropped to make
\* room was inserted or read before all who stay.
THEOREM OldestLeaves == CacheSpec => LeastRecentGoesFirst
<1>0. CacheTypes
  BY CacheAssumption DEF CacheTypes
<1>1. CacheSpec => []CacheIInv
  BY <1>0, InvCacheInit, InvCacheNext, PTL DEF CacheSpec
<1> DEFINE Goes == Len(store') = MaxSize =>
       \A k \in CacheKeys : Live(k) /\ k \notin KeysOf(store') =>
         \A e \in Range(store') : ~IsExpired(e) /\ LastUse(e[1]) > LastUse(k)
<1>2. CacheIInv /\ CacheIInv' /\ [CacheNext]_cacheVars => [Goes]_cacheVars
  <2> SUFFICES ASSUME CacheIInv, CacheIInv', CacheNext, Len(store') = MaxSize, NEW k \in CacheKeys, Live(k), k \notin KeysOf(store'),
                      NEW e \in Range(store')
               PROVE  ~IsExpired(e) /\ LastUse(e[1]) > LastUse(k)
    OBVIOUS
  <2>1. uses' \in Seq(CacheKeys) /\ Unrepeated(uses') /\ Len(store') \in Nat
    BY DEF CacheIInv, Unrepeated
  <2>2. ~IsExpired(e) /\ Before(uses', k, e[1])
    BY <1>0, <2>1, RoomIsMade
  <2> QED BY <2>1, <2>2, LaterUse
<1> HIDE DEF Goes
<1>3. CacheSpec => [][Goes]_cacheVars
  BY <1>1, <1>2, PTL DEF CacheSpec
<1>4. LeastRecentGoesFirst <=> [][Goes]_cacheVars
  BY DEF LeastRecentGoesFirst, Goes
<1> QED BY <1>3, <1>4


-----------------------------------------------------------------------------
(* The search of Cron.next().                                                *)

\* What divides alike is between two multiples.
LEMMA DivideAlike ==
  ASSUME NEW d \in Nat \ {0}, NEW x \in Int, NEW y \in Int, x <= y, y < (x \div d + 1) * d
  PROVE  x \div d = y \div d /\ x < (x \div d + 1) * d
<1>1. PICK q \in Int : q = x \div d
  OBVIOUS
<1>2. PICK p \in Int : p = y \div d
  OBVIOUS
<1>3. q * d <= x /\ x < q * d + d
  BY <1>1
<1>4. p * d <= y /\ y < p * d + d
  BY <1>2
<1>5. (q + 1) * d = q * d + d
  OBVIOUS
<1>6. q * d < p * d + d /\ p * d < q * d + d
  BY <1>1, <1>3, <1>4, <1>5
<1> QED BY <1>1, <1>2, <1>3, <1>5, <1>6

LEMMA MultipleNext ==
  ASSUME NEW d \in Nat \ {0}, NEW x \in Int
  PROVE  x < (x \div d + 1) * d /\ x \div d \in Int /\ (x \div d + 1) * d \in Int
  OBVIOUS

LEMMA MultiplesApart ==
  ASSUME NEW d \in Nat \ {0}, NEW h \in Int, NEW k \in Int, d * h < k * d
  PROVE  d * h + d <= k * d
<1>1. h < k
  OBVIOUS
<1>2. k - 1 >= h /\ k - 1 \in Int
  BY <1>1
<1>3. (k - 1) * d >= h * d
  BY <1>2
<1>4. (k - 1) * d = k * d - d /\ h * d = d * h
  OBVIOUS
<1> QED BY <1>3, <1>4

\* No date is left behind by a clock that is put forward: the hour it leaves out is LeftOut.
LeftOut(l) == SpringForward < l /\ l < SpringForward + MinutesPerHour

LEMMA Clocks ==
  /\ MinutesPerHour \in Nat /\ MinutesPerHour > 0 /\ SpringForward \in Int /\ FallBack \in Int
  /\ SpringForward + MinutesPerHour <= FallBack
<1>1. MinutesPerHour \in Nat /\ MinutesPerHour > 0
  BY CronSearchAssumption
<1>2. PICK h \in 0..FallBack : SpringForward = MinutesPerHour * h
  BY CronSearchAssumption
<1>3. FallBack \in Nat /\ h \in Int
  BY CronSearchAssumption
<1>4. SpringForward \in Int
  BY <1>1, <1>2, <1>3
<1> QED BY <1>1, <1>3, <1>4, CronSearchAssumption

\* The first of equal local times are in the order of the clock.
LEMMA ClockGoesOn ==
  ASSUME NEW c \in Int, FirstTime(c), NEW l \in Int, Local(c) < l, ~LeftOut(l)
  PROVE  /\ Instant(l) \in Int /\ FirstTime(Instant(l)) /\ c < Instant(l)
         /\ \A t \in Int : c <= t /\ t < Instant(l) /\ FirstTime(t) => Local(t) \in Int /\ Local(c) <= Local(t) /\ Local(t) < l
<1>1. Instant(l) \in Int /\ FirstTime(Instant(l)) /\ c < Instant(l)
  BY Clocks DEF FirstTime, Instant, Local, LeftOut
<1>2. ASSUME NEW t \in Int, c <= t, t < Instant(l), FirstTime(t)
      PROVE  Local(t) \in Int /\ Local(c) <= Local(t) /\ Local(t) < l
  BY <1>2, Clocks DEF FirstTime, Instant, Local, LeftOut
<1> QED BY <1>1, <1>2

LEMMA LocalOutside == \A t \in Int : Local(t) \in Int /\ ~LeftOut(Local(t)) /\ (FirstTime(t) => ~LeftOut(Local(t) + 1))
  BY Clocks DEF Local, LeftOut, FirstTime, Instant

LEMMA GapIsNoHour ==
  ASSUME NEW k \in Int
  PROVE  ~LeftOut(k * MinutesPerHour)
<1>1. PICK h \in 0..FallBack : SpringForward = MinutesPerHour * h
  BY CronSearchAssumption
<1>2. h \in Int /\ MinutesPerHour \in Nat \ {0}
  BY CronSearchAssumption
<1>3. MinutesPerHour * h < k * MinutesPerHour => MinutesPerHour * h + MinutesPerHour <= k * MinutesPerHour
  BY <1>2, MultiplesApart
<1>4. k * MinutesPerHour \in Int /\ MinutesPerHour * h \in Int
  BY <1>2
<1> QED BY <1>1, <1>2, <1>3, <1>4 DEF LeftOut

\* Whether a local time matches.
Fits(l) ==
  /\ Minute(l) \in fields.minutes /\ Hour(l) \in fields.hours
  /\ DateOf(l) \in fields.daysOfMonth /\ Month(l) \in fields.months
  /\ WeekDay(l) \in fields.daysOfWeek

\* Whether a local time is of the lost day.
InLostDay(l) == DayNumber(l) = DayNumber(SpringForward) /\ DayNumber(SpringForward + MinutesPerHour) # DayNumber(SpringForward)

SearchIInv ==
  /\ after \in Int /\ (FirstTime(after) => after < start)
  /\ \A t \in Int : after < t /\ t < start => ~FirstTime(t)
  /\ start \in Int /\ current \in Int /\ FirstTime(start) /\ FirstTime(current) /\ start <= current
  /\ found \in {"searching", "some", "none"} /\ MaxDate \in Int
  /\ (found = "searching" \/ start < current) => fields # <<>>
  /\ \A t \in Int : start <= t /\ t < current /\ FirstTime(t) /\ ~LostDay(t) => ~Fits(Local(t))
  /\ found = "some" => Fits(Local(current)) /\ current < MaxDate
  /\ found = "none" /\ fields # <<>> => current >= MaxDate

\* A round of the loop passes nothing that fits.
LEMMA InvMoves ==
  ASSUME SearchIInv, found = "searching", NEW l \in Int, Local(current) < l, ~LeftOut(l), MoveTo(l),
         \A x \in Int : Local(current) <= x /\ x < l => InLostDay(x) \/ ~Fits(x)
  PROVE  SearchIInv'
<1>1. current' = Instant(l) /\ UNCHANGED <<expression, fields, after, start, found>>
  BY DEF MoveTo
<1>2. /\ current \in Int /\ FirstTime(current) /\ start \in Int /\ start <= current /\ fields # <<>>
  BY DEF SearchIInv
<1>3. /\ Instant(l) \in Int /\ FirstTime(Instant(l)) /\ current < Instant(l)
      /\ \A t \in Int : current <= t /\ t < Instant(l) /\ FirstTime(t) => Local(t) \in Int /\ Local(current) <= Local(t) /\ Local(t) < l
  BY <1>2, ClockGoesOn
<1>4. ASSUME NEW t \in Int, start <= t, t < current', FirstTime(t), ~LostDay(t) PROVE ~Fits(Local(t))
  <2>1. CASE t < current
    BY <1>4, <2>1 DEF SearchIInv
  <2>2. CASE current <= t
    BY <1>1, <1>3, <1>4, <2>2 DEF LostDay, InLostDay
  <2> QED BY <1>2, <2>1, <2>2
<1>5. FirstTime(current)' /\ FirstTime(start)' /\ MaxDate' = MaxDate
  BY <1>1, <1>3 DEF FirstTime, Instant, Local, SearchIInv, MaxDate
<1>6. \A x : Fits(x)' <=> Fits(x)
  BY <1>1 DEF Fits, Minute, Hour, DateOf, Month, WeekDay, DayNumber
<1>7. \A t : (FirstTime(t)' <=> FirstTime(t)) /\ Local(t)' = Local(t) /\ (LostDay(t)' <=> LostDay(t))
  BY DEF FirstTime, Instant, Local, LostDay, DayNumber
<1>8. \A t \in Int : start' <= t /\ t < current' /\ FirstTime(t)' /\ ~LostDay(t)' => ~Fits(Local(t))'
  BY <1>1, <1>4, <1>6, <1>7
<1>9. current' \in Int /\ start' <= current'
  BY <1>1, <1>2, <1>3
<1>10. /\ after' \in Int /\ (FirstTime(after)' => after' < start')
       /\ \A t \in Int : after' < t /\ t < start' => ~FirstTime(t)'
  BY <1>1, <1>7 DEF SearchIInv, FirstTime, Instant, Local
<1> QED BY <1>1, <1>2, <1>5, <1>8, <1>9, <1>10 DEF SearchIInv

LEMMA Products ==
  /\ MinutesPerHour \in Nat \ {0} /\ HoursPerDay \in Nat \ {0} /\ DaysPerMonth \in Nat \ {0}
  /\ MonthsPerYear \in Nat \ {0} /\ DaysPerWeek \in Nat \ {0}
  /\ MinutesPerDay \in Nat \ {0} /\ MinutesPerYear \in Nat
<1>1. /\ MinutesPerHour \in Nat \ {0} /\ HoursPerDay \in Nat \ {0} /\ DaysPerMonth \in Nat \ {0}
      /\ MonthsPerYear \in Nat \ {0} /\ DaysPerWeek \in Nat \ {0}
  BY CronSearchAssumption
<1>2. \A a, b \in Nat \ {0} : a * b \in Nat \ {0}
  OBVIOUS
<1>3. MinutesPerDay \in Nat \ {0}
  BY <1>1, <1>2 DEF MinutesPerDay
<1>4. MinutesPerDay * DaysPerMonth \in Nat \ {0}
  BY <1>1, <1>2, <1>3
<1> QED BY <1>1, <1>2, <1>3, <1>4 DEF MinutesPerYear

\* Where the next hour, day and month begin, and what is alike until then.
LEMMA HourIs ==
  ASSUME NEW l \in Int
  PROVE  /\ NextHour(l) \in Int /\ l < NextHour(l) /\ ~LeftOut(NextHour(l))
         /\ \A x \in Int : l <= x /\ x < NextHour(l) => Hour(x) = Hour(l)
<1>1. MinutesPerHour \in Nat \ {0}
  BY Products
<1>2. NextHour(l) \in Int /\ l < NextHour(l) /\ l \div MinutesPerHour \in Int
  BY <1>1, MultipleNext DEF NextHour
<1>3. ~LeftOut(NextHour(l))
  <2>1. l \div MinutesPerHour + 1 \in Int
    BY <1>2
  <2> QED BY <2>1, GapIsNoHour DEF NextHour
<1>4. ASSUME NEW x \in Int, l <= x, x < NextHour(l) PROVE Hour(x) = Hour(l)
  <2>1. l \div MinutesPerHour = x \div MinutesPerHour
    BY <1>1, <1>4, DivideAlike DEF NextHour
  <2> QED BY <2>1 DEF Hour
<1> QED BY <1>2, <1>3, <1>4

LEMMA DaysAre ==
  /\ MinutesPerDay \in Nat \ {0} /\ MinutesPerHour \in Nat \ {0} /\ HoursPerDay \in Nat \ {0}
  /\ MinutesPerHour <= MinutesPerDay
  /\ \A k \in Int : k * MinutesPerDay \in Int /\ k * HoursPerDay \in Int /\ k * MinutesPerDay = (k * HoursPerDay) * MinutesPerHour
<1>1. MinutesPerDay \in Nat \ {0} /\ MinutesPerHour \in Nat \ {0} /\ HoursPerDay \in Nat \ {0}
  BY Products
<1>2. MinutesPerHour <= MinutesPerDay
  <2>1. \A a, b \in Nat \ {0} : a <= a * b
    OBVIOUS
  <2> QED BY <1>1, <2>1 DEF MinutesPerDay
<1>3. ASSUME NEW k \in Int
      PROVE  k * MinutesPerDay \in Int /\ k * HoursPerDay \in Int /\ k * MinutesPerDay = (k * HoursPerDay) * MinutesPerHour
  BY <1>1 DEF MinutesPerDay
<1> QED BY <1>1, <1>2, <1>3

\* What lies between two midnights is of the one day.
LEMMA DayIs ==
  ASSUME NEW x \in Int
  PROVE  /\ DayNumber(x) \in Int /\ DayNumber(x) * MinutesPerDay <= x /\ x < (DayNumber(x) + 1) * MinutesPerDay
         /\ \A k \in Int : k * MinutesPerDay <= x /\ x < (k + 1) * MinutesPerDay => DayNumber(x) = k
<1>1. MinutesPerDay \in Nat \ {0}
  BY DaysAre
<1>2. PICK q \in Int : q = DayNumber(x)
  BY <1>1 DEF DayNumber
<1>3. q * MinutesPerDay <= x /\ x < (q + 1) * MinutesPerDay /\ q * MinutesPerDay \in Int
  <2>1. q * MinutesPerDay <= x /\ x < q * MinutesPerDay + MinutesPerDay
    BY <1>1, <1>2 DEF DayNumber
  <2>2. (q + 1) * MinutesPerDay = q * MinutesPerDay + MinutesPerDay /\ q * MinutesPerDay \in Int
    BY <1>1
  <2> QED BY <2>1, <2>2
<1>4. ASSUME NEW k \in Int, k * MinutesPerDay <= x, x < (k + 1) * MinutesPerDay PROVE q = k
  <2>1. k * MinutesPerDay \in Int /\ (k + 1) * MinutesPerDay \in Int /\ (q + 1) * MinutesPerDay \in Int
    BY <1>1
  <2>2. k * MinutesPerDay < (q + 1) * MinutesPerDay /\ q * MinutesPerDay < (k + 1) * MinutesPerDay
    BY <1>3, <1>4, <2>1
  <2>3. k < q + 1
    <3> SUFFICES ASSUME k >= q + 1 PROVE FALSE
      OBVIOUS
    <3>1. k * MinutesPerDay >= (q + 1) * MinutesPerDay
      BY <1>1
    <3> QED BY <2>1, <2>2, <3>1
  <2>4. q < k + 1
    <3> SUFFICES ASSUME q >= k + 1 PROVE FALSE
      OBVIOUS
    <3>1. q * MinutesPerDay >= (k + 1) * MinutesPerDay
      BY <1>1
    <3> QED BY <1>3, <2>1, <2>2, <3>1
  <2> QED BY <2>3, <2>4
<1> QED BY <1>2, <1>3, <1>4

\* The day on which a Date comes to rest that is set to a time of a day: the next one if the clock
\* leaves out the last hour of that day.
LEMMA DayReached ==
  ASSUME NEW x \in Int
  PROVE  LET y == Local(Instant(x))
         IN  /\ y \in Int
             /\ \/ DayNumber(y) = DayNumber(x)
                \/ /\ DayNumber(y) = DayNumber(x) + 1 /\ DayNumber(x) = DayNumber(SpringForward)
                   /\ DayNumber(SpringForward + MinutesPerHour) # DayNumber(SpringForward)
<1> DEFINE y == Local(Instant(x))
<1>1. y \in Int /\ (y = x \/ (SpringForward <= x /\ x < SpringForward + MinutesPerHour /\ y = x + MinutesPerHour))
  BY Clocks DEF Instant, Local
<1>2. CASE y = x
  BY <1>1, <1>2
<1>3. CASE SpringForward <= x /\ x < SpringForward + MinutesPerHour /\ y = x + MinutesPerHour
  <2>1. PICK h \in 0..FallBack : SpringForward = MinutesPerHour * h
    BY CronSearchAssumption
  <2>2. h \in Int /\ SpringForward \in Int /\ MinutesPerHour \in Nat \ {0} /\ MinutesPerHour <= MinutesPerDay
    BY <2>1, Clocks, DaysAre
  <2>3. PICK k \in Int : k = DayNumber(SpringForward)
    BY <2>2, DayIs
  <2>4. PICK m \in Int : m = (k + 1) * MinutesPerDay
    BY DaysAre
  <2>5. PICK n \in Int : n = (k + 1) * HoursPerDay /\ m = n * MinutesPerHour
    BY <2>4, DaysAre
  <2>6. k * MinutesPerDay <= SpringForward /\ SpringForward < m /\ k * MinutesPerDay \in Int
    BY <2>2, <2>3, <2>4, DayIs, DaysAre
  <2>7. SpringForward + MinutesPerHour <= m
    BY <2>1, <2>2, <2>5, <2>6, MultiplesApart
  <2>8. DayNumber(x) = k
    <3>1. k * MinutesPerDay <= x /\ x < (k + 1) * MinutesPerDay
      BY <1>3, <2>2, <2>4, <2>6, <2>7
    <3> QED BY <3>1, DayIs
  <2>9. CASE SpringForward + MinutesPerHour < m
    <3>1. MinutesPerHour * (h + 1) = SpringForward + MinutesPerHour /\ h + 1 \in Int
      BY <2>1, <2>2
    <3>2. SpringForward + MinutesPerHour + MinutesPerHour <= m
      <4>1. MinutesPerHour * (h + 1) < n * MinutesPerHour
        BY <2>5, <2>9, <3>1
      <4>2. MinutesPerHour * (h + 1) + MinutesPerHour <= n * MinutesPerHour
        BY <2>2, <3>1, <4>1, MultiplesApart
      <4> QED BY <2>5, <3>1, <4>2
    <3>3. k * MinutesPerDay <= y /\ y < (k + 1) * MinutesPerDay
      BY <1>3, <2>2, <2>4, <2>6, <3>2
    <3>4. DayNumber(y) = k
      BY <1>1, <3>3, DayIs
    <3> QED BY <1>1, <2>8, <3>4
  <2>10. CASE SpringForward + MinutesPerHour = m
    <3>1. (k + 1 + 1) * MinutesPerDay = m + MinutesPerDay /\ k + 1 \in Int
      BY <2>4, DaysAre
    <3>2. (k + 1) * MinutesPerDay <= y /\ y < (k + 1 + 1) * MinutesPerDay
      BY <1>3, <2>2, <2>4, <2>10, <3>1, DaysAre
    <3>3. DayNumber(y) = k + 1
      <4> HIDE DEF y
      <4> QED BY <1>1, <3>1, <3>2, DayIs
    <3>4. (k + 1) * MinutesPerDay <= m /\ m < (k + 1 + 1) * MinutesPerDay
      BY <2>4, <3>1, DaysAre
    <3>5. DayNumber(m) = k + 1
      BY <3>1, <3>4, DayIs
    <3> QED BY <1>1, <2>3, <2>8, <2>10, <3>3, <3>5
  <2> QED BY <2>2, <2>7, <2>9, <2>10
<1> QED BY <1>1, <1>2, <1>3

\* Where MoveToDay() leads that is asked for a time of the day n.
LEMMA MidnightIs ==
  ASSUME NEW x \in Int
  PROVE  LET m == Midnight(Local(Instant(x)))
         IN  /\ m \in Int /\ ~LeftOut(m) /\ DayNumber(x) * MinutesPerDay <= m
             /\ \A l \in Int : DayNumber(x) * MinutesPerDay <= l /\ l < m => InLostDay(l)
<1> DEFINE y == Local(Instant(x))
           m == Midnight(y)
<1>1. y \in Int /\ DayNumber(y) \in Int /\ DayNumber(x) \in Int
  BY DayReached, DayIs
<1>2. PICK n \in Int, k \in Int : n = DayNumber(x) /\ k = DayNumber(y)
  BY <1>1
<1>3. m = k * MinutesPerDay /\ m \in Int /\ n * MinutesPerDay \in Int
  BY <1>2, DaysAre DEF Midnight
<1>4. ~LeftOut(m)
  <2>1. k * HoursPerDay \in Int /\ m = (k * HoursPerDay) * MinutesPerHour
    BY <1>3, DaysAre
  <2> QED BY <2>1, GapIsNoHour
<1>5. k = n \/ (k = n + 1 /\ n = DayNumber(SpringForward) /\ DayNumber(SpringForward + MinutesPerHour) # DayNumber(SpringForward))
  BY <1>2, DayReached
<1>6. n * MinutesPerDay <= m
  <2>1. (n + 1) * MinutesPerDay = n * MinutesPerDay + MinutesPerDay
    BY DaysAre
  <2> QED BY <1>3, <1>5, <2>1, DaysAre
<1>7. ASSUME NEW l \in Int, n * MinutesPerDay <= l, l < m PROVE InLostDay(l)
  <2>1. k = n + 1 /\ n = DayNumber(SpringForward) /\ DayNumber(SpringForward + MinutesPerHour) # DayNumber(SpringForward)
    BY <1>3, <1>5, <1>7
  <2>2. DayNumber(l) = n
    BY <1>3, <1>7, <2>1, DayIs
  <2> QED BY <2>1, <2>2 DEF InLostDay
<1> QED BY <1>2, <1>3, <1>4, <1>6, <1>7

LEMMA MonthIs ==
  ASSUME NEW l \in Int
  PROVE  LET x == NextMonth(l) + (l % MinutesPerDay)
         IN  /\ x \in Int /\ l < DayNumber(x) * MinutesPerDay /\ DayNumber(x) \in Int /\ DayNumber(x) * MinutesPerDay \in Int
             /\ \A t \in Int : l <= t /\ t < DayNumber(x) * MinutesPerDay => Month(t) = Month(l)
<1>1. MinutesPerDay \in Nat \ {0} /\ DaysPerMonth \in Nat \ {0}
  BY Products
<1>2. \A x \in Int : DayNumber(x) \in Int
  BY DayIs
<1>3. PICK m \in Int : m = (DayNumber(l) \div DaysPerMonth + 1) * DaysPerMonth /\ DayNumber(l) < m
  BY <1>1, <1>2, MultipleNext
<1>4. PICK b \in Int : b = m * MinutesPerDay /\ NextMonth(l) = b
  BY <1>3, DaysAre DEF NextMonth
<1>5. PICK r \in Int : r = l % MinutesPerDay /\ 0 <= r /\ r < MinutesPerDay
  BY <1>1
<1>6. DayNumber(b + r) = m
  <2>1. (m + 1) * MinutesPerDay = b + MinutesPerDay
    BY <1>1, <1>4
  <2> QED BY <1>1, <1>4, <1>5, <2>1, DayIs
<1>7. ASSUME NEW t \in Int PROVE t < b <=> DayNumber(t) < m
  <2>1. PICK q \in Int : q = DayNumber(t) /\ q * MinutesPerDay <= t /\ t < (q + 1) * MinutesPerDay
    BY DayIs
  <2>2. q * MinutesPerDay \in Int /\ (q + 1) * MinutesPerDay \in Int
    BY DaysAre
  <2>3. q < m => (q + 1) * MinutesPerDay <= m * MinutesPerDay
    BY <1>1
  <2>4. q >= m => m * MinutesPerDay <= q * MinutesPerDay
    BY <1>1
  <2> QED BY <1>4, <2>1, <2>2, <2>3, <2>4
<1>8. ASSUME NEW t \in Int, l <= t, t < b PROVE Month(t) = Month(l)
  <2>1. PICK p \in Int : p = DayNumber(l) /\ p * MinutesPerDay <= l
    BY DayIs
  <2>2. PICK q \in Int : q = DayNumber(t) /\ t < (q + 1) * MinutesPerDay
    BY DayIs
  <2>3. p * MinutesPerDay \in Int /\ (q + 1) * MinutesPerDay \in Int
    BY DaysAre
  <2>4. p >= q + 1 => p * MinutesPerDay >= (q + 1) * MinutesPerDay
    BY <1>1
  <2>5. p <= q
    BY <1>8, <2>1, <2>2, <2>3, <2>4
  <2>6. q < m
    BY <1>7, <1>8, <2>2
  <2>7. p \div DaysPerMonth = q \div DaysPerMonth
    BY <1>1, <1>3, <2>1, <2>5, <2>6, DivideAlike
  <2> QED BY <2>1, <2>2, <2>7 DEF Month
<1> QED BY <1>3, <1>4, <1>5, <1>6, <1>7, <1>8

\* To a day, past what does not fit.
LEMMA SkipsTo ==
  ASSUME SearchIInv, found = "searching", NEW x \in Int, MoveTo(Midnight(Local(Instant(x)))),
         NEW l \in Int, l = Local(current), NEW b \in Int, b = DayNumber(x) * MinutesPerDay, l < b,
         \A t \in Int : l <= t /\ t < b => ~Fits(t)
  PROVE  SearchIInv'
<1>1. PICK m \in Int : m = Midnight(Local(Instant(x)))
  BY MidnightIs
<1>2. ~LeftOut(m) /\ b <= m /\ \A t \in Int : b <= t /\ t < m => InLostDay(t)
  BY <1>1, MidnightIs
<1>3. \A t \in Int : Local(current) <= t /\ t < m => InLostDay(t) \/ ~Fits(t)
  BY <1>2
<1>4. Local(current) < m /\ MoveTo(m)
  BY <1>1, <1>2
<1> QED BY <1>2, <1>3, <1>4, InvMoves

LEMMA InvSkips ==
  ASSUME SearchIInv, SkipMonth \/ SkipDay \/ SkipHour \/ SkipMinute
  PROVE  SearchIInv'
<1>1. PICK l \in Int : l = Local(current)
  BY LocalOutside DEF SearchIInv
<1>2. found = "searching"
  BY DEF SkipMonth, SkipDay, SkipHour, SkipMinute, Searching
<1>3. CASE SkipMonth
  <2>1. PICK x \in Int : x = NextMonth(l) + (l % MinutesPerDay)
    BY MonthIs
  <2>2. Month(l) \notin fields.months /\ MoveTo(Midnight(Local(Instant(x))))
    BY <1>1, <1>3, <2>1 DEF SkipMonth, MoveToDay
  <2>3. PICK b \in Int : b = DayNumber(x) * MinutesPerDay
    BY <2>1, MonthIs
  <2>4. l < b /\ \A t \in Int : l <= t /\ t < b => ~Fits(t)
    BY <2>1, <2>2, <2>3, MonthIs DEF Fits
  <2> QED BY <1>1, <1>2, <2>2, <2>3, <2>4, SkipsTo
<1>4. CASE SkipDay
  <2>1. PICK x \in Int : x = l + MinutesPerDay
    BY DaysAre
  <2>2. (DateOf(l) \notin fields.daysOfMonth \/ WeekDay(l) \notin fields.daysOfWeek) /\ MoveTo(Midnight(Local(Instant(x))))
    BY <1>1, <1>4, <2>1 DEF SkipDay, MoveToDay
  <2>3. PICK n \in Int : n = DayNumber(l) /\ n * MinutesPerDay <= l /\ l < (n + 1) * MinutesPerDay
    BY DayIs
  <2>4. DayNumber(x) = n + 1
    <3>1. /\ (n + 1 + 1) * MinutesPerDay = (n + 1) * MinutesPerDay + MinutesPerDay /\ n + 1 \in Int
          /\ (n + 1) * MinutesPerDay = n * MinutesPerDay + MinutesPerDay /\ n * MinutesPerDay \in Int /\ (n + 1) * MinutesPerDay \in Int
      BY DaysAre
    <3>2. (n + 1) * MinutesPerDay <= x /\ x < (n + 1 + 1) * MinutesPerDay
      BY <2>1, <2>3, <3>1, DaysAre
    <3> QED BY <3>1, <3>2, DayIs
  <2>5. PICK b \in Int : b = DayNumber(x) * MinutesPerDay /\ l < b /\ b = (n + 1) * MinutesPerDay
    BY <2>3, <2>4, DaysAre
  <2>6. \A t \in Int : l <= t /\ t < b => ~Fits(t)
    <3>1. \A t \in Int : l <= t /\ t < b => n * MinutesPerDay <= t /\ t < (n + 1) * MinutesPerDay
      BY <2>3, <2>5, DaysAre
    <3>2. \A t \in Int : l <= t /\ t < b => DayNumber(t) = DayNumber(l)
      BY <2>3, <3>1, DayIs
    <3> QED BY <2>2, <3>2 DEF Fits, DateOf, WeekDay
  <2> QED BY <1>1, <1>2, <2>2, <2>5, <2>6, SkipsTo
<1>5. CASE SkipHour
  <2>1. Hour(l) \notin fields.hours /\ MoveTo(NextHour(l))
    BY <1>1, <1>5 DEF SkipHour
  <2>2. \A x \in Int : l <= x /\ x < NextHour(l) => ~Fits(x)
    BY <2>1, HourIs DEF Fits
  <2> QED BY <1>1, <1>2, <2>1, <2>2, HourIs, InvMoves
<1>6. CASE SkipMinute
  <2>1. Minute(l) \notin fields.minutes /\ MoveTo(l + 1)
    BY <1>1, <1>6 DEF SkipMinute
  <2>2. \A x \in Int : l <= x /\ x < l + 1 => ~Fits(x)
    <3>1. \A x \in Int : l <= x /\ x < l + 1 => x = l
      OBVIOUS
    <3> QED BY <2>1, <3>1 DEF Fits
  <2>3. ~LeftOut(l + 1)
    BY <1>1, LocalOutside DEF SearchIInv
  <2> QED BY <1>1, <1>2, <2>1, <2>2, <2>3, InvMoves
<1> QED BY <1>3, <1>4, <1>5, <1>6

LEMMA InvAnswers ==
  ASSUME SearchIInv, Answer
  PROVE  SearchIInv'
<1>1. /\ found = "searching" /\ found' = IF current < MaxDate THEN "some" ELSE "none"
      /\ current < MaxDate => Fits(Local(current))
      /\ UNCHANGED <<expression, fields, after, start, current>> /\ current \in Int /\ MaxDate \in Int
  BY DEF Answer, MatchesAt, Fits, SearchIInv
<1>2. MaxDate' = MaxDate /\ \A t : FirstTime(t)' = FirstTime(t) /\ LostDay(t)' = LostDay(t) /\ Fits(Local(t))' = Fits(Local(t))
  BY <1>1 DEF MaxDate, Instant, Local, FirstTime, LostDay, Fits, Minute, Hour, DateOf, Month, WeekDay, DayNumber
<1>3. (FirstTime(after)' <=> FirstTime(after)) /\ FirstTime(start)' /\ FirstTime(current)' /\ (Fits(Local(current))' <=> Fits(Local(current)))
  BY <1>1 DEF SearchIInv, FirstTime, Instant, Local, Fits, Minute, Hour, DateOf, Month, WeekDay, DayNumber
<1> QED BY <1>1, <1>2, <1>3 DEF SearchIInv

LEMMA InvStarts == SearchInit => SearchIInv
<1> SUFFICES ASSUME SearchInit PROVE SearchIInv
  OBVIOUS
<1>1. start = Instant(Local(Instant(Local(after))) + 1)
  BY DEF SearchInit
<1>2. after \in Int
  BY CronSearchAssumption DEF SearchInit
<1>3. start \in Int /\ FirstTime(start) /\ (FirstTime(after) => after < start)
      /\ \A t \in Int : after < t /\ t < start => ~FirstTime(t)
  <2>1. Local(Instant(Local(after))) = Local(after)
    BY <1>2, Clocks DEF Instant, Local
  <2>2. start = Instant(Local(after) + 1)
    BY <1>1, <2>1
  <2> QED BY <1>2, <2>2, Clocks DEF FirstTime, Instant, Local
<1>4. current = start /\ found = (IF Parses(expression) THEN "searching" ELSE "none")
      /\ fields = IF Parses(expression) THEN ParseCron(expression) ELSE <<>>
  BY DEF SearchInit
<1>5. MaxDate \in Int
  <2>1. Years * MinutesPerYear \in Int
    BY Products, CronSearchAssumption
  <2> QED BY <1>3, <2>1, Clocks DEF MaxDate, Instant, Local
<1>6. Parses(expression) => fields # <<>>
  <2>1. DOMAIN ParseCron(expression) = FieldNames /\ "minutes" \in FieldNames
    BY DEF ParseCron, FieldNames
  <2>2. DOMAIN <<>> = {}
    OBVIOUS
  <2> QED BY <1>4, <2>1, <2>2
<1> QED BY <1>2, <1>3, <1>4, <1>5, <1>6 DEF SearchIInv

\* For every calendar and every two changes of the clock by an hour: the search passes no minute after
\* the given one that matches, but for a day that the hour left out ends; what it answers comes after the given
\* one, unless that is of the hour that comes twice, and None means that it has looked at all the years.
THEOREM FirstIsFound == SearchSpec => []NextIsFirst
<1>1. SearchIInv /\ [SearchNext]_searchVars => SearchIInv'
  <2> SUFFICES ASSUME SearchIInv, [SearchNext]_searchVars PROVE SearchIInv'
    OBVIOUS
  <2>1. CASE UNCHANGED searchVars
    <3>1. UNCHANGED <<expression, fields, after, start, current, found>>
      BY <2>1 DEF searchVars
    <3>2. MaxDate' = MaxDate /\ FirstTime(start)' = FirstTime(start) /\ FirstTime(current)' = FirstTime(current)
          /\ Fits(Local(current))' = Fits(Local(current))
          /\ (FirstTime(after)' <=> FirstTime(after))
          /\ \A t : FirstTime(t)' = FirstTime(t) /\ LostDay(t)' = LostDay(t) /\ Fits(Local(t))' = Fits(Local(t))
      BY <3>1 DEF MaxDate, Instant, Local, FirstTime, LostDay, Fits, Minute, Hour, DateOf, Month, WeekDay, DayNumber
    <3> QED BY <3>1, <3>2 DEF SearchIInv
  <2> QED BY <2>1, InvSkips, InvAnswers DEF SearchNext
<1>2. SearchIInv => NextIsFirst
  <2> SUFFICES ASSUME SearchIInv PROVE NextIsFirst
    OBVIOUS
  <2>1. \A t \in Int : MatchesAt(t) <=> Fits(Local(t))
    BY DEF MatchesAt, Fits
  <2>2. after \in Int /\ start \in Int /\ current \in Int
    BY DEF SearchIInv
  <2>3. ASSUME NEW t \in (after + 1)..(current - 1), FirstTime(t), ~LostDay(t) PROVE fields # <<>> /\ ~MatchesAt(t)
    <3>1. t \in Int /\ after < t /\ t < current
      BY <2>2
    <3>2. start <= t
      BY <2>2, <2>3, <3>1 DEF SearchIInv
    <3> QED BY <2>1, <2>2, <2>3, <3>1, <3>2 DEF SearchIInv
  <2>4. found = "some" => MatchesAt(current) /\ FirstTime(current) /\ current < MaxDate /\ (FirstTime(after) => after < current)
    BY <2>1, <2>2 DEF SearchIInv
  <2>5. found = "none" /\ fields # <<>> => current >= MaxDate
    BY DEF SearchIInv
  <2> QED BY <2>3, <2>4, <2>5 DEF NextIsFirst
<1> QED BY <1>1, <1>2, InvStarts, PTL DEF SearchSpec

(* Release.  A tag names a commit of its version, and what is pushed is on    *)
(* main: the steps of a run bring the manifests, the commit, the tag and main *)
(* there one after the other, and a run that fails leaves all of them so.     *)

CommitRecord == [pkg : Int, jsr : Int, bump : BOOLEAN]
Manifests == [pkg : Int, jsr : Int, docs : BOOLEAN]
ScriptSteps == {"bump", "jsr", "docs", "commit", "tag", "pushMain", "pushTag", "release"}
RunWith(notes) == [step : ScriptSteps, version : Int, dryRun : BOOLEAN, localTagExists : BOOLEAN, remoteTagExists : BOOLEAN,
                   notes : {notes}, staged : BOOLEAN]
OnMain == Range(origin) \cup ahead

RepositoryTypeOK ==
  /\ commits \in Seq(CommitRecord)
  /\ local \in Seq(Nat) /\ local # <<>> /\ Range(local) \subseteq DOMAIN commits
  /\ origin \in Seq(Nat) /\ origin # <<>> /\ Range(origin) \subseteq DOMAIN commits
  /\ work \in Manifests
\* A dry run stages nothing.
ScriptTypeOK == script = NoRun \/ (script \in RunWith(script.notes) /\ (script.staged => ~script.dryRun))
\* What jsr.json says where package.json says v.
Said(v, jsr) == jsr = v \/ HalfBumped(v)
ManifestsAgree == \A c \in DOMAIN commits : Said(commits[c].pkg, commits[c].jsr)
TagsFit == \A v \in DOMAIN localTags : localTags[v] \in DOMAIN commits /\ commits[localTags[v]].pkg = v
PushedFit == \A v \in DOMAIN remoteTags : v \in DOMAIN localTags /\ remoteTags[v] = localTags[v] /\ remoteTags[v] \in OnMain
PublishedFit == DOMAIN releases \subseteq DOMAIN remoteTags

\* What a run has done by the step it is at.
Versioned ==
  /\ script.step = "bump" => Clean
  /\ script.step = "jsr" => work.pkg = script.version
  /\ script.step \in {"docs", "commit"} => work.pkg = script.version /\ Said(script.version, work.jsr)
  /\ script.step \in {"tag", "pushMain", "pushTag", "release"} => commits[Tip(local)].pkg = script.version
Tagged ==
  /\ script.localTagExists \/ script.step \in {"pushMain", "pushTag"} => script.version \in DOMAIN localTags
  /\ script.version \in DOMAIN localTags => localTags[script.version] \in Range(local)
  /\ script.version \in DOMAIN localTags => script.localTagExists \/ script.step \in {"pushMain", "pushTag", "release"}
  /\ script.remoteTagExists \/ script.step = "release" => script.version \in DOMAIN remoteTags
MainPushed == Range(local) \subseteq OnMain \/ (script.staged /\ script.step \in {"tag", "pushMain"})
RunFits == script # NoRun /\ ~script.dryRun => Versioned /\ Tagged /\ MainPushed

ReleaseIInv ==
  RepositoryTypeOK /\ ScriptTypeOK /\ ManifestsAgree /\ TagsFit /\ PushedFit /\ PublishedFit /\ RunFits

LEMMA ReleaseInitIInv == ReleaseInit => ReleaseIInv
<1> SUFFICES ASSUME ReleaseInit PROVE ReleaseIInv
  OBVIOUS
<1>1. DOMAIN commits = 1..1 /\ commits[1] = [pkg |-> 1, jsr |-> 1, bump |-> FALSE] /\ commits \in Seq(CommitRecord)
  BY DEF ReleaseInit, CommitRecord
<1>2. Range(local) = {1} /\ Range(origin) = {1} /\ local \in Seq(Nat) /\ origin \in Seq(Nat) /\ local # <<>> /\ origin # <<>>
  BY DEF ReleaseInit, Range
<1>3. DOMAIN localTags = {} /\ DOMAIN remoteTags = {} /\ DOMAIN releases = {}
  BY DEF ReleaseInit
<1> QED BY <1>1, <1>2, <1>3
  DEF ReleaseInit, ReleaseIInv, RepositoryTypeOK, ScriptTypeOK, ManifestsAgree, Said, HalfBumped, TagsFit, PushedFit, PublishedFit, RunFits, Manifests

LEMMA AtStep ==
  ASSUME ScriptTypeOK, script.step \in ScriptSteps
  PROVE  script # NoRun /\ script \in RunWith(script.notes) /\ script.dryRun \in BOOLEAN /\ script.staged \in BOOLEAN
         /\ script.version \in Int /\ (script.staged => ~script.dryRun)
<1>1. script # NoRun
  BY DEF NoRun, ScriptSteps
<1> QED BY <1>1 DEF ScriptTypeOK, RunWith

LEMMA PrefixRange == ASSUME NEW s \in Seq(Nat), NEW t \in Seq(Nat), IsPrefix(s, t) PROVE Range(s) \subseteq Range(t)
<1> SUFFICES ASSUME NEW i \in 1..Len(s) PROVE s[i] \in Range(t)
  BY DEF Range
<1>1. Len(s) \in Nat /\ Len(t) \in Nat /\ Len(s) <= Len(t) /\ SubSeq(s, 1, Len(s)) = SubSeq(t, 1, Len(s))
  BY DEF IsPrefix
<1>2. SubSeq(s, 1, Len(s))[i] = s[i] /\ SubSeq(t, 1, Len(s))[i] = t[i]
  BY <1>1
<1>3. i \in DOMAIN t /\ s[i] = t[i]
  BY <1>1, <1>2
<1> QED BY <1>3 DEF Range

LEMMA TipOf == ASSUME NEW s \in Seq(Nat), s # <<>> PROVE Tip(s) \in Range(s) /\ Len(s) \in DOMAIN s
<1>1. Len(s) \in 1..Len(s)
  OBVIOUS
<1> QED BY <1>1 DEF Tip, Range

LEMMA Longer ==
  ASSUME NEW s \in Seq(Nat), NEW c \in Nat, NEW t, t = Append(s, c)
  PROVE  t \in Seq(Nat) /\ t # <<>> /\ Range(t) = Range(s) \cup {c} /\ Tip(t) = c
<1>1. PICK n \in Nat : n = Len(s)
  OBVIOUS
<1>2. t \in Seq(Nat) /\ Len(t) = n + 1 /\ t[n + 1] = c /\ \A i \in 1..n : t[i] = s[i]
  BY <1>1
<1>3. DOMAIN t = 1..(n + 1) /\ DOMAIN s = 1..n /\ 1..(n + 1) = 1..n \cup {n + 1}
  BY <1>1, <1>2
<1> QED BY <1>1, <1>2, <1>3 DEF Range, Tip

\* A commit more leaves the others as they were.
LEMMA Committed ==
  ASSUME RepositoryTypeOK, NEW x \in CommitRecord, commits' = Append(commits, x)
  PROVE  /\ commits' \in Seq(CommitRecord) /\ DOMAIN commits' = DOMAIN commits \cup {Fresh} /\ Fresh \in Nat
         /\ commits'[Fresh] = x /\ \A c \in DOMAIN commits : commits'[c] = commits[c]
         /\ Fresh \notin DOMAIN commits
<1>1. PICK n \in Nat : n = Len(commits) /\ commits \in Seq(CommitRecord)
  BY DEF RepositoryTypeOK
<1>2. commits' \in Seq(CommitRecord) /\ Len(commits') = n + 1 /\ commits'[n + 1] = x /\ \A i \in 1..n : commits'[i] = commits[i]
  BY <1>1
<1>3. DOMAIN commits' = 1..(n + 1) /\ DOMAIN commits = 1..n /\ 1..(n + 1) = 1..n \cup {n + 1} /\ n + 1 \notin 1..n
  BY <1>1, <1>2
<1> QED BY <1>1, <1>2, <1>3 DEF Fresh

LEMMA PreflightIInv == ASSUME ReleaseIInv, NEW v \in Versions, NEW dryRun \in BOOLEAN, Preflight(v, dryRun) PROVE ReleaseIInv'
<1>1. PICK notes : script' = [step |-> "bump", version |-> v, dryRun |-> dryRun, localTagExists |-> v \in DOMAIN localTags,
                              remoteTagExists |-> v \in DOMAIN remoteTags, notes |-> notes, staged |-> FALSE]
  BY DEF Preflight
<1>2. UNCHANGED repository /\ ahead' = ahead \cup (Range(local) \ Range(origin))
  BY DEF Preflight
<1>3. /\ script'.step = "bump" /\ script'.version = v /\ script'.dryRun = dryRun /\ script'.staged = FALSE /\ script'.notes = notes
      /\ script'.localTagExists = (v \in DOMAIN localTags) /\ script'.remoteTagExists = (v \in DOMAIN remoteTags)
  BY <1>1
<1>4. ScriptTypeOK'
  <2>1. v \in Int /\ (v \in DOMAIN localTags) \in BOOLEAN /\ (v \in DOMAIN remoteTags) \in BOOLEAN
    BY DEF Versions
  <2>2. script' \in RunWith(notes)
    BY <1>1, <2>1 DEF RunWith, ScriptSteps
  <2> QED BY <1>3, <2>2 DEF ScriptTypeOK
<1>5. OnMain \subseteq OnMain' /\ Range(local) \subseteq OnMain'
  BY <1>2 DEF OnMain, repository
<1>6. PushedFit'
  BY <1>2, <1>5 DEF ReleaseIInv, PushedFit, repository
<1>7. RunFits'
  <2> SUFFICES ASSUME ~dryRun PROVE Versioned' /\ Tagged' /\ MainPushed'
    BY <1>3 DEF RunFits
  <2>1. Clean'
    BY <1>2 DEF Preflight, repository, Clean, Tip
  <2>2. Versioned'
    BY <1>3, <2>1 DEF Versioned, Said, HalfBumped
  <2>3. Tagged'
    BY <1>2, <1>3 DEF Preflight, Tagged, repository
  <2>4. MainPushed'
    BY <1>2, <1>5 DEF MainPushed, repository
  <2> QED BY <2>2, <2>3, <2>4
<1>8. (RepositoryTypeOK /\ ManifestsAgree /\ TagsFit /\ PublishedFit)'
  BY <1>2 DEF ReleaseIInv, RepositoryTypeOK, ManifestsAgree, Said, HalfBumped, TagsFit, PublishedFit, repository
<1> QED BY <1>4, <1>6, <1>7, <1>8 DEF ReleaseIInv

\* What a step of a run keeps of the run.
LEMMA GoesTo ==
  ASSUME ScriptTypeOK, script.step \in ScriptSteps, NEW step \in ScriptSteps, Goto(step)
  PROVE  /\ ScriptTypeOK' /\ script' # NoRun /\ script'.step = step /\ script'.version = script.version /\ script'.dryRun = script.dryRun
         /\ script'.localTagExists = script.localTagExists /\ script'.remoteTagExists = script.remoteTagExists
         /\ script'.staged = script.staged /\ script'.notes = script.notes
<1>1. script \in RunWith(script.notes) /\ (script.staged => ~script.dryRun)
  BY AtStep
<1>2. script' = [script EXCEPT !.step = step]
  BY DEF Goto
<1>3. PICK notes : notes = script.notes /\ script \in RunWith(notes)
  BY <1>1
<1>4. /\ script' \in RunWith(notes) /\ script'.step = step /\ script'.version = script.version /\ script'.dryRun = script.dryRun
      /\ script'.notes = script.notes /\ script'.localTagExists = script.localTagExists
      /\ script'.remoteTagExists = script.remoteTagExists /\ script'.staged = script.staged
  BY <1>2, <1>3 DEF RunWith
<1>5. script' # NoRun
  BY <1>4 DEF NoRun, ScriptSteps
<1> QED BY <1>1, <1>3, <1>4, <1>5 DEF ScriptTypeOK

LEMMA WorksIInv ==
  ASSUME ReleaseIInv, NEW step \in {"bump", "jsr", "docs"}, NEW next \in {"jsr", "docs", "commit"},
         script.step = step, Goto(next), work' \in Manifests, UNCHANGED <<commits, local, origin, localTags, remoteTags, releases, ahead>>,
         ~script.dryRun => CASE next = "jsr" -> work'.pkg = script.version
                             [] OTHER -> work'.pkg = script.version /\ Said(script.version, work'.jsr)
  PROVE  ReleaseIInv'
<1>1. /\ ScriptTypeOK' /\ script'.step = next /\ script'.version = script.version /\ script'.dryRun = script.dryRun
      /\ script'.localTagExists = script.localTagExists /\ script'.remoteTagExists = script.remoteTagExists /\ script # NoRun
  BY GoesTo, AtStep DEF ReleaseIInv, ScriptSteps
<1>2. RunFits'
  <2> SUFFICES ASSUME ~script.dryRun PROVE Versioned' /\ Tagged' /\ MainPushed'
    BY <1>1 DEF RunFits
  <2>1. Versioned'
    BY <1>1 DEF Versioned, Said, HalfBumped
  <2>2. Tagged'
    BY <1>1 DEF ReleaseIInv, RunFits, Tagged
  <2>3. MainPushed'
    BY <1>1 DEF ReleaseIInv, RunFits, MainPushed, OnMain
  <2> QED BY <2>1, <2>2, <2>3
<1> QED BY <1>1, <1>2 DEF ReleaseIInv, RepositoryTypeOK, ManifestsAgree, Said, HalfBumped, TagsFit, PushedFit, PublishedFit, OnMain

\* Where manifests agree, the tree of a clean clone does.
LEMMA CleanAgrees == ASSUME ReleaseIInv, Clean PROVE Said(work.pkg, work.jsr) /\ work.pkg = commits[Tip(local)].pkg
<1>1. Tip(local) \in DOMAIN commits
  BY TipOf DEF ReleaseIInv, RepositoryTypeOK
<1> QED BY <1>1 DEF Clean, ReleaseIInv, ManifestsAgree, Said, HalfBumped

LEMMA BumpPackageIInv == ASSUME ReleaseIInv, BumpPackage PROVE ReleaseIInv'
<1>1. script.step = "bump" /\ UNCHANGED <<commits, local, origin, localTags, remoteTags, releases, ahead>>
  BY DEF BumpPackage, Writes
<1>2. script # NoRun /\ script.version \in Int /\ script.dryRun \in BOOLEAN /\ work \in Manifests
  BY <1>1, AtStep DEF ReleaseIInv, ScriptSteps, RepositoryTypeOK
<1>3. PICK next \in {"jsr", "docs"} : next = (IF script.version = work.pkg THEN "docs" ELSE "jsr")
  OBVIOUS
<1>4. Goto(next) /\ work' = IF script.dryRun THEN work ELSE [work EXCEPT !.pkg = script.version]
  BY <1>3 DEF BumpPackage, Writes
<1>5. work' \in Manifests /\ (~script.dryRun => work'.pkg = script.version /\ work'.jsr = work.jsr)
  BY <1>2, <1>4 DEF Manifests
<1>6. ASSUME ~script.dryRun, next = "docs" PROVE Said(script.version, work'.jsr)
  <2>1. script.version = work.pkg
    BY <1>3, <1>6
  <2>2. Said(work.pkg, work.jsr)
    BY <1>1, <1>2, <1>6, CleanAgrees DEF ReleaseIInv, RunFits, Versioned, Said, HalfBumped
  <2> QED BY <1>5, <1>6, <2>1, <2>2
<1> QED BY <1>1, <1>4, <1>5, <1>6, WorksIInv

LEMMA BumpJsrIInv == ASSUME ReleaseIInv, BumpJsr PROVE ReleaseIInv'
<1>1. script.step = "jsr" /\ Goto("docs") /\ UNCHANGED <<commits, local, origin, localTags, remoteTags, releases, ahead>>
      /\ work' = IF script.dryRun THEN work ELSE [work EXCEPT !.jsr = script.version]
  BY DEF BumpJsr, Writes
<1>2. script # NoRun /\ script.version \in Int /\ script.dryRun \in BOOLEAN /\ work \in Manifests
  BY <1>1, AtStep DEF ReleaseIInv, ScriptSteps, RepositoryTypeOK
<1>3. work' \in Manifests /\ (~script.dryRun => work'.pkg = work.pkg /\ work'.jsr = script.version)
  BY <1>1, <1>2 DEF Manifests
<1>4. ~script.dryRun => work.pkg = script.version
  BY <1>1, <1>2 DEF ReleaseIInv, RunFits, Versioned, Said, HalfBumped
<1>5. ~script.dryRun => Said(script.version, work'.jsr)
  BY <1>3 DEF Said
<1> QED BY <1>1, <1>3, <1>4, <1>5, WorksIInv

LEMMA UpdateDocsIInv == ASSUME ReleaseIInv, UpdateDocs PROVE ReleaseIInv'
<1>1. PICK changes \in BOOLEAN :
        /\ script.step = "docs" /\ Goto("commit") /\ UNCHANGED <<commits, local, origin, localTags, remoteTags, releases, ahead>>
        /\ work' = IF script.dryRun THEN work ELSE [work EXCEPT !.docs = changes]
  BY DEF UpdateDocs, Writes
<1>2. script # NoRun /\ script.dryRun \in BOOLEAN /\ work \in Manifests
  BY <1>1, AtStep DEF ReleaseIInv, ScriptSteps, RepositoryTypeOK
<1>3. work' \in Manifests /\ work'.pkg = work.pkg /\ work'.jsr = work.jsr
  BY <1>1, <1>2 DEF Manifests
<1>4. ~script.dryRun => work.pkg = script.version /\ Said(script.version, work.jsr)
  BY <1>1, <1>2 DEF ReleaseIInv, RunFits, Versioned, Said, HalfBumped
<1> QED BY <1>1, <1>3, <1>4, WorksIInv

LEMMA CommitIInv == ASSUME ReleaseIInv, Commit PROVE ReleaseIInv'
<1>1. PICK staged \in BOOLEAN : staged = (~script.dryRun /\ ~Clean)
  OBVIOUS
<1>2. /\ script.step = "commit" /\ script' = [script EXCEPT !.step = "tag", !.staged = staged]
      /\ commits' = (IF staged THEN Append(commits, [pkg |-> work.pkg, jsr |-> work.jsr, bump |-> TRUE]) ELSE commits)
      /\ local' = (IF staged THEN Append(local, Fresh) ELSE local)
      /\ work' = (IF staged THEN [work EXCEPT !.docs = FALSE] ELSE work)
      /\ UNCHANGED <<origin, localTags, remoteTags, releases, ahead>>
  BY <1>1 DEF Commit
<1>3. script # NoRun /\ script.version \in Int /\ script.dryRun \in BOOLEAN /\ script \in RunWith(script.notes) /\ work \in Manifests
  BY <1>2, AtStep DEF ReleaseIInv, ScriptSteps, RepositoryTypeOK
<1>4. /\ script'.step = "tag" /\ script'.version = script.version /\ script'.dryRun = script.dryRun /\ script'.staged = staged
      /\ script'.localTagExists = script.localTagExists /\ script'.remoteTagExists = script.remoteTagExists /\ ScriptTypeOK'
  <2>1. PICK notes : notes = script.notes /\ script \in RunWith(notes)
    BY <1>3
  <2>2. /\ script'.step = "tag" /\ script'.version = script.version /\ script'.dryRun = script.dryRun /\ script'.staged = staged
        /\ script'.localTagExists = script.localTagExists /\ script'.remoteTagExists = script.remoteTagExists
        /\ script'.notes = notes /\ script' \in RunWith(notes)
    BY <1>2, <2>1 DEF RunWith, ScriptSteps
  <2> QED BY <1>1, <2>2 DEF ScriptTypeOK
<1>5. CASE ~staged
  <2>1. UNCHANGED <<commits, local, origin, work, localTags, remoteTags, releases, ahead>>
    BY <1>2, <1>5
  <2>2. RunFits'
    <3> SUFFICES ASSUME ~script.dryRun PROVE Versioned' /\ Tagged' /\ MainPushed'
      BY <1>4 DEF RunFits
    <3>1. work.pkg = script.version /\ Tagged /\ MainPushed
      BY <1>2, <1>3 DEF ReleaseIInv, RunFits, Versioned, Said, HalfBumped
    <3>2. commits[Tip(local)].pkg = script.version
      BY <1>1, <1>5, <3>1, CleanAgrees
    <3>3. Versioned'
      BY <1>4, <2>1, <3>2 DEF Versioned, Said, HalfBumped, Tip
    <3>4. Tagged' /\ MainPushed'
      BY <1>2, <1>4, <2>1, <3>1 DEF Tagged, MainPushed, OnMain
    <3> QED BY <3>3, <3>4
  <2> QED BY <1>4, <2>1, <2>2 DEF ReleaseIInv, RepositoryTypeOK, ManifestsAgree, Said, HalfBumped, TagsFit, PushedFit, PublishedFit, OnMain
<1>6. CASE staged
  <2>1. ~script.dryRun /\ work.pkg = script.version /\ Said(script.version, work.jsr) /\ Tagged /\ MainPushed
    BY <1>1, <1>2, <1>3, <1>6 DEF ReleaseIInv, RunFits, Versioned, Said, HalfBumped
  <2>2. PICK x \in CommitRecord : x = [pkg |-> work.pkg, jsr |-> work.jsr, bump |-> TRUE]
    BY <1>3 DEF CommitRecord, Manifests
  <2>3. x.pkg = script.version /\ Said(script.version, x.jsr)
    BY <2>1, <2>2
  <2>4. commits' = Append(commits, x) /\ local' = Append(local, Fresh)
    BY <1>2, <1>6, <2>2
  <2>5. /\ commits' \in Seq(CommitRecord) /\ DOMAIN commits' = DOMAIN commits \cup {Fresh} /\ Fresh \in Nat
        /\ commits'[Fresh] = x /\ (\A c \in DOMAIN commits : commits'[c] = commits[c]) /\ Fresh \notin DOMAIN commits
    BY <2>4, Committed DEF ReleaseIInv
  <2>6. local' \in Seq(Nat) /\ local' # <<>> /\ Range(local') = Range(local) \cup {Fresh} /\ Tip(local') = Fresh
    BY <2>4, <2>5, Longer DEF ReleaseIInv, RepositoryTypeOK
  <2>7. work' \in Manifests
    BY <1>2, <1>3, <1>6 DEF Manifests
  <2>8. RepositoryTypeOK'
    BY <1>2, <2>5, <2>6, <2>7 DEF ReleaseIInv, RepositoryTypeOK
  <2>9. (ManifestsAgree /\ TagsFit)'
    <3>1. \A v, jsr : Said(v, jsr) => Said(v, jsr)'
      BY <2>5 DEF Said, HalfBumped
    <3>2. ManifestsAgree'
      BY <2>3, <2>5, <3>1 DEF ReleaseIInv, ManifestsAgree, Said, HalfBumped
    <3>3. TagsFit'
      BY <1>2, <2>5 DEF ReleaseIInv, TagsFit
    <3> QED BY <3>2, <3>3
  <2>10. (PushedFit /\ PublishedFit)'
    BY <1>2 DEF ReleaseIInv, PushedFit, PublishedFit, OnMain
  <2>11. Versioned'
    <3>1. Tip(local)' = Fresh
      BY <2>6 DEF Tip
    <3> QED BY <1>4, <2>3, <2>5, <3>1 DEF Versioned, Said, HalfBumped
  <2>12. Tagged' /\ MainPushed'
    BY <1>2, <1>4, <1>6, <2>1, <2>6 DEF Tagged, MainPushed
  <2> QED BY <1>4, <2>8, <2>9, <2>10, <2>11, <2>12 DEF ReleaseIInv, RunFits
<1> QED BY <1>5, <1>6

LEMMA TagIInv == ASSUME ReleaseIInv, Tag PROVE ReleaseIInv'
<1>1. /\ script.step = "tag" /\ Goto("pushMain") /\ UNCHANGED <<commits, local, origin, work, remoteTags, releases, ahead>>
      /\ localTags' = (IF script.localTagExists \/ script.dryRun THEN localTags ELSE Named(localTags, script.version, Tip(local)))
  BY DEF Tag
<1>2. script # NoRun /\ script.version \in Int /\ script.dryRun \in BOOLEAN
  BY <1>1, AtStep DEF ReleaseIInv, ScriptSteps
<1>3. /\ script'.step = "pushMain" /\ script'.version = script.version /\ script'.dryRun = script.dryRun /\ script'.staged = script.staged
      /\ script'.localTagExists = script.localTagExists /\ script'.remoteTagExists = script.remoteTagExists /\ ScriptTypeOK'
  BY <1>1, GoesTo DEF ReleaseIInv, ScriptSteps
<1>4. Tip(local) \in Range(local) /\ Tip(local) \in DOMAIN commits
  BY TipOf DEF ReleaseIInv, RepositoryTypeOK
<1>5. (RepositoryTypeOK /\ ManifestsAgree /\ PublishedFit)'
  BY <1>1 DEF ReleaseIInv, RepositoryTypeOK, ManifestsAgree, Said, HalfBumped, PublishedFit
<1>6. CASE localTags' = localTags /\ (script.localTagExists \/ script.dryRun)
  <2>1. (TagsFit /\ PushedFit)'
    BY <1>1, <1>6 DEF ReleaseIInv, TagsFit, PushedFit, OnMain
  <2>2. RunFits'
    <3> SUFFICES ASSUME ~script.dryRun PROVE Versioned' /\ Tagged' /\ MainPushed'
      BY <1>3 DEF RunFits
    <3>1. Versioned /\ Tagged /\ MainPushed
      BY <1>2 DEF ReleaseIInv, RunFits
    <3>2. Versioned'
      BY <1>1, <1>3, <3>1 DEF Versioned, Said, HalfBumped, Tip
    <3>3. Tagged'
      BY <1>1, <1>3, <1>6, <3>1 DEF Tagged
    <3>4. MainPushed'
      BY <1>1, <1>3, <3>1 DEF MainPushed, OnMain
    <3> QED BY <3>2, <3>3, <3>4
  <2> QED BY <1>3, <1>5, <2>1, <2>2 DEF ReleaseIInv
<1>7. CASE localTags' = Named(localTags, script.version, Tip(local)) /\ ~script.dryRun /\ ~script.localTagExists
  <2>1. Versioned /\ Tagged /\ MainPushed
    BY <1>2, <1>7 DEF ReleaseIInv, RunFits
  <2>2. /\ DOMAIN localTags' = DOMAIN localTags \cup {script.version} /\ localTags'[script.version] = Tip(local)
        /\ \A w \in DOMAIN localTags : w # script.version => localTags'[w] = localTags[w]
    BY <1>7 DEF Named
  <2>3. commits[Tip(local)].pkg = script.version
    BY <1>1, <2>1 DEF Versioned, Said, HalfBumped
  <2>4. TagsFit'
    BY <1>1, <1>4, <2>2, <2>3 DEF ReleaseIInv, TagsFit
  <2>5. PushedFit'
    <3>1. script.version \notin DOMAIN localTags
      BY <1>1, <1>7, <2>1 DEF Tagged
    <3> QED BY <1>1, <2>2, <3>1 DEF ReleaseIInv, PushedFit, OnMain
  <2>6. Versioned' /\ Tagged' /\ MainPushed'
    BY <1>1, <1>3, <1>4, <2>1, <2>2, <2>3 DEF Versioned, Said, HalfBumped, Tagged, MainPushed, OnMain, Tip
  <2> QED BY <1>3, <1>5, <2>4, <2>5, <2>6 DEF ReleaseIInv, RunFits
<1> QED BY <1>1, <1>6, <1>7

LEMMA PushMainIInv == ASSUME ReleaseIInv, PushMain PROVE ReleaseIInv'
<1>1. /\ script.step = "pushMain" /\ Goto("pushTag") /\ UNCHANGED <<commits, local, work, localTags, remoteTags, releases, ahead>>
      /\ (script.staged => IsPrefix(origin, local)) /\ origin' = (IF script.staged THEN local ELSE origin)
  BY DEF PushMain
<1>2. script # NoRun /\ script.version \in Int /\ script.dryRun \in BOOLEAN /\ script.staged \in BOOLEAN
  BY <1>1, AtStep DEF ReleaseIInv, ScriptSteps
<1>3. /\ script'.step = "pushTag" /\ script'.version = script.version /\ script'.dryRun = script.dryRun /\ script'.staged = script.staged
      /\ script'.localTagExists = script.localTagExists /\ script'.remoteTagExists = script.remoteTagExists /\ ScriptTypeOK'
  BY <1>1, GoesTo DEF ReleaseIInv, ScriptSteps
<1>4. RepositoryTypeOK'
  BY <1>1, <1>2 DEF ReleaseIInv, RepositoryTypeOK
<1>5. Range(origin) \subseteq Range(origin') /\ (script.staged => Range(local) \subseteq Range(origin'))
  BY <1>1, <1>2, PrefixRange DEF ReleaseIInv, RepositoryTypeOK
<1>6. OnMain \subseteq OnMain' /\ (script.staged => Range(local) \subseteq OnMain')
  BY <1>1, <1>5 DEF OnMain, Range
<1>7. (ManifestsAgree /\ TagsFit /\ PushedFit /\ PublishedFit)'
  BY <1>1, <1>6 DEF ReleaseIInv, ManifestsAgree, Said, HalfBumped, TagsFit, PushedFit, PublishedFit
<1>8. RunFits'
  <2> SUFFICES ASSUME ~script.dryRun PROVE Versioned' /\ Tagged' /\ MainPushed'
    BY <1>3 DEF RunFits
  <2>1. Versioned /\ Tagged /\ MainPushed
    BY <1>2 DEF ReleaseIInv, RunFits
  <2>2. Versioned' /\ Tagged'
    BY <1>1, <1>3, <2>1 DEF Versioned, Said, HalfBumped, Tagged, Tip
  <2>3. MainPushed'
    BY <1>1, <1>3, <1>6, <2>1 DEF MainPushed
  <2> QED BY <2>2, <2>3
<1> QED BY <1>3, <1>4, <1>7, <1>8 DEF ReleaseIInv

LEMMA PushTagIInv == ASSUME ReleaseIInv, PushTag PROVE ReleaseIInv'
<1>1. /\ script.step = "pushTag" /\ Goto("release") /\ UNCHANGED <<commits, local, origin, work, localTags, releases, ahead>>
      /\ remoteTags' = (IF script.remoteTagExists \/ script.dryRun THEN remoteTags
                        ELSE Named(remoteTags, script.version, localTags[script.version]))
  BY DEF PushTag
<1>2. script # NoRun /\ script.version \in Int /\ script.dryRun \in BOOLEAN
  BY <1>1, AtStep DEF ReleaseIInv, ScriptSteps
<1>3. /\ script'.step = "release" /\ script'.version = script.version /\ script'.dryRun = script.dryRun /\ script'.staged = script.staged
      /\ script'.localTagExists = script.localTagExists /\ script'.remoteTagExists = script.remoteTagExists /\ ScriptTypeOK'
  BY <1>1, GoesTo DEF ReleaseIInv, ScriptSteps
<1>4. (RepositoryTypeOK /\ ManifestsAgree /\ TagsFit)'
  BY <1>1 DEF ReleaseIInv, RepositoryTypeOK, ManifestsAgree, Said, HalfBumped, TagsFit
<1>5. ~script.dryRun => Versioned' /\ MainPushed' /\ Tagged /\ MainPushed
  <2> SUFFICES ASSUME ~script.dryRun PROVE Versioned' /\ MainPushed' /\ Tagged /\ MainPushed
    OBVIOUS
  <2>1. Versioned /\ Tagged /\ MainPushed
    BY <1>2 DEF ReleaseIInv, RunFits
  <2>2. Versioned'
    BY <1>1, <1>3, <2>1 DEF Versioned, Said, HalfBumped, Tip
  <2>3. MainPushed'
    BY <1>1, <1>3, <2>1 DEF MainPushed, OnMain
  <2> QED BY <2>1, <2>2, <2>3
<1>6. CASE remoteTags' = remoteTags /\ (script.remoteTagExists \/ script.dryRun)
  <2>1. (PushedFit /\ PublishedFit)'
    BY <1>1, <1>6 DEF ReleaseIInv, PushedFit, PublishedFit, OnMain
  <2>2. ~script.dryRun => Tagged'
    BY <1>1, <1>3, <1>5, <1>6 DEF Tagged
  <2> QED BY <1>3, <1>4, <1>5, <2>1, <2>2 DEF ReleaseIInv, RunFits
<1>7. CASE remoteTags' = Named(remoteTags, script.version, localTags[script.version]) /\ ~script.dryRun
  <2>1. /\ DOMAIN remoteTags' = DOMAIN remoteTags \cup {script.version} /\ remoteTags'[script.version] = localTags[script.version]
        /\ \A w \in DOMAIN remoteTags : w # script.version => remoteTags'[w] = remoteTags[w]
    BY <1>7 DEF Named
  <2>2. script.version \in DOMAIN localTags /\ localTags[script.version] \in OnMain
    BY <1>1, <1>5, <1>7 DEF Tagged, MainPushed
  <2>3. OnMain' = OnMain
    BY <1>1 DEF OnMain
  <2>4. PushedFit'
    BY <1>1, <2>1, <2>2, <2>3 DEF ReleaseIInv, PushedFit
  <2>5. PublishedFit'
    BY <1>1, <2>1 DEF ReleaseIInv, PublishedFit
  <2>6. Tagged'
    BY <1>1, <1>3, <1>5, <1>7, <2>1 DEF Tagged
  <2> QED BY <1>3, <1>4, <1>5, <1>7, <2>4, <2>5, <2>6 DEF ReleaseIInv, RunFits
<1> QED BY <1>1, <1>6, <1>7

LEMMA CreateReleaseIInv == ASSUME ReleaseIInv, CreateRelease PROVE ReleaseIInv'
<1>1. /\ script.step = "release" /\ script' = NoRun /\ UNCHANGED <<commits, local, origin, work, localTags, remoteTags, ahead>>
      /\ releases' = (IF script.dryRun THEN releases ELSE Named(releases, script.version, script.notes))
  BY DEF CreateRelease
<1>2. script # NoRun /\ script.dryRun \in BOOLEAN
  BY <1>1, AtStep DEF ReleaseIInv, ScriptSteps
<1>3. PublishedFit'
  <2>1. CASE releases' = releases
    BY <1>1, <2>1 DEF ReleaseIInv, PublishedFit
  <2>2. CASE releases' = Named(releases, script.version, script.notes) /\ ~script.dryRun
    <3>1. DOMAIN releases' = DOMAIN releases \cup {script.version}
      BY <2>2 DEF Named
    <3>2. script.version \in DOMAIN remoteTags
      BY <1>1, <1>2, <2>2 DEF ReleaseIInv, RunFits, Tagged
    <3> QED BY <1>1, <3>1, <3>2 DEF ReleaseIInv, PublishedFit
  <2> QED BY <1>1, <1>2, <2>1, <2>2
<1>4. ScriptTypeOK' /\ RunFits'
  BY <1>1 DEF ScriptTypeOK, RunFits
<1> QED BY <1>1, <1>3, <1>4 DEF ReleaseIInv, RepositoryTypeOK, ManifestsAgree, Said, HalfBumped, TagsFit, PushedFit, OnMain

\* Between runs nothing is said of a run: main only grows, and the clone has commits that are made.
LEMMA BetweenIInv ==
  ASSUME ReleaseIInv, script' = NoRun, UNCHANGED <<localTags, remoteTags, releases, ahead>>, RepositoryTypeOK',
         Range(origin) \subseteq Range(origin'), DOMAIN commits \subseteq DOMAIN commits',
         \A c \in DOMAIN commits : commits'[c] = commits[c],
         ManifestsAgree'
  PROVE  ReleaseIInv'
<1>1. OnMain \subseteq OnMain'
  BY DEF OnMain
<1>2. (ManifestsAgree /\ TagsFit /\ PushedFit /\ PublishedFit)'
  BY <1>1 DEF ReleaseIInv, ManifestsAgree, Said, HalfBumped, TagsFit, PushedFit, PublishedFit
<1>3. ScriptTypeOK' /\ RunFits'
  BY DEF ScriptTypeOK, RunFits
<1> QED BY <1>2, <1>3 DEF ReleaseIInv

\* A commit made by hand says in jsr.json what it says in package.json, or is half a bump.
LEMMA OwnIs ==
  ASSUME ReleaseIInv, NEW x \in ByHand, commits' = Append(commits, x)
  PROVE  /\ commits' \in Seq(CommitRecord) /\ DOMAIN commits' = DOMAIN commits \cup {Fresh} /\ Fresh \in Nat
         /\ (\A c \in DOMAIN commits : commits'[c] = commits[c]) /\ ManifestsAgree'
         /\ \A v, jsr : Said(v, jsr) => Said(v, jsr)'
<1>1. x \in CommitRecord /\ ~x.bump
  BY ByHandAssumption DEF CommitRecord
<1>2. /\ commits' \in Seq(CommitRecord) /\ DOMAIN commits' = DOMAIN commits \cup {Fresh} /\ Fresh \in Nat
      /\ commits'[Fresh] = x /\ \A c \in DOMAIN commits : commits'[c] = commits[c]
  BY <1>1, Committed DEF ReleaseIInv
<1>3. \A v, jsr : Said(v, jsr) => Said(v, jsr)'
  BY <1>2 DEF Said, HalfBumped
<1>4. Said(x.pkg, x.jsr)'
  BY <1>1, <1>2 DEF Said, HalfBumped
<1>5. ManifestsAgree'
  BY <1>2, <1>3, <1>4 DEF ReleaseIInv, ManifestsAgree, Said, HalfBumped
<1> QED BY <1>2, <1>3, <1>5

LEMMA OwnCommitIInv == ASSUME ReleaseIInv, NEW x \in ByHand, OwnCommit(x) PROVE ReleaseIInv'
<1>1. /\ script' = NoRun /\ local' = Append(local, Fresh) /\ UNCHANGED <<origin, localTags, remoteTags, releases, ahead>>
      /\ commits' = Append(commits, x) /\ work' = [pkg |-> x.pkg, jsr |-> x.jsr, docs |-> FALSE]
  BY DEF OwnCommit
<1>2. /\ commits' \in Seq(CommitRecord) /\ DOMAIN commits' = DOMAIN commits \cup {Fresh} /\ Fresh \in Nat
      /\ (\A c \in DOMAIN commits : commits'[c] = commits[c]) /\ ManifestsAgree'
  BY <1>1, OwnIs
<1>3. local' \in Seq(Nat) /\ local' # <<>> /\ Range(local') = Range(local) \cup {Fresh}
  BY <1>1, <1>2, Longer DEF ReleaseIInv, RepositoryTypeOK
<1>4. work' \in Manifests
  BY <1>1, ByHandAssumption DEF Manifests
<1>5. RepositoryTypeOK'
  BY <1>1, <1>2, <1>3, <1>4 DEF ReleaseIInv, RepositoryTypeOK
<1> QED BY <1>1, <1>2, <1>5, BetweenIInv

LEMMA OwnPushIInv == ASSUME ReleaseIInv, OwnPush PROVE ReleaseIInv'
<1>1. script' = NoRun /\ origin' = local /\ UNCHANGED <<commits, local, work, localTags, remoteTags, releases, ahead>> /\ IsPrefix(origin, local)
  BY DEF OwnPush, IsStrictPrefix
<1>2. RepositoryTypeOK'
  BY <1>1 DEF ReleaseIInv, RepositoryTypeOK
<1>3. Range(origin) \subseteq Range(origin')
  BY <1>1, PrefixRange DEF ReleaseIInv, RepositoryTypeOK
<1> QED BY <1>1, <1>2, <1>3, BetweenIInv DEF ReleaseIInv, ManifestsAgree, Said, HalfBumped

\* What another pushes is not in the clone, and a run that is under way goes on as it was.
LEMMA OtherPushIInv == ASSUME ReleaseIInv, NEW x \in ByHand, OtherPush(x) PROVE ReleaseIInv'
<1>1. /\ origin' = Append(origin, Fresh) /\ UNCHANGED <<local, work, localTags, remoteTags, releases, script, ahead>>
      /\ commits' = Append(commits, x)
  BY DEF OtherPush
<1>2. /\ commits' \in Seq(CommitRecord) /\ DOMAIN commits' = DOMAIN commits \cup {Fresh} /\ Fresh \in Nat
      /\ (\A c \in DOMAIN commits : commits'[c] = commits[c]) /\ ManifestsAgree'
      /\ \A v, jsr : Said(v, jsr) => Said(v, jsr)'
  BY <1>1, OwnIs
<1>3. origin' \in Seq(Nat) /\ origin' # <<>> /\ Range(origin') = Range(origin) \cup {Fresh}
  BY <1>1, <1>2, Longer DEF ReleaseIInv, RepositoryTypeOK
<1>4. RepositoryTypeOK'
  BY <1>1, <1>2, <1>3 DEF ReleaseIInv, RepositoryTypeOK
<1>5. OnMain \subseteq OnMain'
  BY <1>1, <1>3 DEF OnMain
<1>6. (ScriptTypeOK /\ ManifestsAgree /\ TagsFit /\ PushedFit /\ PublishedFit)'
  BY <1>1, <1>2, <1>5 DEF ReleaseIInv, ScriptTypeOK, TagsFit, PushedFit, PublishedFit
<1>7. RunFits'
  <2> SUFFICES ASSUME script # NoRun, ~script.dryRun PROVE Versioned' /\ Tagged' /\ MainPushed'
    BY <1>1 DEF RunFits
  <2>1. Versioned /\ Tagged /\ MainPushed
    BY DEF ReleaseIInv, RunFits
  <2>2. Tip(local) \in DOMAIN commits /\ Tip(local)' = Tip(local)
    BY <1>1, TipOf DEF ReleaseIInv, RepositoryTypeOK, Tip
  <2>3. commits'[Tip(local)'] = commits[Tip(local)]
    BY <1>2, <2>2
  <2>4. Clean' = Clean
    BY <1>1, <2>2, <2>3 DEF Clean
  <2>5. Versioned'
    <3>1. script' = script /\ work' = work
      BY <1>1
    <3>2. script.step \in {"docs", "commit"} => work.jsr = script.version \/ HalfBumped(script.version)
      BY <2>1 DEF Versioned, Said
    <3>3. HalfBumped(script.version) => \E c \in DOMAIN commits' : ~commits'[c].bump /\ commits'[c].pkg = script.version /\ commits'[c].jsr # script.version
      BY <1>2 DEF HalfBumped
    <3>4. script.step \in {"docs", "commit"} => Said(script.version, work.jsr)'
      BY <3>1, <3>2, <3>3 DEF Said, HalfBumped
    <3>5. script.step = "bump" => Clean'
      BY <2>1, <2>4 DEF Versioned
    <3>6. script.step \in {"tag", "pushMain", "pushTag", "release"} => (commits[Tip(local)].pkg = script.version)'
      BY <2>1, <2>2, <2>3, <3>1 DEF Versioned
    <3>7. (script.step = "jsr" => work.pkg = script.version) /\ (script.step \in {"docs", "commit"} => work.pkg = script.version)
      BY <2>1 DEF Versioned
    <3> QED BY <3>1, <3>4, <3>5, <3>6, <3>7 DEF Versioned
  <2>6. Tagged'
    BY <1>1, <2>1 DEF Tagged
  <2>7. MainPushed'
    BY <1>1, <1>5, <2>1 DEF MainPushed
  <2> QED BY <2>5, <2>6, <2>7
<1> QED BY <1>4, <1>6, <1>7 DEF ReleaseIInv

\* The tree is what the head of a branch says.
LEMMA CheckedOut ==
  ASSUME ReleaseIInv, script' = NoRun, UNCHANGED <<commits, origin, localTags, remoteTags, releases, ahead>>,
         local' = local \/ local' = origin, NEW c \in DOMAIN commits, work' = [pkg |-> commits[c].pkg, jsr |-> commits[c].jsr, docs |-> FALSE]
  PROVE  ReleaseIInv'
<1>1. commits[c] \in CommitRecord
  BY DEF ReleaseIInv, RepositoryTypeOK
<1>2. work' \in Manifests
  BY <1>1 DEF CommitRecord, Manifests
<1>3. RepositoryTypeOK'
  BY <1>2 DEF ReleaseIInv, RepositoryTypeOK
<1> QED BY <1>3, BetweenIInv DEF ReleaseIInv, ManifestsAgree, Said, HalfBumped

LEMMA ReleaseStepIInv == ReleaseIInv /\ [ReleaseNext]_releaseVars => ReleaseIInv'
<1> SUFFICES ASSUME ReleaseIInv, [ReleaseNext]_releaseVars PROVE ReleaseIInv'
  OBVIOUS
<1>1. Tip(local) \in DOMAIN commits /\ Tip(origin) \in DOMAIN commits
  BY TipOf DEF ReleaseIInv, RepositoryTypeOK
<1>2. ASSUME NEW v \in Versions, NEW dryRun \in BOOLEAN, Preflight(v, dryRun) PROVE ReleaseIInv'
  BY <1>2, PreflightIInv
<1>3. CASE Fail
  <2>1. script' = NoRun /\ UNCHANGED repository /\ UNCHANGED ahead
    BY <1>3 DEF Fail
  <2>2. RepositoryTypeOK'
    BY <2>1 DEF ReleaseIInv, RepositoryTypeOK, repository
  <2> QED BY <2>1, <2>2, BetweenIInv DEF repository, ReleaseIInv, ManifestsAgree, Said, HalfBumped
<1>4. CASE Restore
  <2>1. script' = NoRun /\ UNCHANGED <<commits, local, origin, localTags, remoteTags, releases, ahead>>
        /\ work' = [pkg |-> commits[Tip(local)].pkg, jsr |-> commits[Tip(local)].jsr, docs |-> FALSE]
    BY <1>4 DEF Restore
  <2> QED BY <1>1, <2>1, CheckedOut
<1>5. CASE Pull \/ ResetToOrigin
  <2>1. script' = NoRun /\ local' = origin /\ UNCHANGED <<commits, origin, localTags, remoteTags, releases, ahead>>
        /\ work' = [pkg |-> commits[Tip(origin)].pkg, jsr |-> commits[Tip(origin)].jsr, docs |-> FALSE]
    BY <1>5 DEF Pull, ResetToOrigin
  <2> QED BY <1>1, <2>1, CheckedOut
<1>6. CASE UNCHANGED releaseVars
  BY <1>6 DEF releaseVars, ReleaseIInv, RepositoryTypeOK, ScriptTypeOK, ManifestsAgree, Said, HalfBumped, TagsFit, PushedFit, PublishedFit, RunFits,
              Versioned, Tagged, MainPushed, OnMain, Tip, Clean
<1> QED BY <1>2, <1>3, <1>4, <1>5, <1>6, BumpPackageIInv, BumpJsrIInv, UpdateDocsIInv, CommitIInv, TagIInv, PushMainIInv, PushTagIInv,
           CreateReleaseIInv, OwnCommitIInv, OwnPushIInv, OtherPushIInv DEF ReleaseNext, ScriptNext

\* A dry run writes nothing, commits nothing, tags nothing and pushes nothing.
LEMMA DryRunChanges ==
  ASSUME ReleaseIInv, ReleaseNext, script # NoRun, script.dryRun, script' # script
  PROVE  UNCHANGED repository
<1>1. ~script.staged
  BY DEF ReleaseIInv, ScriptTypeOK
<1>2. CASE BumpPackage \/ BumpJsr \/ UpdateDocs
  BY <1>2 DEF BumpPackage, BumpJsr, UpdateDocs, Writes, repository
<1>3. CASE Commit
  BY <1>3 DEF Commit, repository
<1>4. CASE Tag \/ PushTag
  BY <1>4 DEF Tag, PushTag, repository
<1>5. CASE PushMain
  BY <1>1, <1>5 DEF PushMain, repository
<1>6. CASE CreateRelease \/ Fail
  BY <1>6 DEF CreateRelease, Fail, repository
<1>7. ASSUME NEW v \in Versions, NEW dryRun \in BOOLEAN, Preflight(v, dryRun) PROVE FALSE
  BY <1>7 DEF Preflight
<1> QED BY <1>2, <1>3, <1>4, <1>5, <1>6, <1>7
  DEF ReleaseNext, ScriptNext, Restore, OwnCommit, OwnPush, OtherPush, Pull, ResetToOrigin

\* Whatever runs fail and are started again, and whatever commits are made by hand and pushed,
\* the tag of a published version is on GitHub and names a commit whose package.json says that
\* version, which is on main or was ahead of it before the run.  Its jsr.json says it too, unless
\* a commit made by hand has put the version into package.json alone.  A dry run changes nothing.
THEOREM ReleaseKeepsItsWord == ReleaseSpec => ReleaseHolds
<1>1. ReleaseIInv => \A v \in DOMAIN releases : IsWhole(v)
  <2> SUFFICES ASSUME ReleaseIInv, NEW v \in DOMAIN releases
               PROVE  /\ v \in DOMAIN remoteTags /\ commits[remoteTags[v]].pkg = v
                      /\ Said(v, commits[remoteTags[v]].jsr)
                      /\ remoteTags[v] \in OnMain
    BY DEF IsWhole, OnMain, Said
  <2>1. v \in DOMAIN remoteTags
    BY DEF ReleaseIInv, PublishedFit
  <2>2. v \in DOMAIN localTags /\ remoteTags[v] = localTags[v] /\ remoteTags[v] \in OnMain
    BY <2>1 DEF ReleaseIInv, PushedFit
  <2>3. localTags[v] \in DOMAIN commits /\ commits[localTags[v]].pkg = v
    BY <2>2 DEF ReleaseIInv, TagsFit
  <2>4. Said(v, commits[localTags[v]].jsr)
    BY <2>3 DEF ReleaseIInv, ManifestsAgree
  <2> QED BY <2>1, <2>2, <2>3, <2>4
<1>2. ReleaseIInv /\ [ReleaseNext]_releaseVars => [script # NoRun /\ script.dryRun /\ script' # script => UNCHANGED repository]_releaseVars
  BY DryRunChanges
<1> QED BY <1>1, <1>2, ReleaseInitIInv, ReleaseStepIInv, PTL DEF ReleaseSpec, ReleaseHolds, DryRunChangesNothing

(* Net.  What a call is told depends on what was read before it:           *)
(* ReceivesAreOrdered is not inductive, as it says nothing of the chunks   *)
(* that wait, nor how many have been read.  ChunksInLine places the chunks *)
(* that wait after those that were told, and DenoIsExact counts: on Deno a *)
(* chunk waits only while no call does, and each that was read was told.   *)

Answers == {Unsettled, NetError} \cup {ChunkOf(n) : n \in Nat}
Calls == [read : Nat, closed : BOOLEAN, answer : Answers]
\* The number of chunks that have been read.
Seen == arrived - Len(waiting)

\* What a connection holds, each chunk that waits having come.
NetTypeOK ==
  /\ netRuntime \in {"deno", "node"}
  /\ arrived \in Nat /\ waiting \in Seq(Nat) /\ receives \in Seq(Calls)
  /\ Len(waiting) <= arrived
  /\ connects = "none" => link = "none"

\* The chunks that wait are the last that came, and no call was told of one that had not
\* been read, or that had been read before it was made.
ChunksInLine ==
  /\ \A i \in DOMAIN waiting : waiting[i] = Seen + i
  /\ \A c \in DOMAIN receives : receives[c].read <= Seen
  /\ \A c \in Told : receives[c].read < ChunkTo(c) /\ ChunkTo(c) <= Seen

\* Deno: a chunk waits only while no call does, and every one that was read was told.
DenoIsExact ==
  netRuntime = "deno" =>
    /\ PendingCalls # {} => waiting = <<>> /\ link # "closed"
    /\ Cardinality(Told) <= Seen
    /\ link # "closed" \/ waiting # <<>> => Cardinality(Told) = Seen

NetIInv == NetTypeOK /\ ChunksInLine /\ DenoIsExact /\ ReceivesAreOrdered

\* A chunk, a rejection and no answer yet are told apart.
LEMMA AnswersApart ==
  /\ Unsettled # NetError
  /\ "ok" \notin DOMAIN Unsettled /\ "ok" \notin DOMAIN NetError
  /\ \A n : "ok" \in DOMAIN ChunkOf(n) /\ ChunkOf(n).ok = n /\ ChunkOf(n) # Unsettled /\ ChunkOf(n) # NetError
  <1>1. DOMAIN Unsettled = {"pending"} /\ DOMAIN NetError = {"err"} /\ \A n : DOMAIN ChunkOf(n) = {"ok"}
        /\ ChunkOf(n).ok = n
    BY DEF Unsettled, NetError, ChunkOf
  <1>2. "pending" # "err" /\ "pending" # "ok" /\ "err" # "ok"
    OBVIOUS
  <1> QED BY <1>1, <1>2

\* A call that was told of a chunk waits no more; they are finitely many.
LEMMA ToldOrPending ==
  ASSUME receives \in Seq(Calls)
  PROVE  /\ Told \cap PendingCalls = {}
         /\ Told \subseteq 1..Len(receives) /\ PendingCalls \subseteq 1..Len(receives)
         /\ IsFiniteSet(Told)
         /\ \A c \in Told : ChunkTo(c) \in Nat
  <1>1. DOMAIN receives = 1..Len(receives) /\ Len(receives) \in Nat
        /\ \A c \in DOMAIN receives : receives[c].answer \in Answers
    <2>1. DOMAIN receives = 1..Len(receives) /\ Len(receives) \in Nat
          /\ \A c \in DOMAIN receives : receives[c] \in Calls
      OBVIOUS
    <2>2. \A call \in Calls : call.answer \in Answers
      BY DEF Calls
    <2> QED BY <2>1, <2>2
  <1>2. Told \cap PendingCalls = {}
    <2> SUFFICES ASSUME NEW c \in Told, c \in PendingCalls PROVE FALSE
      OBVIOUS
    <2>1. "ok" \in DOMAIN receives[c].answer /\ receives[c].answer = Unsettled
      BY DEF Told, PendingCalls
    <2> QED BY <2>1, AnswersApart
  <1>3. Told \subseteq 1..Len(receives) /\ PendingCalls \subseteq 1..Len(receives)
    BY <1>1 DEF Told, PendingCalls
  <1>4. IsFiniteSet(Told)
    <2>1. IsFiniteSet(1..Len(receives))
      BY <1>1, FS_Interval
    <2> QED BY <1>3, <2>1, FS_Subset
  <1>5. ASSUME NEW c \in Told PROVE ChunkTo(c) \in Nat
    <2>1. receives[c].answer \in Answers /\ "ok" \in DOMAIN receives[c].answer
      BY <1>1 DEF Told
    <2>2. PICK n \in Nat : receives[c].answer = ChunkOf(n)
      BY <2>1, AnswersApart DEF Answers
    <2> QED BY <2>2, AnswersApart DEF ChunkTo
  <1> QED BY <1>2, <1>3, <1>4, <1>5

\* What settling some of the calls changes of them.
LEMMA Settled ==
  ASSUME receives \in Seq(Calls), NEW cs, cs \subseteq DOMAIN receives, NEW a \in Answers,
         receives' = Settle(cs, a)
  PROVE  /\ receives' \in Seq(Calls) /\ Len(receives') = Len(receives) /\ DOMAIN receives' = DOMAIN receives
         /\ \A c \in DOMAIN receives :
              /\ receives'[c].read = receives[c].read /\ receives'[c].closed = receives[c].closed
              /\ receives'[c].answer = IF c \in cs THEN a ELSE receives[c].answer
  <1>1. DOMAIN receives = 1..Len(receives) /\ Len(receives) \in Nat
    OBVIOUS
  <1>2. ASSUME NEW c \in DOMAIN receives
        PROVE  /\ receives[c] \in Calls
               /\ [receives[c] EXCEPT !.answer = a] \in Calls
               /\ [receives[c] EXCEPT !.answer = a].read = receives[c].read
               /\ [receives[c] EXCEPT !.answer = a].closed = receives[c].closed
               /\ [receives[c] EXCEPT !.answer = a].answer = a
    <2>1. receives[c] \in Calls
      BY <1>1, <1>2
    <2>2. receives[c] \in [read : Nat, closed : BOOLEAN, answer : Answers]
      BY <2>1 DEF Calls
    <2>3. [receives[c] EXCEPT !.answer = a] = [read |-> receives[c].read, closed |-> receives[c].closed, answer |-> a]
      BY <2>2
    <2> QED BY <2>2, <2>3 DEF Calls
  <1>3. receives' = [c \in DOMAIN receives |-> IF c \in cs THEN [receives[c] EXCEPT !.answer = a] ELSE receives[c]]
    BY DEF Settle
  <1>4. DOMAIN receives' = 1..Len(receives) /\ \A c \in DOMAIN receives : receives'[c] \in Calls
    BY <1>1, <1>2, <1>3
  <1>5. receives' \in Seq(Calls) /\ Len(receives') = Len(receives)
    <2>1. receives' \in [1..Len(receives) -> Calls]
      BY <1>1, <1>3, <1>4
    <2> QED BY <1>1, <2>1
  <1> QED BY <1>1, <1>2, <1>3, <1>5

\* Calls that are told of chunk n.
LEMMA TellSome ==
  ASSUME receives \in Seq(Calls), NEW cs, cs \subseteq PendingCalls, NEW n \in Nat,
         receives' = Settle(cs, ChunkOf(n))
  PROVE  /\ Told' = Told \cup cs /\ PendingCalls' = PendingCalls \ cs
         /\ \A c \in Told : ChunkTo(c)' = ChunkTo(c)
         /\ \A c \in cs : ChunkTo(c)' = n
  <1>1. ChunkOf(n) \in Answers /\ cs \subseteq DOMAIN receives
    BY DEF Answers, PendingCalls
  <1>2. DOMAIN receives' = DOMAIN receives
        /\ \A c \in DOMAIN receives : receives'[c].answer = IF c \in cs THEN ChunkOf(n) ELSE receives[c].answer
    BY <1>1, Settled
  <1>3. Told' = {c \in DOMAIN receives' : "ok" \in DOMAIN receives'[c].answer}
        /\ PendingCalls' = {c \in DOMAIN receives' : receives'[c].answer = Unsettled}
    BY DEF Told, PendingCalls, Unsettled
  <1>4. Told \cap cs = {}
    BY ToldOrPending
  <1>5. Told' = Told \cup cs
    BY <1>1, <1>2, <1>3, AnswersApart DEF Told
  <1>6. PendingCalls' = PendingCalls \ cs
    BY <1>1, <1>2, <1>3, AnswersApart DEF PendingCalls
  <1>7. \A c \in Told : ChunkTo(c)' = ChunkTo(c)
    BY <1>2, <1>4 DEF Told, ChunkTo
  <1>8. \A c \in cs : ChunkTo(c)' = n
    BY <1>1, <1>2, AnswersApart DEF ChunkTo
  <1> QED BY <1>5, <1>6, <1>7, <1>8

\* All the calls that wait are rejected.
LEMMA RejectAll ==
  ASSUME receives \in Seq(Calls), receives' = Settle(PendingCalls, NetError)
  PROVE  /\ Told' = Told /\ PendingCalls' = {}
         /\ \A c \in Told : ChunkTo(c)' = ChunkTo(c)
  <1>1. NetError \in Answers /\ PendingCalls \subseteq DOMAIN receives
    BY DEF Answers, PendingCalls
  <1>2. DOMAIN receives' = DOMAIN receives
        /\ \A c \in DOMAIN receives : receives'[c].answer =
             IF c \in PendingCalls THEN NetError ELSE receives[c].answer
    BY <1>1, Settled
  <1>3. Told' = {c \in DOMAIN receives' : "ok" \in DOMAIN receives'[c].answer}
        /\ PendingCalls' = {c \in DOMAIN receives' : receives'[c].answer = Unsettled}
    BY DEF Told, PendingCalls, Unsettled
  <1>4. Told \cap PendingCalls = {}
    BY ToldOrPending
  <1>5. Told' = Told
    BY <1>2, <1>3, <1>4, AnswersApart DEF Told
  <1>6. PendingCalls' = {}
    BY <1>2, <1>3, AnswersApart DEF PendingCalls
  <1>7. \A c \in Told : ChunkTo(c)' = ChunkTo(c)
    BY <1>2, <1>4 DEF Told, ChunkTo
  <1> QED BY <1>5, <1>6, <1>7

\* One more call.
LEMMA CallMore ==
  ASSUME receives \in Seq(Calls), NEW call \in Calls, receives' = Append(receives, call)
  PROVE  LET m == Len(receives) + 1
         IN  /\ receives' \in Seq(Calls) /\ m \notin DOMAIN receives /\ DOMAIN receives' = DOMAIN receives \cup {m}
             /\ receives'[m] = call /\ \A c \in DOMAIN receives : receives'[c] = receives[c]
             /\ Told' = IF "ok" \in DOMAIN call.answer THEN Told \cup {m} ELSE Told
             /\ PendingCalls' = IF call.answer = Unsettled THEN PendingCalls \cup {m} ELSE PendingCalls
             /\ \A c \in Told : ChunkTo(c)' = ChunkTo(c)
  <1> DEFINE m == Len(receives) + 1
  <1>1. receives' \in Seq(Calls) /\ Len(receives) \in Nat /\ DOMAIN receives = 1..Len(receives)
        /\ DOMAIN receives' = 1..m
    OBVIOUS
  <1>2. m \notin DOMAIN receives /\ DOMAIN receives' = DOMAIN receives \cup {m}
    BY <1>1
  <1>3. receives'[m] = call /\ \A c \in DOMAIN receives : receives'[c] = receives[c]
    OBVIOUS
  <1> HIDE DEF m
  <1>4. Told' = {c \in DOMAIN receives' : "ok" \in DOMAIN receives'[c].answer}
        /\ PendingCalls' = {c \in DOMAIN receives' : receives'[c].answer = Unsettled}
    BY DEF Told, PendingCalls, Unsettled
  <1>5. Told' = IF "ok" \in DOMAIN call.answer THEN Told \cup {m} ELSE Told
    BY <1>2, <1>3, <1>4 DEF Told
  <1>6. PendingCalls' = IF call.answer = Unsettled THEN PendingCalls \cup {m} ELSE PendingCalls
    BY <1>2, <1>3, <1>4 DEF PendingCalls
  <1>7. \A c \in Told : ChunkTo(c)' = ChunkTo(c)
    BY <1>3 DEF Told, ChunkTo
  <1> QED BY <1>1, <1>2, <1>3, <1>5, <1>6, <1>7 DEF m

LEMMA NetInitIInv == NetInit => NetIInv
  <1> SUFFICES ASSUME NetInit PROVE NetIInv
    OBVIOUS
  <1>1. Told = {} /\ PendingCalls = {} /\ Seen = 0 /\ Cardinality(Told) = 0
    <2>1. DOMAIN receives = {} /\ arrived = 0 /\ Len(waiting) = 0
      BY DEF NetInit
    <2>2. Told = {} /\ PendingCalls = {} /\ Seen = 0
      BY <2>1 DEF Told, PendingCalls, Seen
    <2> QED BY <2>2, FS_EmptySet
  <1>2. NetTypeOK
    BY DEF NetInit, NetTypeOK
  <1>3. ChunksInLine /\ DenoIsExact
    BY <1>1 DEF NetInit, ChunksInLine, DenoIsExact
  <1>4. ReceivesAreOrdered
    BY <1>1 DEF NetInit, ReceivesAreOrdered
  <1> QED BY <1>2, <1>3, <1>4 DEF NetIInv

LEMMA ConnectNetIInv ==
  ASSUME NetIInv, NEW available, NEW accepted, Connect(available, accepted)
  PROVE  NetIInv'
  <1>1. link # "closed" /\ link' # "closed" /\ UNCHANGED <<netRuntime, arrived, waiting, receives>>
        /\ connects' # "none"
    BY DEF NetIInv, NetTypeOK, Connect
  <1>2. Told' = Told /\ PendingCalls' = PendingCalls /\ Seen' = Seen /\ \A c : ChunkTo(c)' = ChunkTo(c)
    BY <1>1 DEF Told, PendingCalls, Unsettled, Seen, ChunkTo
  <1>3. NetTypeOK'
    BY <1>1 DEF NetIInv, NetTypeOK
  <1>4. ChunksInLine'
    BY <1>1, <1>2 DEF NetIInv, ChunksInLine
  <1>5. DenoIsExact'
    BY <1>1, <1>2 DEF NetIInv, DenoIsExact
  <1>6. ReceivesAreOrdered'
    BY <1>1, <1>2 DEF NetIInv, ReceivesAreOrdered
  <1> QED BY <1>3, <1>4, <1>5, <1>6 DEF NetIInv

\* The chunk after those that were seen is told to one call more: on Deno, none is left out.
LEMMA NextChunk ==
  ASSUME NetIInv, netRuntime = "deno", Cardinality(Told) = Seen, NEW T, NEW m, m \notin Told, T = Told \cup {m},
         NEW f, \A c \in Told : f[c] = ChunkTo(c), f[m] = Seen + 1
  PROVE  Cardinality(T) = Seen + 1 /\ {f[c] : c \in T} = 1..Cardinality(T)
  <1>1. receives \in Seq(Calls) /\ Seen \in Nat
    BY DEF NetIInv, NetTypeOK, Seen
  <1>2. IsFiniteSet(Told) /\ {ChunkTo(c) : c \in Told} = 1..Seen
    BY <1>1, ToldOrPending DEF NetIInv, ReceivesAreOrdered
  <1>3. Cardinality(T) = Seen + 1
    BY <1>2, FS_AddElement
  <1>4. {f[c] : c \in T} = {ChunkTo(c) : c \in Told} \cup {Seen + 1}
    OBVIOUS
  <1>5. 1..(Seen + 1) = (1..Seen) \cup {Seen + 1}
    BY <1>1
  <1> QED BY <1>2, <1>3, <1>4, <1>5

\* The chunk after those that were seen is told to some of the calls that wait, none of which
\* is older than they are.
LEMMA TellNext ==
  ASSUME NetIInv, NEW cs, cs \subseteq PendingCalls, \A c \in cs, d \in PendingCalls \ cs : d > c,
         receives' = Settle(cs, ChunkOf(Seen + 1)), Seen' = Seen + 1, netRuntime' = netRuntime,
         netRuntime = "node" \/ \E c : cs = {c}
  PROVE  /\ receives' \in Seq(Calls)
         /\ \A c \in DOMAIN receives' : receives'[c].read <= Seen'
         /\ \A c \in Told' : receives'[c].read < ChunkTo(c)' /\ ChunkTo(c)' <= Seen'
         /\ \A c, d \in Told' : c < d => ChunkTo(c)' <= ChunkTo(d)'
         /\ \A c, d \in Told' : c < d /\ ChunkTo(c)' = ChunkTo(d)'
              => netRuntime' = "node" /\ receives'[d].read < ChunkTo(c)'
         /\ \A c \in Told', d \in PendingCalls' : d > c
  <1>1. receives \in Seq(Calls) /\ Seen \in Nat /\ ChunkOf(Seen + 1) \in Answers /\ cs \subseteq DOMAIN receives
    BY DEF NetIInv, NetTypeOK, Seen, Answers, PendingCalls
  <1>2. /\ receives' \in Seq(Calls) /\ DOMAIN receives' = DOMAIN receives
        /\ \A c \in DOMAIN receives : receives'[c].read = receives[c].read
    BY <1>1, Settled
  <1>3. /\ Told' = Told \cup cs /\ PendingCalls' = PendingCalls \ cs
        /\ (\A c \in Told : ChunkTo(c)' = ChunkTo(c)) /\ \A c \in cs : ChunkTo(c)' = Seen + 1
    <2>1. Seen + 1 \in Nat
      BY <1>1
    <2> QED BY <1>1, <2>1, TellSome
  <1>4. /\ DOMAIN receives = 1..Len(receives) /\ Len(receives) \in Nat /\ Told \cap PendingCalls = {}
        /\ Told \subseteq DOMAIN receives /\ PendingCalls \subseteq DOMAIN receives
           /\ \A c \in Told : ChunkTo(c) \in Nat
    BY <1>1, ToldOrPending
  <1>5. \A c \in DOMAIN receives : receives[c].read \in Nat /\ receives[c].read <= Seen
    <2>1. \A c \in DOMAIN receives : receives[c] \in Calls
      BY <1>1
    <2> QED BY <2>1 DEF NetIInv, ChunksInLine, Calls
  <1>6. \A c \in Told : ChunkTo(c)' = ChunkTo(c) /\ ChunkTo(c) <= Seen
        /\ receives'[c].read = receives[c].read /\ receives[c].read < ChunkTo(c)
    BY <1>2, <1>3, <1>4 DEF NetIInv, ChunksInLine
  <1>7. \A c \in cs : ChunkTo(c)' = Seen + 1 /\ receives'[c].read <= Seen /\ receives'[c].read \in Nat
    BY <1>1, <1>2, <1>3, <1>5
  <1>8. \A c \in DOMAIN receives' : receives'[c].read <= Seen'
    BY <1>1, <1>2, <1>5
  <1>9. \A c \in Told' : receives'[c].read < ChunkTo(c)' /\ ChunkTo(c)' <= Seen'
    <2> SUFFICES ASSUME NEW c \in Told' PROVE receives'[c].read < ChunkTo(c)' /\ ChunkTo(c)' <= Seen'
      OBVIOUS
    <2>1. CASE c \in Told
      BY <1>1, <1>4, <1>6, <2>1
    <2>2. CASE c \in cs
      BY <1>1, <1>7, <2>2
    <2> QED BY <1>3, <2>1, <2>2
  <1>10. \A c \in Told, d \in cs : c < d
    BY DEF NetIInv, ReceivesAreOrdered
  <1>11. \A c, d \in Told' : c < d => ChunkTo(c)' <= ChunkTo(d)'
    <2> SUFFICES ASSUME NEW c \in Told', NEW d \in Told', c < d PROVE ChunkTo(c)' <= ChunkTo(d)'
      OBVIOUS
    <2>1. CASE c \in Told /\ d \in Told
      BY <1>6, <2>1 DEF NetIInv, ReceivesAreOrdered
    <2>2. CASE c \in Told /\ d \in cs
      BY <1>1, <1>4, <1>6, <1>7, <2>2
    <2>3. CASE c \in cs /\ d \in cs
      BY <1>1, <1>7, <2>3
    <2>4. CASE c \in cs /\ d \in Told
      BY <1>4, <1>10, <2>4
    <2> QED BY <1>3, <2>1, <2>2, <2>3, <2>4
  <1>12. \A c, d \in Told' : c < d /\ ChunkTo(c)' = ChunkTo(d)'
           => netRuntime' = "node" /\ receives'[d].read < ChunkTo(c)'
    <2> SUFFICES ASSUME NEW c \in Told', NEW d \in Told', c < d, ChunkTo(c)' = ChunkTo(d)'
                 PROVE  netRuntime' = "node" /\ receives'[d].read < ChunkTo(c)'
      OBVIOUS
    <2>1. CASE c \in Told /\ d \in Told
      BY <1>6, <2>1 DEF NetIInv, ReceivesAreOrdered
    <2>2. CASE c \in Told /\ d \in cs
      BY <1>1, <1>4, <1>6, <1>7, <2>2
    <2>3. CASE c \in cs /\ d \in cs
      <3>1. netRuntime = "node"
        BY <1>1, <1>4, <2>3
      <3>2. ChunkTo(c)' = Seen + 1 /\ receives'[d].read <= Seen /\ receives'[d].read \in Nat
        BY <1>7, <2>3
      <3> QED BY <1>1, <3>1, <3>2
    <2>4. CASE c \in cs /\ d \in Told
      BY <1>4, <1>10, <2>4
    <2> QED BY <1>3, <2>1, <2>2, <2>3, <2>4
  <1>13. \A c \in Told', d \in PendingCalls' : d > c
    BY <1>3 DEF NetIInv, ReceivesAreOrdered
  <1> QED BY <1>2, <1>8, <1>9, <1>11, <1>12, <1>13

LEMMA ReceiveNetIInv ==
  ASSUME NetIInv, Receive
  PROVE  NetIInv'
  <1> DEFINE m == Len(receives) + 1
             answer == IF netRuntime = "deno"
                       THEN IF waiting # <<>> THEN ChunkOf(Head(waiting))
                            ELSE IF link = "closed" THEN NetError ELSE Unsettled
                       ELSE Unsettled
             call == [read |-> Seen, closed |-> link = "closed", answer |-> answer]
             reads == netRuntime = "deno" /\ waiting # <<>>
  <1>1. receives \in Seq(Calls) /\ Seen \in Nat /\ arrived \in Nat /\ waiting \in Seq(Nat) /\ connects = "Ok"
    BY DEF NetIInv, NetTypeOK, Seen, Receive
  <1>2. UNCHANGED <<netRuntime, link, connects, arrived>> /\ receives' = Append(receives, call)
        /\ waiting' = IF reads THEN Tail(waiting) ELSE waiting
    BY <1>1 DEF Receive, Seen
  <1>3. reads => Len(waiting) > 0 /\ Len(Tail(waiting)) = Len(waiting) - 1 /\ Tail(waiting) \in Seq(Nat)
        /\ 1 \in DOMAIN waiting
                 /\ DOMAIN Tail(waiting) = 1..(Len(waiting) - 1) /\ Head(waiting) = waiting[1]
                    /\ Head(waiting) \in Nat
                 /\ \A i \in DOMAIN Tail(waiting) : i + 1 \in DOMAIN waiting /\ Tail(waiting)[i] = waiting[i + 1]
    BY <1>1
  <1>4. waiting' \in Seq(Nat) /\ Seen' = (IF reads THEN Seen + 1 ELSE Seen) /\ Len(waiting') <= arrived'
    BY <1>1, <1>2, <1>3 DEF Seen, NetIInv, NetTypeOK
  <1>5. \A i \in DOMAIN waiting' : waiting'[i] = Seen' + i
    <2>1. \A i \in DOMAIN waiting : waiting[i] = Seen + i
      BY DEF NetIInv, ChunksInLine
    <2>2. CASE reads
      BY <1>1, <1>2, <1>3, <1>4, <2>1, <2>2
    <2>3. CASE ~reads
      BY <1>2, <1>4, <2>1, <2>3
    <2> QED BY <2>2, <2>3
  <1>6. reads => Head(waiting) = Seen + 1
    BY <1>1, <1>3 DEF NetIInv, ChunksInLine
  <1>7. call \in Calls /\ call.read = Seen /\ call.answer = answer
    BY <1>1, <1>3 DEF Calls, Answers
  <1>8. /\ receives' \in Seq(Calls) /\ m \notin DOMAIN receives /\ DOMAIN receives' = DOMAIN receives \cup {m}
        /\ receives'[m] = call /\ \A c \in DOMAIN receives : receives'[c] = receives[c]
        /\ Told' = IF "ok" \in DOMAIN call.answer THEN Told \cup {m} ELSE Told
        /\ PendingCalls' = IF call.answer = Unsettled THEN PendingCalls \cup {m} ELSE PendingCalls
        /\ \A c \in Told : ChunkTo(c)' = ChunkTo(c)
    <2> HIDE DEF call
    <2> QED BY <1>1, <1>2, <1>7, CallMore
  <1>9. DOMAIN receives = 1..Len(receives) /\ Len(receives) \in Nat /\ Told \subseteq DOMAIN receives
        /\ PendingCalls \subseteq DOMAIN receives
        /\ (\A c \in DOMAIN receives : m > c) /\ m \notin Told /\ m \notin PendingCalls
           /\ \A c \in Told : ChunkTo(c) \in Nat
    BY <1>1, ToldOrPending
  <1>10. ("ok" \in DOMAIN answer <=> reads) /\ (reads => answer.ok = Seen + 1)
         /\ (answer = Unsettled <=> netRuntime # "deno" \/ (waiting = <<>> /\ link # "closed"))
    BY <1>6, AnswersApart
  <1>11. (reads => Told' = Told \cup {m} /\ receives'[m].answer.ok = Seen + 1) /\ (~reads => Told' = Told)
         /\ receives'[m].read = Seen
    BY <1>7, <1>8, <1>10
  <1>12. PendingCalls' = IF netRuntime # "deno" \/ (waiting = <<>> /\ link # "closed")
                        THEN PendingCalls \cup {m} ELSE PendingCalls
    BY <1>7, <1>8, <1>10
  <1>13. \A c \in Told' : ChunkTo(c)' = receives'[c].answer.ok
    BY DEF ChunkTo
  <1>14. \A c \in Told : receives'[c].answer.ok = ChunkTo(c) /\ ChunkTo(c) <= Seen /\ receives[c].read < ChunkTo(c)
    BY <1>8, <1>9 DEF NetIInv, ChunksInLine, ChunkTo
  <1>15. \A c \in DOMAIN receives : receives[c].read <= Seen /\ receives'[c].read = receives[c].read
         /\ receives[c].read \in Nat
    <2>1. \A c \in DOMAIN receives : receives[c] \in Calls
      BY <1>1
    <2> QED BY <1>8, <2>1 DEF NetIInv, ChunksInLine, Calls
  <1>17. \A c \in Told' :
           \/ /\ c \in Told /\ c \in DOMAIN receives /\ ChunkTo(c)' = ChunkTo(c) /\ ChunkTo(c) \in Nat
                 /\ ChunkTo(c) <= Seen /\ m > c
              /\ receives'[c].read = receives[c].read /\ receives[c].read \in Nat /\ receives[c].read < ChunkTo(c)
           \/ reads /\ c = m /\ ChunkTo(c)' = Seen + 1 /\ receives'[c].read = Seen
    <2> SUFFICES ASSUME NEW c \in Told', c \notin Told PROVE reads /\ c = m
      BY <1>9, <1>11, <1>13, <1>14, <1>15
    <2> QED BY <1>11
  <1>16. receives'[m].closed = (link = "closed")
    BY <1>8
  <1> HIDE DEF answer, call
  <1>20. NetTypeOK'
    BY <1>1, <1>2, <1>4, <1>8 DEF NetIInv, NetTypeOK
  <1>21. ChunksInLine'
    <2>1. \A c \in DOMAIN receives' : receives'[c].read <= Seen'
      BY <1>1, <1>4, <1>8, <1>11, <1>15
    <2>2. \A c \in Told' : receives'[c].read < ChunkTo(c)' /\ ChunkTo(c)' <= Seen'
      <3> SUFFICES ASSUME NEW c \in Told' PROVE receives'[c].read < ChunkTo(c)' /\ ChunkTo(c)' <= Seen'
        OBVIOUS
      <3>1. CASE c \in Told
        BY <1>1, <1>4, <1>9, <1>17, <3>1
      <3>2. CASE c \notin Told
        BY <1>1, <1>4, <1>17, <3>2
      <3> QED BY <3>1, <3>2
    <2> QED BY <1>5, <2>1, <2>2 DEF ChunksInLine
  <1>22. netRuntime = "deno" => (reads => Cardinality(Told) = Seen /\ PendingCalls = {})
    BY DEF NetIInv, DenoIsExact
  <1>23. reads => Cardinality(Told') = Seen + 1 /\ {receives'[c].answer.ok : c \in Told'} = 1..Cardinality(Told')
    <2> SUFFICES ASSUME reads
                 PROVE  Cardinality(Told') = Seen + 1
                        /\ {receives'[c].answer.ok : c \in Told'} = 1..Cardinality(Told')
      OBVIOUS
    <2> DEFINE f == [c \in Told' |-> receives'[c].answer.ok]
    <2>1. Told' = Told \cup {m} /\ m \notin Told /\ Cardinality(Told) = Seen
      BY <1>9, <1>11, <1>22
    <2>2. (\A c \in Told : f[c] = ChunkTo(c)) /\ f[m] = Seen + 1
      BY <1>11, <1>14, <2>1
    <2>3. {f[c] : c \in Told'} = {receives'[c].answer.ok : c \in Told'}
      OBVIOUS
    <2> HIDE DEF f, m
    <2>4. Cardinality(Told') = Seen + 1 /\ {f[c] : c \in Told'} = 1..Cardinality(Told')
      BY <2>1, <2>2, NextChunk
    <2> QED BY <2>3, <2>4
  <1>24. DenoIsExact'
    BY <1>1, <1>2, <1>4, <1>11, <1>12, <1>22, <1>23 DEF NetIInv, DenoIsExact
  <1>25. ReceivesAreOrdered'
    <2>1. \A c, d \in Told' : c < d => ChunkTo(c)' <= ChunkTo(d)'
      <3> SUFFICES ASSUME NEW c \in Told', NEW d \in Told', c < d PROVE ChunkTo(c)' <= ChunkTo(d)'
        OBVIOUS
      <3>1. CASE c \in Told /\ d \in Told
        BY <1>9, <1>17, <3>1 DEF NetIInv, ReceivesAreOrdered
      <3>2. CASE c \notin Told \/ d \notin Told
        BY <1>1, <1>9, <1>17, <3>2
      <3> QED BY <3>1, <3>2
    <2>2. \A c, d \in Told' : c < d /\ ChunkTo(c)' = ChunkTo(d)'
            => netRuntime' = "node" /\ receives'[d].read < ChunkTo(c)'
      <3> SUFFICES ASSUME NEW c \in Told', NEW d \in Told', c < d, ChunkTo(c)' = ChunkTo(d)'
                   PROVE  netRuntime' = "node" /\ receives'[d].read < ChunkTo(c)'
        OBVIOUS
      <3>1. CASE c \in Told /\ d \in Told
        BY <1>2, <1>9, <1>17, <3>1 DEF NetIInv, ReceivesAreOrdered
      <3>2. CASE c \notin Told \/ d \notin Told
        BY <1>1, <1>9, <1>17, <3>2
      <3> QED BY <3>1, <3>2
    <2>3. \A c \in Told', d \in PendingCalls' : d > c
      BY <1>9, <1>11, <1>12, <1>22 DEF NetIInv, ReceivesAreOrdered
    <2>4. netRuntime' = "deno" => {ChunkTo(c)' : c \in Told'} = 1..Cardinality(Told')
      <3>1. {ChunkTo(c)' : c \in Told'} = {receives'[c].answer.ok : c \in Told'}
        BY <1>13
      <3>2. CASE reads
        BY <1>23, <3>1, <3>2
      <3>3. CASE ~reads
        <4>1. Told' = Told /\ netRuntime' = netRuntime /\ {ChunkTo(c)' : c \in Told'} = {ChunkTo(c) : c \in Told}
          BY <1>2, <1>8, <1>11, <3>3
        <4> QED BY <4>1 DEF NetIInv, ReceivesAreOrdered
      <3> QED BY <3>2, <3>3
    <2>5. link' = "closed" => \A c \in PendingCalls' : receives'[c].closed
      BY <1>2, <1>8, <1>9, <1>12, <1>16 DEF NetIInv, ReceivesAreOrdered
    <2> QED BY <2>1, <2>2, <2>3, <2>4, <2>5 DEF ReceivesAreOrdered
  <1> QED BY <1>20, <1>21, <1>24, <1>25 DEF NetIInv

LEMMA ArriveNetIInv ==
  ASSUME NetIInv, Arrive
  PROVE  NetIInv'
  <1> DEFINE told == netRuntime = "deno" /\ PendingCalls # {}
  <1>1. receives \in Seq(Calls) /\ Seen \in Nat /\ arrived \in Nat /\ waiting \in Seq(Nat) /\ Len(waiting) \in Nat
    BY DEF NetIInv, NetTypeOK, Seen
  <1>2. arrived' = arrived + 1 /\ link = "open" /\ UNCHANGED <<netRuntime, link, connects>>
    BY DEF Arrive
  <1>3. CASE told
    <2>1. receives' = Settle({Min(PendingCalls)}, ChunkOf(arrived + 1)) /\ waiting' = waiting
      BY <1>2, <1>3 DEF Arrive
    <2>2. waiting = <<>> /\ Cardinality(Told) = Seen
      BY <1>2, <1>3 DEF NetIInv, DenoIsExact
    <2>3. Seen = arrived /\ Seen' = Seen + 1 /\ waiting' = <<>>
      BY <1>1, <1>2, <2>1, <2>2 DEF Seen
    <2>4. PendingCalls \subseteq Nat
      BY <1>1, ToldOrPending
    <2>5. Min(PendingCalls) \in PendingCalls /\ \A d \in PendingCalls : Min(PendingCalls) <= d
      <3>1. \E n \in PendingCalls : \A d \in PendingCalls : n <= d
        BY <1>3, <2>4, LeastNumber
      <3> QED BY <3>1 DEF Min
    <2> DEFINE m == Min(PendingCalls)
    <2> HIDE DEF m
    <2>6. m \in PendingCalls /\ \A c \in {m}, d \in PendingCalls \ {m} : d > c
      <3>1. m \in PendingCalls /\ m \in Nat /\ \A d \in PendingCalls : m <= d
        BY <2>4, <2>5 DEF m
      <3> QED BY <2>4, <3>1
    <2>7. receives' = Settle({m}, ChunkOf(Seen + 1)) /\ {m} \subseteq PendingCalls
      BY <2>1, <2>3, <2>6 DEF m
    <2>8. /\ receives' \in Seq(Calls)
          /\ \A c \in DOMAIN receives' : receives'[c].read <= Seen'
          /\ \A c \in Told' : receives'[c].read < ChunkTo(c)' /\ ChunkTo(c)' <= Seen'
          /\ \A c, d \in Told' : c < d => ChunkTo(c)' <= ChunkTo(d)'
          /\ \A c, d \in Told' : c < d /\ ChunkTo(c)' = ChunkTo(d)'
               => netRuntime' = "node" /\ receives'[d].read < ChunkTo(c)'
          /\ \A c \in Told', d \in PendingCalls' : d > c
      BY <1>2, <2>3, <2>6, <2>7, TellNext
    <2>9. /\ Told' = Told \cup {m} /\ PendingCalls' = PendingCalls \ {m} /\ m \notin Told
          /\ (\A c \in Told : ChunkTo(c)' = ChunkTo(c)) /\ \A c \in {m} : ChunkTo(c)' = Seen + 1
      <3>1. Seen + 1 \in Nat
        BY <1>1
      <3> QED BY <1>1, <2>6, <2>7, <3>1, TellSome, ToldOrPending
    <2>10. Cardinality(Told') = Seen + 1 /\ {receives'[c].answer.ok : c \in Told'} = 1..Cardinality(Told')
      <3> DEFINE f == [c \in Told' |-> receives'[c].answer.ok]
      <3>1. (\A c \in Told : f[c] = ChunkTo(c)) /\ f[m] = Seen + 1
        BY <2>9 DEF ChunkTo
      <3>2. {f[c] : c \in Told'} = {receives'[c].answer.ok : c \in Told'}
        OBVIOUS
      <3> HIDE DEF f
      <3>3. Cardinality(Told') = Seen + 1 /\ {f[c] : c \in Told'} = 1..Cardinality(Told')
        BY <1>3, <2>2, <2>9, <3>1, NextChunk
      <3> QED BY <3>2, <3>3
    <2>11. NetTypeOK'
      BY <1>1, <1>2, <2>3, <2>8 DEF NetIInv, NetTypeOK
    <2>12. ChunksInLine'
      BY <2>3, <2>8 DEF ChunksInLine
    <2>13. DenoIsExact'
      BY <1>1, <1>2, <2>3, <2>10 DEF DenoIsExact
    <2>14. ReceivesAreOrdered'
      <3>1. {ChunkTo(c)' : c \in Told'} = 1..Cardinality(Told')
        BY <2>10 DEF ChunkTo
      <3> QED BY <1>2, <2>8, <3>1 DEF ReceivesAreOrdered
    <2> QED BY <2>11, <2>12, <2>13, <2>14 DEF NetIInv
  <1>4. CASE ~told
    <2>1. receives' = receives /\ waiting' = Append(waiting, arrived + 1)
      BY <1>2, <1>4 DEF Arrive
    <2>2. waiting' \in Seq(Nat) /\ Len(waiting') = Len(waiting) + 1 /\ Seen' = Seen
      BY <1>1, <1>2, <2>1 DEF Seen
    <2>3. Told' = Told /\ PendingCalls' = PendingCalls /\ \A c : ChunkTo(c)' = ChunkTo(c)
      BY <2>1 DEF Told, PendingCalls, Unsettled, ChunkTo
    <2>4. \A i \in DOMAIN waiting' : waiting'[i] = Seen' + i
      <3>1. DOMAIN waiting' = 1..(Len(waiting) + 1) /\ DOMAIN waiting = 1..Len(waiting)
            /\ waiting'[Len(waiting) + 1] = arrived + 1
            /\ \A i \in DOMAIN waiting : waiting'[i] = waiting[i]
        BY <1>1, <2>1
      <3>2. \A i \in DOMAIN waiting : waiting[i] = Seen + i
        BY DEF NetIInv, ChunksInLine
      <3>3. Seen = arrived - Len(waiting)
        BY DEF Seen
      <3>4. ASSUME NEW i \in DOMAIN waiting' PROVE waiting'[i] = Seen' + i
        <4>1. CASE i \in DOMAIN waiting
          BY <2>2, <3>1, <3>2, <4>1
        <4>2. CASE i \notin DOMAIN waiting
          <5>1. i = Len(waiting) + 1
            BY <1>1, <3>1, <4>2
          <5> QED BY <1>1, <2>2, <3>1, <3>3, <5>1
        <4> QED BY <4>1, <4>2
      <3> QED BY <3>4
    <2>5. NetTypeOK'
      BY <1>1, <1>2, <2>1, <2>2 DEF NetIInv, NetTypeOK
    <2>6. ChunksInLine'
      BY <2>1, <2>2, <2>3, <2>4 DEF NetIInv, ChunksInLine
    <2>7. DenoIsExact'
      BY <1>2, <1>4, <2>2, <2>3 DEF NetIInv, DenoIsExact
    <2>8. ReceivesAreOrdered'
      BY <1>2, <2>1, <2>3 DEF NetIInv, ReceivesAreOrdered
    <2> QED BY <2>5, <2>6, <2>7, <2>8 DEF NetIInv
  <1> QED BY <1>3, <1>4

LEMMA EmitNetIInv ==
  ASSUME NetIInv, EmitData
  PROVE  NetIInv'
  <1>1. receives \in Seq(Calls) /\ Seen \in Nat /\ arrived \in Nat /\ waiting \in Seq(Nat)
    BY DEF NetIInv, NetTypeOK, Seen
  <1>2. /\ netRuntime = "node" /\ waiting # <<>> /\ waiting' = Tail(waiting)
           /\ receives' = Settle(PendingCalls, ChunkOf(Head(waiting)))
        /\ UNCHANGED <<netRuntime, link, connects, arrived>>
    BY DEF EmitData
  <1>3. Len(waiting) > 0 /\ Len(Tail(waiting)) = Len(waiting) - 1 /\ Tail(waiting) \in Seq(Nat)
        /\ 1 \in DOMAIN waiting
        /\ Head(waiting) = waiting[1]
        /\ \A i \in DOMAIN Tail(waiting) : i \in Nat /\ i + 1 \in DOMAIN waiting /\ Tail(waiting)[i] = waiting[i + 1]
    BY <1>1, <1>2
  <1>4. Seen' = Seen + 1 /\ Head(waiting) = Seen + 1 /\ \A i \in DOMAIN waiting' : waiting'[i] = Seen' + i
    <2>1. Seen' = Seen + 1
      BY <1>1, <1>2, <1>3 DEF Seen
    <2>2. \A i \in DOMAIN waiting : waiting[i] = Seen + i
      BY DEF NetIInv, ChunksInLine
    <2>3. Head(waiting) = Seen + 1
      BY <1>1, <1>3, <2>2
    <2>4. ASSUME NEW i \in DOMAIN waiting' PROVE waiting'[i] = Seen' + i
      <3>1. i \in Nat /\ i + 1 \in DOMAIN waiting /\ waiting'[i] = waiting[i + 1]
        BY <1>2, <1>3, <2>4
      <3>2. waiting[i + 1] = Seen + (i + 1)
        BY <2>2, <3>1
      <3> QED BY <1>1, <2>1, <3>1, <3>2
    <2> QED BY <2>1, <2>3, <2>4
  <1>5. receives' = Settle(PendingCalls, ChunkOf(Seen + 1))
    BY <1>2, <1>4
  <1>6. /\ receives' \in Seq(Calls)
        /\ \A c \in DOMAIN receives' : receives'[c].read <= Seen'
        /\ \A c \in Told' : receives'[c].read < ChunkTo(c)' /\ ChunkTo(c)' <= Seen'
        /\ \A c, d \in Told' : c < d => ChunkTo(c)' <= ChunkTo(d)'
        /\ \A c, d \in Told' : c < d /\ ChunkTo(c)' = ChunkTo(d)'
             => netRuntime' = "node" /\ receives'[d].read < ChunkTo(c)'
        /\ \A c \in Told', d \in PendingCalls' : d > c
    BY <1>2, <1>4, <1>5, TellNext
  <1>7. PendingCalls' = {}
    <2>1. Seen + 1 \in Nat
      BY <1>1
    <2> QED BY <1>1, <1>5, <2>1, TellSome
  <1>8. NetTypeOK'
    BY <1>1, <1>2, <1>3, <1>6 DEF NetIInv, NetTypeOK
  <1>9. ChunksInLine'
    BY <1>4, <1>6 DEF ChunksInLine
  <1>10. DenoIsExact'
    BY <1>2 DEF DenoIsExact
  <1>11. ReceivesAreOrdered'
    BY <1>2, <1>6, <1>7 DEF ReceivesAreOrdered
  <1> QED BY <1>8, <1>9, <1>10, <1>11 DEF NetIInv

LEMMA CloseNetIInv ==
  ASSUME NetIInv, NEW destroyed \in BOOLEAN, Close(destroyed)
  PROVE  NetIInv'
  <1>1. receives \in Seq(Calls) /\ Seen \in Nat /\ arrived \in Nat /\ waiting \in Seq(Nat) /\ Len(waiting) \in Nat
    BY DEF NetIInv, NetTypeOK, Seen
  <1>2. /\ link = "open" /\ link' = "closed" /\ receives' = Settle(PendingCalls, NetError)
        /\ waiting' = (IF destroyed THEN <<>> ELSE waiting) /\ UNCHANGED <<netRuntime, connects, arrived>>
    BY DEF Close, Rejected
  <1>3. waiting' \in Seq(Nat) /\ Len(waiting') <= arrived' /\ Seen' \in Nat /\ Seen <= Seen'
        /\ (waiting' # <<>> => waiting' = waiting /\ Seen' = Seen)
    BY <1>1, <1>2 DEF Seen, NetIInv, NetTypeOK
  <1>4. /\ Told' = Told /\ PendingCalls' = {} /\ \A c \in Told : ChunkTo(c)' = ChunkTo(c)
    BY <1>1, <1>2, RejectAll
  <1>5. /\ receives' \in Seq(Calls) /\ DOMAIN receives' = DOMAIN receives
        /\ \A c \in DOMAIN receives : receives'[c].read = receives[c].read
    <2>1. NetError \in Answers /\ PendingCalls \subseteq DOMAIN receives
      BY DEF Answers, PendingCalls
    <2> QED BY <1>1, <1>2, <2>1, Settled
  <1>6. Told \subseteq DOMAIN receives /\ \A c \in Told : ChunkTo(c) \in Nat
    BY <1>1, ToldOrPending
  <1>7. \A c \in DOMAIN receives : receives[c].read \in Nat /\ receives[c].read <= Seen
    <2>1. \A c \in DOMAIN receives : receives[c] \in Calls
      BY <1>1
    <2> QED BY <2>1 DEF NetIInv, ChunksInLine, Calls
  <1>8. NetTypeOK'
    BY <1>1, <1>2, <1>3, <1>5 DEF NetIInv, NetTypeOK
  <1>9. ChunksInLine'
    <2>1. \A i \in DOMAIN waiting' : waiting'[i] = Seen' + i
      BY <1>3 DEF NetIInv, ChunksInLine
    <2>2. \A c \in DOMAIN receives' : receives'[c].read <= Seen'
      <3> SUFFICES ASSUME NEW c \in DOMAIN receives PROVE receives'[c].read <= Seen'
        BY <1>5
      <3>1. receives'[c].read = receives[c].read /\ receives[c].read \in Nat /\ receives[c].read <= Seen
        BY <1>5, <1>7
      <3> QED BY <1>1, <1>3, <3>1
    <2>3. \A c \in Told : receives[c].read < ChunkTo(c) /\ ChunkTo(c) <= Seen
      BY DEF NetIInv, ChunksInLine
    <2>4. \A c \in Told' : receives'[c].read < ChunkTo(c)' /\ ChunkTo(c)' <= Seen'
      <3> SUFFICES ASSUME NEW c \in Told PROVE receives'[c].read < ChunkTo(c)' /\ ChunkTo(c)' <= Seen'
        BY <1>4
      <3>1. receives'[c].read = receives[c].read /\ ChunkTo(c)' = ChunkTo(c) /\ ChunkTo(c) \in Nat
        BY <1>4, <1>5, <1>6
      <3> QED BY <1>1, <1>3, <2>3, <3>1
    <2> QED BY <2>1, <2>2, <2>4 DEF ChunksInLine
  <1>10. DenoIsExact'
    <2> SUFFICES ASSUME netRuntime = "deno"
                 PROVE  Cardinality(Told') <= Seen' /\ (waiting' # <<>> => Cardinality(Told') = Seen')
      BY <1>2, <1>4 DEF DenoIsExact
    <2>1. Cardinality(Told) = Seen
      BY <1>2 DEF NetIInv, DenoIsExact
    <2> QED BY <1>1, <1>3, <1>4, <2>1
  <1>11. ReceivesAreOrdered'
    <2>1. \A c, d \in Told' : c < d => ChunkTo(c)' <= ChunkTo(d)'
      BY <1>4 DEF NetIInv, ReceivesAreOrdered
    <2>2. \A c, d \in Told' : c < d /\ ChunkTo(c)' = ChunkTo(d)'
            => netRuntime' = "node" /\ receives'[d].read < ChunkTo(c)'
      BY <1>2, <1>4, <1>5, <1>6 DEF NetIInv, ReceivesAreOrdered
    <2>3. netRuntime' = "deno" => {ChunkTo(c)' : c \in Told'} = 1..Cardinality(Told')
      <3>1. {ChunkTo(c)' : c \in Told'} = {ChunkTo(c) : c \in Told}
        BY <1>4
      <3> QED BY <1>2, <1>4, <3>1 DEF NetIInv, ReceivesAreOrdered
    <2> QED BY <1>4, <2>1, <2>2, <2>3 DEF ReceivesAreOrdered
  <1> QED BY <1>8, <1>9, <1>10, <1>11 DEF NetIInv

\* Whatever number of calls wait at once, chunks come and however the connection ends,
\* calls of receive() are answered in the order they were made.
THEOREM Received == NetSpec => []ReceivesAreOrdered
  <1>1. NetInit => NetIInv
    BY NetInitIInv
  <1>2. NetIInv /\ [NetNext]_netVars => NetIInv'
    <2> SUFFICES ASSUME NetIInv, [NetNext]_netVars PROVE NetIInv'
      OBVIOUS
    <2>1. ASSUME NEW available \in BOOLEAN, NEW accepted \in BOOLEAN, Connect(available, accepted) PROVE NetIInv'
      BY <2>1, ConnectNetIInv
    <2>2. CASE Receive
      BY <2>2, ReceiveNetIInv
    <2>3. CASE Arrive
      BY <2>3, ArriveNetIInv
    <2>4. CASE EmitData
      BY <2>4, EmitNetIInv
    <2>5. ASSUME NEW destroyed \in BOOLEAN, Close(destroyed) PROVE NetIInv'
      BY <2>5, CloseNetIInv
    <2>6. CASE UNCHANGED netVars
      BY <2>6 DEF netVars, NetIInv, NetTypeOK, ChunksInLine, DenoIsExact, ReceivesAreOrdered, Told, PendingCalls,
         Unsettled, ChunkTo, Seen
    <2> QED BY <2>1, <2>2, <2>3, <2>4, <2>5, <2>6 DEF NetNext
  <1>3. NetIInv => ReceivesAreOrdered
    BY DEF NetIInv
  <1> QED BY <1>1, <1>2, <1>3, PTL DEF NetSpec

=============================================================================
