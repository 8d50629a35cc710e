------------------------------ MODULE PoolProofs ------------------------------
(***************************************************************************)
(* For every number of callers, drains and resources: the pool knows where *)
(* its resources are, nothing is idle once it drains, and what callers and *)
(* resources go through is what PoolPromise.tla allows.                    *)
(***************************************************************************)
EXTENDS Pool, FiniteSetTheorems, TLAPS

Once(s) == \A i, j \in DOMAIN s : s[i] = s[j] => i = j

\* Sequences as the pool changes them: shift, push and splice.
LEMMA Shifted ==
  ASSUME NEW S, NEW s \in Seq(S), s # <<>>
  PROVE  /\ Tail(s) \in Seq(S) /\ Head(s) \in S /\ Head(s) = s[1] /\ Len(s) \in Nat /\ Len(s) >= 1
         /\ Len(Tail(s)) = Len(s) - 1
         /\ \A i \in 1..Len(Tail(s)) : Tail(s)[i] = s[i + 1]
  OBVIOUS

LEMMA ShiftedOnce ==
  ASSUME NEW S, NEW s \in Seq(S), s # <<>>, Once(s)
  PROVE  /\ Once(Tail(s)) /\ Head(s) \in ToSet(s)
         /\ ToSet(Tail(s)) = ToSet(s) \ {Head(s)}
<1>1. DOMAIN s = 1..Len(s) /\ DOMAIN Tail(s) = 1..Len(Tail(s))
  BY Shifted
<1>2. Once(Tail(s))
  BY <1>1, Shifted DEF Once
<1>3. Head(s) \in ToSet(s)
  BY <1>1, Shifted DEF ToSet
<1>4. \A x \in ToSet(Tail(s)) : x \in ToSet(s) \ {Head(s)}
  BY <1>1, Shifted DEF ToSet, Once
<1>5. ASSUME NEW x \in ToSet(s) \ {Head(s)} PROVE x \in ToSet(Tail(s))
  <2>1. PICK i \in 1..Len(s) : s[i] = x
    BY <1>1 DEF ToSet
  <2>2. i - 1 \in 1..Len(Tail(s)) /\ Tail(s)[i - 1] = s[i]
    BY <2>1, Shifted
  <2> QED BY <1>1, <2>1, <2>2 DEF ToSet
<1> QED BY <1>2, <1>3, <1>4, <1>5

LEMMA Pushed ==
  ASSUME NEW S, NEW s \in Seq(S), NEW x \in S, Once(s), x \notin ToSet(s)
  PROVE  /\ Append(s, x) \in Seq(S) /\ Once(Append(s, x)) /\ ToSet(Append(s, x)) = ToSet(s) \cup {x}
<1>1. /\ Append(s, x) \in Seq(S) /\ Len(Append(s, x)) = Len(s) + 1 /\ Len(s) \in Nat
      /\ DOMAIN Append(s, x) = 1..(Len(s) + 1) /\ DOMAIN s = 1..Len(s)
      /\ Append(s, x)[Len(s) + 1] = x
      /\ \A i \in 1..Len(s) : Append(s, x)[i] = s[i]
  OBVIOUS
<1>2. \A i \in 1..(Len(s) + 1) : i \in 1..Len(s) \/ i = Len(s) + 1
  BY <1>1
<1>3. Once(Append(s, x))
  BY <1>1, <1>2 DEF Once, ToSet
<1>4. ToSet(Append(s, x)) = ToSet(s) \cup {x}
  BY <1>1, <1>2 DEF ToSet
<1> QED BY <1>1, <1>3, <1>4

LEMMA Spliced ==
  ASSUME NEW S, NEW s \in Seq(S), NEW k \in DOMAIN s, Once(s)
  PROVE  /\ RemoveAt(s, k) \in Seq(S) /\ Once(RemoveAt(s, k))
         /\ ToSet(RemoveAt(s, k)) = ToSet(s) \ {s[k]}
         /\ Len(RemoveAt(s, k)) = Len(s) - 1
<1> DEFINE f == SubSeq(s, 1, k - 1)
           b == SubSeq(s, k + 1, Len(s))
           t == f \o b
<1>1. Len(s) \in Nat /\ k \in 1..Len(s) /\ DOMAIN s = 1..Len(s)
  OBVIOUS
<1>2. f \in Seq(S) /\ b \in Seq(S)
  BY <1>1
<1>3. Len(f) = k - 1 /\ \A i \in 1..(k - 1) : f[i] = s[i]
  BY <1>1
<1>4. Len(b) = Len(s) - k /\ \A i \in 1..(Len(s) - k) : b[i] = s[i + k]
  BY <1>1
<1> HIDE DEF f, b
<1>5. t \in Seq(S) /\ Len(t) = Len(f) + Len(b) /\ DOMAIN t = 1..(Len(f) + Len(b))
  BY <1>2
<1>6. \A i \in 1..(Len(f) + Len(b)) : t[i] = IF i <= Len(f) THEN f[i] ELSE b[i - Len(f)]
  BY <1>2
<1>7. DOMAIN t = 1..(Len(s) - 1) /\ Len(t) = Len(s) - 1
  BY <1>1, <1>3, <1>4, <1>5
<1>8. \A i \in 1..(Len(s) - 1) : t[i] = IF i < k THEN s[i] ELSE s[i + 1]
  <2>1. SUFFICES ASSUME NEW i \in 1..(Len(s) - 1) PROVE t[i] = IF i < k THEN s[i] ELSE s[i + 1]
    OBVIOUS
  <2>2. CASE i < k
    BY <1>1, <1>3, <1>4, <1>6, <2>2
  <2>3. CASE ~(i < k)
    <3>1. i - (k - 1) \in 1..(Len(s) - k) /\ (i - (k - 1)) + k = i + 1
      BY <1>1, <2>3
    <3>2. t[i] = b[i - (k - 1)]
      BY <1>1, <1>3, <1>4, <1>6, <2>3
    <3> QED BY <1>4, <2>3, <3>1, <3>2
  <2> QED BY <2>2, <2>3
<1> HIDE DEF t
<1>9. Once(t)
  <2>1. SUFFICES ASSUME NEW i \in 1..(Len(s) - 1), NEW j \in 1..(Len(s) - 1), t[i] = t[j] PROVE i = j
    BY <1>7 DEF Once
  <2>2. i \in 1..Len(s) /\ j \in 1..Len(s) /\ i + 1 \in 1..Len(s) /\ j + 1 \in 1..Len(s)
    BY <1>1
  <2> QED BY <1>1, <1>8, <2>1, <2>2 DEF Once
<1>10. \A x \in ToSet(t) : x \in ToSet(s) \ {s[k]}
  <2>1. SUFFICES ASSUME NEW i \in 1..(Len(s) - 1) PROVE t[i] \in ToSet(s) \ {s[k]}
    BY <1>7 DEF ToSet
  <2>2. i \in 1..Len(s) /\ i + 1 \in 1..Len(s)
    BY <1>1
  <2> QED BY <1>1, <1>8, <2>2 DEF ToSet, Once
<1>11. ASSUME NEW x \in ToSet(s) \ {s[k]} PROVE x \in ToSet(t)
  <2>1. PICK i \in 1..Len(s) : s[i] = x
    BY <1>1 DEF ToSet
  <2>2. CASE i < k
    <3>1. i \in 1..(Len(s) - 1) /\ t[i] = x
      BY <1>1, <1>8, <2>1, <2>2
    <3> QED BY <1>7, <3>1 DEF ToSet
  <2>3. CASE i > k
    <3>1. i - 1 \in 1..(Len(s) - 1) /\ t[i - 1] = x
      BY <1>1, <1>8, <2>1, <2>3
    <3> QED BY <1>7, <3>1 DEF ToSet
  <2> QED BY <1>1, <2>1, <2>2, <2>3
<1>12. t = RemoveAt(s, k)
  BY DEF t, f, b, RemoveAt
<1> QED BY <1>5, <1>7, <1>9, <1>10, <1>11, <1>12
-----------------------------------------------------------------------------
PoolTypes ==
  /\ idle \in Seq(Resources) /\ timers \subseteq Resources /\ activeCount \in Int
  /\ draining \in BOOLEAN /\ overlapped \in BOOLEAN
  /\ waiters \in Seq(Callers) /\ drainResolve \in Drains \cup {None}
  /\ pc \in [Callers -> {"out", "refused", "validating", "gotIdle", "noIdle", "creating", "waiting", "holding"}]
  /\ res \in [Callers -> Resources \cup {None}] /\ released \in [Callers -> BOOLEAN]
  /\ drainPc \in [Drains -> {"none", "destroying", "waiting", "resolved"}]
  /\ toDestroy \in [Drains -> Seq(Resources)]
  /\ created \in 0..MaxCreated /\ destroying \subseteq Resources /\ destroyed \subseteq Resources

\* The line names callers that wait, each once, so that who is handed a resource has none.
LineIsTrue == Once(waiters) /\ \A c \in ToSet(waiters) : pc[c] = "waiting"

FlagsAreTrue == \A c \in Callers : released[c] <=> pc[c] # "holding"

\* A drain has entries left exactly while it destroys, and what would be resolved waits.
DrainsAreTrue ==
  /\ \A d \in Drains : drainPc[d] = "destroying" <=> toDestroy[d] # <<>>
  /\ drainResolve # None => drainPc[drainResolve] = "waiting"

InUse == {c \in Callers : pc[c] \in {"validating", "gotIdle", "holding"}}
Hands == {res[c] : c \in InUse}
Taken == {r \in Resources : \E d \in Drains : \E j \in 2..Len(toDestroy[d]) : toDestroy[d][j] = r}

\* Every kind of place has a resource once ...
EachOnce ==
  /\ Once(idle)
  /\ \A c, e \in InUse : res[c] = res[e] => c = e
  /\ \A d, e \in Drains : \A i \in 2..Len(toDestroy[d]), j \in 2..Len(toDestroy[e]) :
       toDestroy[d][i] = toDestroy[e][j] => d = e /\ i = j

\* ... and what was created is in a place of one kind.
KindsApart(i, h, t, g, x) ==
  /\ i \cap h = {} /\ i \cap t = {} /\ i \cap g = {} /\ i \cap x = {}
  /\ h \cap t = {} /\ h \cap g = {} /\ h \cap x = {}
  /\ t \cap g = {} /\ t \cap x = {} /\ g \cap x = {}

Partition ==
  /\ KindsApart(ToSet(idle), Hands, Taken, destroying, destroyed)
  /\ ToSet(idle) \cup Hands \cup Taken \cup destroying \cup destroyed = 1..created

PoolIInv ==
  /\ PoolTypes /\ CountIsTrue /\ LineIsTrue /\ FlagsAreTrue
  /\ DrainingIsEmpty /\ DrainsAreTrue /\ EachOnce /\ Partition

-----------------------------------------------------------------------------
LEMMA HoldersAreCounted == IsFiniteSet(Holders) /\ Cardinality(Holders) \in Nat
BY PoolAssumption, FS_Subset, FS_CardinalityType DEF Holders

\* A caller that comes to hold, that ceases to, and that passes on what it held.
LEMMA HolderIn ==
  ASSUME NEW c \in Callers, c \notin Holders, Holders' = Holders \cup {c}
  PROVE  Cardinality(Holders') = Cardinality(Holders) + 1
BY HoldersAreCounted, FS_AddElement

LEMMA HolderOut ==
  ASSUME NEW c \in Callers, c \in Holders, Holders' = Holders \ {c}
  PROVE  Cardinality(Holders') = Cardinality(Holders) - 1
BY HoldersAreCounted, FS_RemoveElement

LEMMA HolderNext ==
  ASSUME NEW c \in Callers, NEW w \in Callers, c \in Holders, w \notin Holders,
         Holders' = (Holders \ {c}) \cup {w}
  PROVE  Cardinality(Holders') = Cardinality(Holders)
<1>1. IsFiniteSet(Holders \ {c}) /\ Cardinality(Holders \ {c}) = Cardinality(Holders) - 1
  BY HoldersAreCounted, FS_RemoveElement
<1>2. w \notin Holders \ {c}
  OBVIOUS
<1>3. Cardinality(Holders') = Cardinality(Holders \ {c}) + 1
  BY <1>1, <1>2, FS_AddElement
<1> QED BY <1>1, <1>3, HoldersAreCounted

LEMMA PoolInitIInv == Init => PoolIInv
<1> SUFFICES ASSUME Init PROVE PoolIInv
  OBVIOUS
<1>1. Holders = {} /\ InUse = {} /\ Hands = {} /\ ToSet(idle) = {} /\ ToSet(waiters) = {}
  BY DEF Init, Holders, InUse, Hands, ToSet
<1>2. CountIsTrue
  BY <1>1, FS_EmptySet DEF Init, CountIsTrue
<1>3. PoolTypes
  <2>1. <<>> \in Seq(Resources) /\ <<>> \in Seq(Callers) /\ MaxCreated \in Nat
    BY PoolAssumption
  <2>2. toDestroy \in [Drains -> Seq(Resources)]
    BY <2>1 DEF Init
  <2>3. idle \in Seq(Resources) /\ waiters \in Seq(Callers) /\ created \in 0..MaxCreated
    BY <2>1 DEF Init
  <2>4. /\ pc \in [Callers -> {"out", "refused", "validating", "gotIdle", "noIdle", "creating", "waiting", "holding"}]
        /\ res \in [Callers -> Resources \cup {None}]
        /\ released \in [Callers -> BOOLEAN]
        /\ drainPc \in [Drains -> {"none", "destroying", "waiting", "resolved"}]
    BY DEF Init
  <2>5. /\ timers \subseteq Resources /\ activeCount \in Int /\ draining \in BOOLEAN /\ overlapped \in BOOLEAN
        /\ drainResolve \in Drains \cup {None} /\ destroying \subseteq Resources /\ destroyed \subseteq Resources
    <3>1. draining = FALSE /\ overlapped = FALSE
      BY DEF Init
    <3>2. timers = {} /\ activeCount = 0 /\ drainResolve = None /\ destroying = {} /\ destroyed = {}
      BY DEF Init
    <3>3. draining \in BOOLEAN /\ overlapped \in BOOLEAN
      BY <3>1
    <3> QED BY <3>2, <3>3
  <2> QED BY <2>2, <2>3, <2>4, <2>5 DEF PoolTypes
<1>4. \A d \in Drains : toDestroy[d] = <<>> /\ 2..Len(toDestroy[d]) = {}
  BY DEF Init
<1>5. Taken = {}
  BY <1>4 DEF Taken
<1>6. Partition
  BY <1>1, <1>5 DEF Init, Partition, KindsApart
<1>7. EachOnce
  BY <1>1, <1>4 DEF EachOnce, Init, Once
<1>8. LineIsTrue /\ FlagsAreTrue /\ DrainingIsEmpty /\ DrainsAreTrue
  BY <1>1, <1>4 DEF Init, LineIsTrue, FlagsAreTrue, DrainingIsEmpty, DrainsAreTrue, Once
<1> QED BY <1>2, <1>3, <1>6, <1>7, <1>8 DEF PoolIInv

-----------------------------------------------------------------------------
\* What follows for the drains from a step that may resolve the one that waits.
LEMMA CheckedDrains ==
  ASSUME PoolTypes, DrainsAreTrue, NEW active, NEW entries,
         CheckDrainComplete(active, entries), toDestroy' = toDestroy
  PROVE  /\ drainPc' \in [Drains -> {"none", "destroying", "waiting", "resolved"}]
         /\ drainResolve' \in Drains \cup {None}
         /\ DrainsAreTrue'
<1>0. None \notin Drains
  BY PoolAssumption
<1>1. CASE UNCHANGED <<drainPc, drainResolve>>
  BY <1>1 DEF PoolTypes, DrainsAreTrue
<1>2. CASE drainPc' = Resolve(drainResolve) /\ drainResolve' = None
  <2>1. CASE drainResolve = None
    BY <1>2, <2>1 DEF PoolTypes, DrainsAreTrue, Resolve
  <2>2. CASE drainResolve # None
    <3>1. drainPc' = [drainPc EXCEPT ![drainResolve] = "resolved"] /\ drainResolve \in Drains
      BY <1>2, <2>2 DEF Resolve, PoolTypes
    <3>2. drainPc[drainResolve] = "waiting" /\ toDestroy[drainResolve] = <<>>
      BY <2>2, <3>1 DEF DrainsAreTrue
    <3> QED BY <1>2, <3>1, <3>2 DEF PoolTypes, DrainsAreTrue
  <2> QED BY <2>1, <2>2
<1> QED BY <1>1, <1>2 DEF CheckDrainComplete

LEMMA EndedDrains ==
  ASSUME PoolTypes, DrainsAreTrue, NEW d \in Drains, drainPc[d] # "waiting",
         toDestroy' = [toDestroy EXCEPT ![d] = <<>>], DrainEnds(d)
  PROVE  /\ drainPc' \in [Drains -> {"none", "destroying", "waiting", "resolved"}]
         /\ drainResolve' \in Drains \cup {None}
         /\ DrainsAreTrue'
<1>0. None \notin Drains
  BY PoolAssumption
<1>1. CASE activeCount # 0
  <2>1. drainPc' = [drainPc EXCEPT ![d] = "waiting"] /\ drainResolve' = d
    BY <1>1 DEF DrainEnds
  <2> QED BY <1>0, <2>1 DEF PoolTypes, DrainsAreTrue
<1>2. CASE activeCount = 0
  <2>1. drainPc' = [Resolve(drainResolve) EXCEPT ![d] = "resolved"] /\ drainResolve' = None
    BY <1>2 DEF DrainEnds
  <2>2. /\ drainPc' \in [Drains -> {"none", "destroying", "waiting", "resolved"}]
        /\ drainPc'[d] = "resolved"
        /\ \A e \in Drains \ {d} : drainPc'[e] = drainPc[e] \/ (drainPc[e] = "waiting" /\ drainPc'[e] = "resolved")
    <3>1. CASE drainResolve = None
      BY <2>1, <3>1 DEF Resolve, PoolTypes
    <3>2. CASE drainResolve # None
      <4>1. Resolve(drainResolve) = [drainPc EXCEPT ![drainResolve] = "resolved"] /\ drainPc[drainResolve] = "waiting"
        BY <3>2 DEF Resolve, DrainsAreTrue
      <4>2. \A e \in Drains \ {d} : drainPc'[e] = IF e = drainResolve THEN "resolved" ELSE drainPc[e]
        BY <2>1, <4>1 DEF PoolTypes
      <4> QED BY <2>1, <4>1, <4>2 DEF PoolTypes
    <3> QED BY <3>1, <3>2
  <2>3. \A e \in Drains \ {d} : toDestroy'[e] = toDestroy[e]
    BY DEF PoolTypes
  <2>4. toDestroy'[d] = <<>>
    BY DEF PoolTypes
  <2> QED BY <2>1, <2>2, <2>3, <2>4 DEF DrainsAreTrue
<1> QED BY <1>1, <1>2

\* Nobody in the line is disturbed.
LEMMA LineKept ==
  ASSUME PoolTypes, LineIsTrue, waiters' = waiters,
         \A e \in Callers : pc[e] = "waiting" => pc'[e] = "waiting"
  PROVE  LineIsTrue'
<1>1. waiters \in Seq(Callers)
  BY DEF PoolTypes
<1>2. \A e \in ToSet(waiters) : e \in Callers
  BY <1>1 DEF ToSet
<1>3. \A e \in ToSet(waiters) : pc'[e] = "waiting"
  BY <1>2 DEF LineIsTrue
<1> QED BY <1>3 DEF LineIsTrue

\* One round of tryAcquireIdle by a caller that arrives, or whose resource was found
\* unhealthy and goes to be destroyed.
LEMMA TryIdle ==
  ASSUME PoolIInv, NEW c \in Callers, TryAcquireIdle(c), NEW gone,
         \/ pc[c] = "out" /\ gone = {}
         \/ pc[c] = "validating" /\ gone = {res[c]},
         destroying' = destroying \cup gone, overlapped' \in BOOLEAN,
         UNCHANGED <<activeCount, draining, waiters, drainResolve, released, drainPc, toDestroy, created, destroyed>>
  PROVE  PoolIInv'
<1>0. PoolTypes /\ CountIsTrue /\ LineIsTrue /\ FlagsAreTrue /\ DrainingIsEmpty /\ DrainsAreTrue /\ EachOnce /\ Partition
  BY DEF PoolIInv
<1>1. /\ pc' \in [Callers -> {"out", "refused", "validating", "gotIdle", "noIdle", "creating", "waiting", "holding"}]
      /\ \A e \in Callers \ {c} : pc'[e] = pc[e] /\ res'[e] = res[e]
      /\ idle = <<>> => pc'[c] = "noIdle" /\ idle' = idle /\ timers' = timers /\ res'[c] = None
      /\ idle # <<>> => /\ pc'[c] \in {"validating", "gotIdle"} /\ idle' = Tail(idle)
                        /\ timers' = timers \ {Head(idle)} /\ res'[c] = Head(idle)
  BY <1>0, PoolAssumption DEF PoolTypes, TryAcquireIdle
<1>2. gone \subseteq Resources /\ gone \subseteq Hands
  BY <1>0, PoolAssumption DEF PoolTypes, Partition, Hands, InUse, Resources
<1>3. idle' \in Seq(Resources) /\ (idle # <<>> => Head(idle) \in Resources)
  <2>1. idle \in Seq(Resources)
    BY <1>0 DEF PoolTypes
  <2>2. idle # <<>> => Tail(idle) \in Seq(Resources) /\ Head(idle) \in Resources
    BY <2>1, Shifted
  <2> QED BY <1>1, <2>1, <2>2
<1>4. res' \in [Callers -> Resources \cup {None}]
  BY <1>0, <1>3 DEF PoolTypes, TryAcquireIdle
<1>5. PoolTypes'
  BY <1>0, <1>1, <1>2, <1>3, <1>4 DEF PoolTypes
<1>6. Holders' = Holders
  BY <1>1 DEF Holders
<1>7. CountIsTrue' /\ FlagsAreTrue'
  BY <1>0, <1>1, <1>6 DEF CountIsTrue, FlagsAreTrue
<1>8. LineIsTrue'
  <2>1. \A e \in Callers : pc[e] = "waiting" => pc'[e] = "waiting"
    BY <1>1
  <2> QED BY <1>0, <2>1, LineKept
<1>9. DrainingIsEmpty' /\ DrainsAreTrue'
  BY <1>0, <1>1 DEF DrainingIsEmpty, DrainsAreTrue
<1>10. InUse' = IF idle = <<>> THEN InUse \ {c} ELSE InUse \cup {c}
  BY <1>1 DEF InUse
<1>11. Taken' = Taken
  BY DEF Taken
<1>12. \A e \in InUse \ {c} : res'[e] = res[e] /\ res[e] \notin gone
  BY <1>0, <1>1 DEF EachOnce, InUse
<1>13. Hands' = IF idle = <<>> THEN Hands \ gone ELSE (Hands \ gone) \cup {Head(idle)}
  <2>1. c \in InUse => res[c] \in gone
    BY DEF InUse
  <2> QED BY <1>1, <1>10, <1>12, <2>1 DEF Hands, InUse
<1>14. CASE idle = <<>>
  <2>1. EachOnce'
    BY <1>0, <1>1, <1>10, <1>12, <1>14 DEF EachOnce
  <2>2. Partition'
    BY <1>0, <1>1, <1>2, <1>11, <1>13, <1>14 DEF Partition, KindsApart
  <2> QED BY <1>5, <1>7, <1>8, <1>9, <2>1, <2>2 DEF PoolIInv
<1>15. CASE idle # <<>>
  <2>1. Once(idle') /\ Head(idle) \in ToSet(idle) /\ ToSet(idle') = ToSet(idle) \ {Head(idle)}
    BY <1>0, <1>1, <1>15, ShiftedOnce DEF EachOnce, PoolTypes
  <2>2. \A e \in InUse : res[e] # Head(idle)
    BY <1>0, <2>1 DEF Partition, KindsApart, Hands
  <2>3. \A e, f \in InUse' : res'[e] = res'[f] => e = f
    BY <1>0, <1>1, <1>10, <1>12, <1>15, <2>2 DEF EachOnce
  <2>4. EachOnce'
    BY <1>0, <2>1, <2>3 DEF EachOnce
  <2>5. Partition'
    BY <1>0, <1>2, <1>11, <1>13, <1>15, <2>1 DEF Partition, KindsApart
  <2> QED BY <1>5, <1>7, <1>8, <1>9, <2>4, <2>5 DEF PoolIInv
<1> QED BY <1>14, <1>15

LEMMA AcquireIInv == ASSUME PoolIInv, NEW c \in Callers, Acquire(c) PROVE PoolIInv'
<1>0. PoolTypes /\ CountIsTrue /\ LineIsTrue /\ FlagsAreTrue /\ DrainingIsEmpty /\ DrainsAreTrue /\ EachOnce /\ Partition
  BY DEF PoolIInv
<1>1. /\ pc[c] = "out"
      /\ UNCHANGED <<activeCount, draining, waiters, drainResolve, released, drainPc, toDestroy,
                     created, destroying, destroyed>>
  BY DEF Acquire, drainVars, resourceVars
<1>2. CASE draining
  <2>1. pc' = [pc EXCEPT ![c] = "refused"] /\ UNCHANGED <<idle, timers, res, overlapped>>
    BY <1>2 DEF Acquire
  <2>2. PoolTypes'
    BY <1>0, <1>1, <2>1 DEF PoolTypes
  <2>3. /\ pc'[c] = "refused" /\ \A e \in Callers \ {c} : pc'[e] = pc[e]
    BY <1>0, <2>1 DEF PoolTypes
  <2>4. LineIsTrue'
    BY <1>0, <1>1, <2>3, LineKept
  <2>5. Holders' = Holders /\ InUse' = InUse
    BY <1>1, <2>3 DEF Holders, InUse
  <2>6. Hands' = Hands /\ Taken' = Taken
    BY <1>1, <2>1, <2>5 DEF Hands, Taken
  <2>7. FlagsAreTrue'
    BY <1>0, <1>1, <2>3 DEF FlagsAreTrue
  <2>8. EachOnce'
    BY <1>0, <1>1, <2>1, <2>5 DEF EachOnce
  <2> QED BY <1>0, <1>1, <2>1, <2>2, <2>4, <2>5, <2>6, <2>7, <2>8
          DEF PoolIInv, CountIsTrue, DrainingIsEmpty, DrainsAreTrue, Partition
<1>3. CASE ~draining
  <2>1. TryAcquireIdle(c) /\ overlapped' = (overlapped \/ InFlight # {})
    BY <1>3 DEF Acquire
  <2>2. overlapped' \in BOOLEAN /\ destroying' = destroying \cup {}
    BY <1>0, <1>1, <2>1 DEF PoolTypes
  <2> QED BY <1>1, <2>1, <2>2, TryIdle
<1> QED BY <1>2, <1>3

LEMMA ValidateIInv == ASSUME PoolIInv, NEW c \in Callers, ValidateSettles(c) PROVE PoolIInv'
<1>0. PoolTypes /\ CountIsTrue /\ LineIsTrue /\ FlagsAreTrue /\ DrainingIsEmpty /\ DrainsAreTrue /\ EachOnce /\ Partition
  BY DEF PoolIInv
<1>1. /\ pc[c] = "validating"
      /\ UNCHANGED <<activeCount, draining, waiters, drainResolve, released, drainPc, toDestroy,
                     created, destroyed, overlapped>>
  BY DEF ValidateSettles, drainVars
<1>2. CASE pc' = [pc EXCEPT ![c] = "gotIdle"] /\ UNCHANGED <<idle, timers, res, destroying>>
  <2>1. PoolTypes'
    BY <1>0, <1>1, <1>2 DEF PoolTypes
  <2>2. pc'[c] = "gotIdle" /\ \A e \in Callers \ {c} : pc'[e] = pc[e]
    BY <1>0, <1>2 DEF PoolTypes
  <2>3. LineIsTrue'
    BY <1>0, <1>1, <2>2, LineKept
  <2>4. Holders' = Holders /\ InUse' = InUse
    BY <1>1, <2>2 DEF Holders, InUse
  <2>5. Hands' = Hands /\ Taken' = Taken
    BY <1>1, <1>2, <2>4 DEF Hands, Taken
  <2>6. FlagsAreTrue'
    BY <1>0, <1>1, <2>2 DEF FlagsAreTrue
  <2>7. EachOnce'
    BY <1>0, <1>1, <1>2, <2>4 DEF EachOnce
  <2> QED BY <1>0, <1>1, <1>2, <2>1, <2>3, <2>4, <2>5, <2>6, <2>7
          DEF PoolIInv, CountIsTrue, DrainingIsEmpty, DrainsAreTrue, Partition
<1>3. CASE destroying' = destroying \cup {res[c]} /\ TryAcquireIdle(c)
  <2>1. overlapped' \in BOOLEAN
    BY <1>0, <1>1 DEF PoolTypes
  <2> QED BY <1>1, <1>3, <2>1, TryIdle
<1> QED BY <1>2, <1>3 DEF ValidateSettles

LEMMA GotIdleIInv == ASSUME PoolIInv, NEW c \in Callers, GotIdle(c) PROVE PoolIInv'
<1>0. PoolTypes /\ CountIsTrue /\ LineIsTrue /\ FlagsAreTrue /\ DrainingIsEmpty /\ DrainsAreTrue /\ EachOnce /\ Partition
  BY DEF PoolIInv
<1>1. /\ pc[c] = "gotIdle" /\ activeCount' = activeCount + 1
      /\ pc' = [pc EXCEPT ![c] = "holding"] /\ res' = [res EXCEPT ![c] = res[c]]
      /\ released' = [released EXCEPT ![c] = FALSE]
      /\ UNCHANGED <<idle, timers, waiters, drainResolve, draining, drainPc, toDestroy,
                     created, destroying, destroyed, overlapped>>
  BY DEF GotIdle, Hold, drainVars, resourceVars
<1>2. res' = res
  BY <1>0, <1>1 DEF PoolTypes
<1>3. PoolTypes'
  BY <1>0, <1>1, <1>2 DEF PoolTypes
<1>4. pc'[c] = "holding" /\ \A e \in Callers \ {c} : pc'[e] = pc[e] /\ released'[e] = released[e]
  BY <1>0, <1>1 DEF PoolTypes
<1>5. released'[c] = FALSE
  BY <1>0, <1>1 DEF PoolTypes
<1>6. LineIsTrue'
  BY <1>0, <1>1, <1>4, LineKept
<1>7. c \notin Holders /\ Holders' = Holders \cup {c} /\ InUse' = InUse
  BY <1>1, <1>4 DEF Holders, InUse
<1>8. CountIsTrue'
  BY <1>0, <1>1, <1>7, HolderIn DEF CountIsTrue
<1>9. Hands' = Hands /\ Taken' = Taken
  BY <1>1, <1>2, <1>7 DEF Hands, Taken
<1>10. FlagsAreTrue'
  BY <1>0, <1>4, <1>5 DEF FlagsAreTrue
<1>11. EachOnce'
  BY <1>0, <1>1, <1>2, <1>7 DEF EachOnce
<1> QED BY <1>0, <1>1, <1>3, <1>6, <1>8, <1>9, <1>10, <1>11
        DEF PoolIInv, DrainingIsEmpty, DrainsAreTrue, Partition

LEMMA NoIdleIInv == ASSUME PoolIInv, NEW c \in Callers, NoIdle(c) PROVE PoolIInv'
<1>0. PoolTypes /\ CountIsTrue /\ LineIsTrue /\ FlagsAreTrue /\ DrainingIsEmpty /\ DrainsAreTrue /\ EachOnce /\ Partition
  BY DEF PoolIInv
<1>1. /\ pc[c] = "noIdle"
      /\ \/ pc' = [pc EXCEPT ![c] = "creating"] /\ waiters' = waiters
         \/ pc' = [pc EXCEPT ![c] = "waiting"] /\ waiters' = Append(waiters, c)
      /\ UNCHANGED <<idle, timers, activeCount, drainResolve, draining, res, released, drainPc, toDestroy,
                     created, destroying, destroyed, overlapped>>
  BY DEF NoIdle, drainVars, resourceVars
<1>2. pc'[c] \in {"creating", "waiting"} /\ \A e \in Callers \ {c} : pc'[e] = pc[e]
  BY <1>0, <1>1 DEF PoolTypes
<1>3. c \notin ToSet(waiters)
  BY <1>0, <1>1 DEF LineIsTrue
<1>4. waiters' \in Seq(Callers) /\ LineIsTrue'
  <2>1. CASE pc' = [pc EXCEPT ![c] = "creating"] /\ waiters' = waiters
    BY <1>0, <1>1, <1>2, <2>1, LineKept DEF PoolTypes
  <2>2. CASE pc' = [pc EXCEPT ![c] = "waiting"] /\ waiters' = Append(waiters, c)
    <3>1. pc'[c] = "waiting" /\ waiters \in Seq(Callers)
      BY <1>0, <2>2 DEF PoolTypes
    <3>2. waiters' \in Seq(Callers) /\ Once(waiters') /\ ToSet(waiters') = ToSet(waiters) \cup {c}
      BY <1>0, <1>3, <2>2, <3>1, Pushed DEF LineIsTrue
    <3>3. \A e \in ToSet(waiters) : e \in Callers
      BY <3>1 DEF ToSet
    <3> QED BY <1>0, <1>2, <1>3, <3>1, <3>2, <3>3 DEF LineIsTrue
  <2> QED BY <1>1, <2>1, <2>2
<1>5. PoolTypes'
  BY <1>0, <1>1, <1>4 DEF PoolTypes
<1>6. Holders' = Holders /\ InUse' = InUse
  BY <1>1, <1>2 DEF Holders, InUse
<1>7. Hands' = Hands /\ Taken' = Taken
  BY <1>1, <1>6 DEF Hands, Taken
<1>8. FlagsAreTrue'
  BY <1>0, <1>1, <1>2 DEF FlagsAreTrue
<1>9. EachOnce'
  BY <1>0, <1>1, <1>6 DEF EachOnce
<1> QED BY <1>0, <1>1, <1>4, <1>5, <1>6, <1>7, <1>8, <1>9
        DEF PoolIInv, CountIsTrue, DrainingIsEmpty, DrainsAreTrue, Partition

LEMMA CreateIInv == ASSUME PoolIInv, NEW c \in Callers, CreateSettles(c) PROVE PoolIInv'
<1>0. PoolTypes /\ CountIsTrue /\ LineIsTrue /\ FlagsAreTrue /\ DrainingIsEmpty /\ DrainsAreTrue /\ EachOnce /\ Partition
  BY DEF PoolIInv
<1>1. /\ pc[c] = "creating"
      /\ UNCHANGED <<idle, timers, waiters, drainResolve, draining, drainPc, toDestroy, destroying, destroyed, overlapped>>
  BY DEF CreateSettles, drainVars
<1>2. Taken' = Taken
  BY <1>1 DEF Taken
<1>3. CASE pc' = [pc EXCEPT ![c] = "out"] /\ UNCHANGED <<activeCount, created, res, released>>
  <2>1. PoolTypes'
    BY <1>0, <1>1, <1>3 DEF PoolTypes
  <2>2. pc'[c] = "out" /\ \A e \in Callers \ {c} : pc'[e] = pc[e]
    BY <1>0, <1>3 DEF PoolTypes
  <2>3. LineIsTrue'
    BY <1>0, <1>1, <2>2, LineKept
  <2>4. Holders' = Holders /\ InUse' = InUse
    BY <1>1, <2>2 DEF Holders, InUse
  <2>5. Hands' = Hands
    BY <1>1, <1>3, <2>4 DEF Hands
  <2>6. FlagsAreTrue'
    BY <1>0, <1>1, <1>3, <2>2 DEF FlagsAreTrue
  <2>7. EachOnce'
    BY <1>0, <1>1, <1>3, <2>4 DEF EachOnce
  <2> QED BY <1>0, <1>1, <1>2, <1>3, <2>1, <2>3, <2>4, <2>5, <2>6, <2>7
          DEF PoolIInv, CountIsTrue, DrainingIsEmpty, DrainsAreTrue, Partition
<1>4. CASE /\ created < MaxCreated /\ created' = created + 1 /\ activeCount' = activeCount + 1
           /\ Hold(c, created + 1)
  <2>1. /\ pc' = [pc EXCEPT ![c] = "holding"] /\ res' = [res EXCEPT ![c] = created + 1]
        /\ released' = [released EXCEPT ![c] = FALSE]
    BY <1>4 DEF Hold
  <2>2. created \in Nat /\ created' \in 0..MaxCreated /\ created + 1 \in Resources
    BY <1>0, <1>4, PoolAssumption DEF PoolTypes, Resources
  <2>3. PoolTypes'
    BY <1>0, <1>1, <1>4, <2>1, <2>2 DEF PoolTypes
  <2>4. pc'[c] = "holding" /\ \A e \in Callers \ {c} : pc'[e] = pc[e] /\ released'[e] = released[e]
    BY <1>0, <2>1 DEF PoolTypes
  <2>5. released'[c] = FALSE /\ res'[c] = created + 1 /\ \A e \in Callers \ {c} : res'[e] = res[e]
    BY <1>0, <2>1 DEF PoolTypes
  <2>6. LineIsTrue'
    BY <1>0, <1>1, <2>4, LineKept
  <2>7. c \notin Holders /\ Holders' = Holders \cup {c} /\ InUse' = InUse \cup {c} /\ c \notin InUse
    BY <1>1, <2>4 DEF Holders, InUse
  <2>8. CountIsTrue'
    BY <1>0, <1>4, <2>7, HolderIn DEF CountIsTrue
  <2>9. FlagsAreTrue'
    BY <1>0, <2>4, <2>5 DEF FlagsAreTrue
  <2>10. Hands' = Hands \cup {created + 1}
    BY <2>5, <2>7 DEF Hands, InUse
  <2>11. \A e \in InUse : res[e] # created + 1
    BY <1>0, <2>2 DEF Partition, Hands
  <2>12. \A e, f \in InUse' : res'[e] = res'[f] => e = f
    BY <1>0, <2>5, <2>7, <2>11 DEF EachOnce, InUse
  <2>13. EachOnce'
    BY <1>0, <1>1, <2>12 DEF EachOnce
  <2>14. 1..created' = (1..created) \cup {created + 1} /\ created + 1 \notin 1..created
    BY <1>4, <2>2
  <2>15. Partition'
    BY <1>0, <1>1, <1>2, <2>10, <2>14 DEF Partition, KindsApart
  <2> QED BY <1>0, <1>1, <2>3, <2>6, <2>8, <2>9, <2>13, <2>15
          DEF PoolIInv, DrainingIsEmpty, DrainsAreTrue
<1> QED BY <1>3, <1>4 DEF CreateSettles

-----------------------------------------------------------------------------
LEMMA HeldIsCreated ==
  ASSUME PoolIInv, NEW c \in Callers, pc[c] = "holding"
  PROVE  c \in InUse /\ res[c] \in Hands /\ res[c] \in Resources
<1>1. c \in InUse
  BY DEF InUse
<1>2. res[c] \in Hands
  BY <1>1 DEF Hands
<1>3. res[c] \in 1..created /\ created \in 0..MaxCreated
  BY <1>2 DEF PoolIInv, Partition, PoolTypes
<1> QED BY <1>1, <1>2, <1>3, PoolAssumption DEF Resources

LEMMA DiscardIInv ==
  ASSUME PoolIInv, NEW c \in Callers, pc[c] = "holding",
         Discard(c, res[c]), CheckDrainComplete(activeCount - 1, idle),
         UNCHANGED <<draining, toDestroy, created, destroyed, overlapped>>
  PROVE  PoolIInv'
<1>0. PoolTypes /\ CountIsTrue /\ LineIsTrue /\ FlagsAreTrue /\ DrainingIsEmpty /\ DrainsAreTrue /\ EachOnce /\ Partition
  BY DEF PoolIInv
<1>1. /\ activeCount' = activeCount - 1 /\ destroying' = destroying \cup {res[c]}
      /\ pc' = [pc EXCEPT ![c] = "out"] /\ released' = [released EXCEPT ![c] = TRUE]
      /\ UNCHANGED <<idle, timers, waiters, res>>
  BY DEF Discard
<1>2. /\ drainPc' \in [Drains -> {"none", "destroying", "waiting", "resolved"}]
      /\ drainResolve' \in Drains \cup {None} /\ DrainsAreTrue'
  BY <1>0, CheckedDrains
<1>3. c \in InUse /\ res[c] \in Hands /\ res[c] \in Resources
  BY HeldIsCreated
<1>4. PoolTypes'
  BY <1>0, <1>1, <1>2, <1>3 DEF PoolTypes
<1>5. pc'[c] = "out" /\ \A e \in Callers \ {c} : pc'[e] = pc[e] /\ released'[e] = released[e]
  BY <1>0, <1>1 DEF PoolTypes
<1>6. released'[c] = TRUE
  BY <1>0, <1>1 DEF PoolTypes
<1>7. LineIsTrue'
  BY <1>0, <1>1, <1>5, LineKept
<1>8. c \in Holders /\ Holders' = Holders \ {c} /\ InUse' = InUse \ {c}
  BY <1>5 DEF Holders, InUse
<1>9. CountIsTrue'
  BY <1>0, <1>1, <1>8, HolderOut DEF CountIsTrue
<1>10. FlagsAreTrue'
  BY <1>0, <1>5, <1>6 DEF FlagsAreTrue
<1>11. \A e \in InUse' : res[e] # res[c]
  BY <1>0, <1>3, <1>8 DEF EachOnce
<1>12. Hands' = Hands \ {res[c]} /\ Taken' = Taken
  BY <1>1, <1>8, <1>11 DEF Hands, Taken
<1>13. EachOnce'
  BY <1>0, <1>1, <1>8 DEF EachOnce
<1>14. Partition'
  BY <1>0, <1>1, <1>3, <1>12 DEF Partition, KindsApart
<1> QED BY <1>0, <1>1, <1>2, <1>4, <1>7, <1>9, <1>10, <1>13, <1>14 DEF PoolIInv, DrainingIsEmpty

LEMMA HandOverIInv ==
  ASSUME PoolIInv, NEW c \in Callers, pc[c] = "holding",
         HandOver(c, res[c]), UNCHANGED activeCount,
         UNCHANGED <<draining, toDestroy, created, destroyed, overlapped>>
  PROVE  PoolIInv'
<1> DEFINE w == Head(waiters)
<1>0. PoolTypes /\ CountIsTrue /\ LineIsTrue /\ FlagsAreTrue /\ DrainingIsEmpty /\ DrainsAreTrue /\ EachOnce /\ Partition
  BY DEF PoolIInv
<1>1. /\ waiters # <<>> /\ waiters' = Tail(waiters)
      /\ pc' = [pc EXCEPT ![c] = "out", ![w] = "holding"]
      /\ res' = [res EXCEPT ![w] = res[c]]
      /\ released' = [released EXCEPT ![c] = TRUE, ![w] = FALSE]
      /\ UNCHANGED <<idle, timers, drainResolve, drainPc, destroying>>
  BY DEF HandOver
<1>2. /\ Tail(waiters) \in Seq(Callers) /\ w \in Callers /\ w \in ToSet(waiters)
      /\ Once(Tail(waiters)) /\ ToSet(Tail(waiters)) = ToSet(waiters) \ {w}
  BY <1>0, <1>1, Shifted, ShiftedOnce DEF PoolTypes, LineIsTrue
<1>3. pc[w] = "waiting" /\ w # c
  BY <1>0, <1>2 DEF LineIsTrue
<1> HIDE DEF w
<1>4. c \in InUse /\ res[c] \in Hands /\ res[c] \in Resources
  BY HeldIsCreated
<1>5. /\ pc'[c] = "out" /\ pc'[w] = "holding" /\ \A e \in Callers \ {c, w} : pc'[e] = pc[e]
      /\ pc' \in [Callers -> {"out", "refused", "validating", "gotIdle", "noIdle", "creating", "waiting", "holding"}]
  BY <1>0, <1>1, <1>2, <1>3 DEF PoolTypes
<1>6. res' \in [Callers -> Resources \cup {None}] /\ res'[w] = res[c] /\ \A e \in Callers \ {w} : res'[e] = res[e]
  BY <1>0, <1>1, <1>2, <1>4 DEF PoolTypes
<1>7. /\ released' \in [Callers -> BOOLEAN]
      /\ released'[c] = TRUE /\ released'[w] = FALSE /\ \A e \in Callers \ {c, w} : released'[e] = released[e]
  BY <1>0, <1>1, <1>2, <1>3 DEF PoolTypes
<1>8. PoolTypes'
  BY <1>0, <1>1, <1>2, <1>5, <1>6, <1>7 DEF PoolTypes
<1>9. LineIsTrue'
  <2>1. waiters \in Seq(Callers)
    BY <1>0 DEF PoolTypes
  <2>2. \A e \in ToSet(waiters) : e \in Callers
    BY <2>1 DEF ToSet
  <2>3. \A e \in ToSet(waiters') : e \in Callers \ {c, w} /\ pc[e] = "waiting"
    BY <1>0, <1>1, <1>2, <2>2 DEF LineIsTrue
  <2> QED BY <1>1, <1>2, <1>5, <2>3 DEF LineIsTrue
<1>10. FlagsAreTrue'
  BY <1>0, <1>5, <1>7 DEF FlagsAreTrue
<1>11. /\ c \in Holders /\ w \notin Holders /\ Holders' = (Holders \ {c}) \cup {w}
       /\ w \notin InUse /\ InUse' = (InUse \ {c}) \cup {w}
  BY <1>2, <1>3, <1>5 DEF Holders, InUse
<1>12. CountIsTrue'
  BY <1>0, <1>2, <1>11, HolderNext DEF CountIsTrue
<1>13. Hands' = Hands
  <2>1. \A e \in InUse : e = c \/ (e \in InUse' /\ res'[e] = res[e])
    BY <1>6, <1>11 DEF InUse
  <2>2. \A e \in InUse' : e = w \/ (e \in InUse /\ res'[e] = res[e])
    BY <1>6, <1>11 DEF InUse
  <2>3. w \in InUse' /\ res'[w] = res[c]
    BY <1>6, <1>11
  <2> QED BY <1>4, <2>1, <2>2, <2>3 DEF Hands
<1>14. \A e, f \in InUse' : res'[e] = res'[f] => e = f
  <2>1. \A e \in InUse' : e = w \/ (e \in InUse /\ e # c /\ res'[e] = res[e])
    BY <1>3, <1>6, <1>11 DEF InUse
  <2> QED BY <1>0, <1>4, <1>6, <2>1 DEF EachOnce
<1>15. EachOnce'
  BY <1>0, <1>1, <1>14 DEF EachOnce
<1>16. Taken' = Taken
  BY DEF Taken
<1> QED BY <1>0, <1>1, <1>8, <1>9, <1>10, <1>12, <1>13, <1>15, <1>16
        DEF PoolIInv, DrainingIsEmpty, DrainsAreTrue, Partition

LEMMA PutBackIInv ==
  ASSUME PoolIInv, NEW c \in Callers, pc[c] = "holding", ~draining, PutBack(c, res[c]),
         UNCHANGED <<draining, toDestroy, created, destroyed, overlapped>>
  PROVE  PoolIInv'
<1>0. PoolTypes /\ CountIsTrue /\ LineIsTrue /\ FlagsAreTrue /\ DrainingIsEmpty /\ DrainsAreTrue /\ EachOnce /\ Partition
  BY DEF PoolIInv
<1>1. /\ activeCount' = activeCount - 1 /\ idle' = Append(idle, res[c])
      /\ timers' = IF IdleTimeout THEN timers \cup {res[c]} ELSE timers
      /\ pc' = [pc EXCEPT ![c] = "out"] /\ released' = [released EXCEPT ![c] = TRUE]
      /\ UNCHANGED <<waiters, drainResolve, drainPc, res, destroying>>
  BY DEF PutBack
<1>2. c \in InUse /\ res[c] \in Hands /\ res[c] \in Resources
  BY HeldIsCreated
<1>3. idle' \in Seq(Resources) /\ Once(idle') /\ ToSet(idle') = ToSet(idle) \cup {res[c]}
  <2>1. res[c] \notin ToSet(idle)
    BY <1>0, <1>2 DEF Partition, KindsApart
  <2> QED BY <1>0, <1>1, <1>2, <2>1, Pushed DEF PoolTypes, EachOnce
<1>4. PoolTypes'
  BY <1>0, <1>1, <1>2, <1>3 DEF PoolTypes
<1>5. pc'[c] = "out" /\ \A e \in Callers \ {c} : pc'[e] = pc[e] /\ released'[e] = released[e]
  BY <1>0, <1>1 DEF PoolTypes
<1>6. released'[c] = TRUE
  BY <1>0, <1>1 DEF PoolTypes
<1>7. LineIsTrue'
  BY <1>0, <1>1, <1>5, LineKept
<1>8. c \in Holders /\ Holders' = Holders \ {c} /\ InUse' = InUse \ {c}
  BY <1>5 DEF Holders, InUse
<1>9. CountIsTrue'
  BY <1>0, <1>1, <1>8, HolderOut DEF CountIsTrue
<1>10. FlagsAreTrue'
  BY <1>0, <1>5, <1>6 DEF FlagsAreTrue
<1>11. \A e \in InUse' : res[e] # res[c]
  BY <1>0, <1>2, <1>8 DEF EachOnce
<1>12. Hands' = Hands \ {res[c]} /\ Taken' = Taken
  BY <1>1, <1>8, <1>11 DEF Hands, Taken
<1>13. EachOnce'
  BY <1>0, <1>1, <1>3, <1>8 DEF EachOnce
<1>14. Partition'
  BY <1>0, <1>1, <1>2, <1>3, <1>12 DEF Partition, KindsApart
<1> QED BY <1>0, <1>1, <1>4, <1>7, <1>9, <1>10, <1>13, <1>14 DEF PoolIInv, DrainingIsEmpty, DrainsAreTrue

LEMMA ReleaseIInv == ASSUME PoolIInv, NEW c \in Callers, Release(c) PROVE PoolIInv'
<1>1. pc[c] = "holding"
  BY DEF PoolIInv, FlagsAreTrue, Release
<1>2. ReturnToPool(c, res[c]) /\ UNCHANGED <<draining, toDestroy, created, destroyed, overlapped>>
  BY DEF Release
<1> QED BY <1>1, <1>2, DiscardIInv, HandOverIInv, PutBackIInv DEF ReturnToPool

LEMMA TimerIInv == ASSUME PoolIInv, NEW r \in Resources, IdleTimerFires(r) PROVE PoolIInv'
<1>0. PoolTypes /\ CountIsTrue /\ LineIsTrue /\ FlagsAreTrue /\ DrainingIsEmpty /\ DrainsAreTrue /\ EachOnce /\ Partition
  BY DEF PoolIInv
<1>1. /\ timers' = timers \ {r}
      /\ UNCHANGED <<activeCount, waiters, draining, pc, res, released, toDestroy, created, destroyed, overlapped>>
  BY DEF IdleTimerFires, callerVars
<1>2. Holders' = Holders /\ InUse' = InUse /\ Hands' = Hands /\ Taken' = Taken
  BY <1>1 DEF Holders, InUse, Hands, Taken
<1>3. CountIsTrue' /\ LineIsTrue' /\ FlagsAreTrue'
  BY <1>0, <1>1, <1>2 DEF CountIsTrue, LineIsTrue, FlagsAreTrue
<1>4. CASE UNCHANGED <<idle, destroying, drainPc, drainResolve>>
  <2>1. PoolTypes'
    BY <1>0, <1>1, <1>4 DEF PoolTypes
  <2>2. EachOnce'
    BY <1>0, <1>1, <1>2, <1>4 DEF EachOnce
  <2> QED BY <1>0, <1>1, <1>2, <1>3, <1>4, <2>1, <2>2
          DEF PoolIInv, DrainingIsEmpty, DrainsAreTrue, Partition
<1>5. CASE \E i \in DOMAIN idle : /\ idle[i] = r /\ idle' = RemoveAt(idle, i)
                                  /\ destroying' = destroying \cup {r}
                                  /\ CheckDrainComplete(activeCount, idle')
  <2>1. PICK i \in DOMAIN idle : /\ idle[i] = r /\ idle' = RemoveAt(idle, i)
                                 /\ destroying' = destroying \cup {r}
                                 /\ CheckDrainComplete(activeCount, idle')
    BY <1>5
  <2>2. idle' \in Seq(Resources) /\ Once(idle') /\ ToSet(idle') = ToSet(idle) \ {r} /\ r \in ToSet(idle)
    <3>1. idle \in Seq(Resources) /\ Once(idle)
      BY <1>0 DEF PoolTypes, EachOnce
    <3>2. /\ RemoveAt(idle, i) \in Seq(Resources) /\ Once(RemoveAt(idle, i))
          /\ ToSet(RemoveAt(idle, i)) = ToSet(idle) \ {idle[i]}
      BY <3>1, Spliced
    <3>3. idle[i] \in ToSet(idle)
      BY DEF ToSet
    <3> QED BY <2>1, <3>2, <3>3
  <2>3. /\ drainPc' \in [Drains -> {"none", "destroying", "waiting", "resolved"}]
        /\ drainResolve' \in Drains \cup {None} /\ DrainsAreTrue'
    BY <1>0, <1>1, <2>1, CheckedDrains
  <2>4. PoolTypes'
    BY <1>0, <1>1, <2>1, <2>2, <2>3 DEF PoolTypes
  <2>5. DrainingIsEmpty'
    BY <1>0, <1>1, <2>1 DEF DrainingIsEmpty
  <2>6. EachOnce'
    BY <1>0, <1>1, <1>2, <2>2 DEF EachOnce
  <2>7. Partition'
    BY <1>0, <1>1, <1>2, <2>1, <2>2 DEF Partition, KindsApart
  <2> QED BY <1>3, <2>3, <2>4, <2>5, <2>6, <2>7 DEF PoolIInv
<1> QED BY <1>4, <1>5 DEF IdleTimerFires

-----------------------------------------------------------------------------
LEMMA DestroyIInv == ASSUME PoolIInv, NEW r \in Resources, DestroySettles(r) PROVE PoolIInv'
<1>0. PoolTypes /\ CountIsTrue /\ LineIsTrue /\ FlagsAreTrue /\ DrainingIsEmpty /\ DrainsAreTrue /\ EachOnce /\ Partition
  BY DEF PoolIInv
<1>1. /\ r \in destroying /\ destroying' = destroying \ {r} /\ destroyed' = destroyed \cup {r}
      /\ UNCHANGED <<idle, timers, activeCount, waiters, drainResolve, draining, pc, res, released,
                     drainPc, toDestroy, created, overlapped>>
  BY DEF DestroySettles, poolVars, callerVars, drainVars
<1>2. Holders' = Holders /\ InUse' = InUse /\ Hands' = Hands /\ Taken' = Taken
  BY <1>1 DEF Holders, InUse, Hands, Taken
<1>3. PoolTypes'
  BY <1>0, <1>1 DEF PoolTypes
<1>4. EachOnce'
  BY <1>0, <1>1, <1>2 DEF EachOnce
<1>5. Partition'
  BY <1>0, <1>1, <1>2 DEF Partition, KindsApart
<1> QED BY <1>0, <1>1, <1>2, <1>3, <1>4, <1>5
        DEF PoolIInv, CountIsTrue, LineIsTrue, FlagsAreTrue, DrainingIsEmpty, DrainsAreTrue

LEMMA DrainIInv == ASSUME PoolIInv, NEW d \in Drains, Drain(d) PROVE PoolIInv'
<1>0. PoolTypes /\ CountIsTrue /\ LineIsTrue /\ FlagsAreTrue /\ DrainingIsEmpty /\ DrainsAreTrue /\ EachOnce /\ Partition
  BY DEF PoolIInv
<1>1. /\ drainPc[d] = "none" /\ draining' = TRUE /\ idle' = <<>>
      /\ toDestroy' = [toDestroy EXCEPT ![d] = idle]
      /\ UNCHANGED <<activeCount, waiters, pc, res, released, created, destroyed, overlapped>>
  BY DEF Drain, callerVars
<1>2. toDestroy[d] = <<>> /\ toDestroy'[d] = idle /\ \A e \in Drains \ {d} : toDestroy'[e] = toDestroy[e]
  BY <1>0, <1>1 DEF DrainsAreTrue, PoolTypes
<1>3. Holders' = Holders /\ InUse' = InUse /\ Hands' = Hands
  BY <1>1 DEF Holders, InUse, Hands
<1>4. CountIsTrue' /\ LineIsTrue' /\ FlagsAreTrue' /\ DrainingIsEmpty'
  BY <1>0, <1>1, <1>3 DEF CountIsTrue, LineIsTrue, FlagsAreTrue, DrainingIsEmpty
<1>5. Once(idle') /\ ToSet(idle') = {} /\ idle' \in Seq(Resources)
  BY <1>1 DEF Once, ToSet
<1>6. toDestroy' \in [Drains -> Seq(Resources)]
  BY <1>0, <1>1 DEF PoolTypes
<1>7. CASE idle = <<>>
  <2>1. DrainEnds(d) /\ UNCHANGED <<timers, destroying>>
    BY <1>7 DEF Drain
  <2>2. /\ drainPc' \in [Drains -> {"none", "destroying", "waiting", "resolved"}]
        /\ drainResolve' \in Drains \cup {None} /\ DrainsAreTrue'
    BY <1>0, <1>1, <1>7, <2>1, EndedDrains
  <2>3. toDestroy' = toDestroy
    BY <1>0, <1>1, <1>2, <1>7 DEF PoolTypes
  <2>4. PoolTypes'
    BY <1>0, <1>1, <1>5, <1>6, <2>1, <2>2 DEF PoolTypes
  <2>5. Taken' = Taken
    BY <2>3 DEF Taken
  <2>6. EachOnce'
    BY <1>0, <1>1, <1>3, <1>5, <2>3 DEF EachOnce
  <2>7. Partition'
    BY <1>0, <1>1, <1>3, <1>5, <1>7, <2>1, <2>5 DEF Partition
  <2> QED BY <1>4, <2>2, <2>4, <2>6, <2>7 DEF PoolIInv
<1>8. CASE idle # <<>>
  <2>1. /\ drainPc' = [drainPc EXCEPT ![d] = "destroying"] /\ timers' = timers \ {Head(idle)}
        /\ destroying' = destroying \cup {Head(idle)} /\ drainResolve' = drainResolve
    BY <1>8 DEF Drain
  <2>2. /\ Head(idle) \in Resources /\ Head(idle) = idle[1] /\ Len(idle) \in Nat /\ Len(idle) >= 1
        /\ DOMAIN idle = 1..Len(idle) /\ \A i \in 1..Len(idle) : idle[i] \in Resources
    BY <1>0, <1>8, Shifted DEF PoolTypes
  <2>3. PoolTypes'
    BY <1>0, <1>1, <1>5, <1>6, <2>1, <2>2 DEF PoolTypes
  <2>4. DrainsAreTrue'
    BY <1>0, <1>1, <1>2, <1>8, <2>1 DEF PoolTypes, DrainsAreTrue
  <2>5. \A i \in 2..Len(idle) : i \in 1..Len(idle) /\ idle[i] # Head(idle) /\ idle[i] \in ToSet(idle)
    BY <1>0, <2>2 DEF EachOnce, Once, ToSet
  <2>6. Taken' = Taken \cup (ToSet(idle) \ {Head(idle)})
    <3>1. \A x \in Taken' : x \in Taken \cup (ToSet(idle) \ {Head(idle)})
      BY <1>2, <2>5 DEF Taken
    <3>2. \A x \in Taken : x \in Taken'
      BY <1>2 DEF Taken
    <3>3. ASSUME NEW x \in ToSet(idle) \ {Head(idle)} PROVE x \in Taken'
      <4>1. PICK i \in 1..Len(idle) : idle[i] = x
        BY <2>2 DEF ToSet
      <4>2. i \in 2..Len(toDestroy'[d]) /\ toDestroy'[d][i] = x /\ x \in Resources
        BY <1>2, <2>2, <4>1
      <4> QED BY <4>2 DEF Taken
    <3> QED BY <3>1, <3>2, <3>3
  <2>7. EachOnce'
    <3>1. \A e \in Drains \ {d} : \A j \in 2..Len(toDestroy[e]) : toDestroy[e][j] \in Taken
      <4>1. \A e \in Drains : toDestroy[e] \in Seq(Resources)
        BY <1>0 DEF PoolTypes
      <4>2. \A e \in Drains : \A j \in 2..Len(toDestroy[e]) : toDestroy[e][j] \in Resources
        BY <4>1
      <4> QED BY <4>2 DEF Taken
    <3>2. \A i \in 2..Len(idle) : idle[i] \notin Taken
      BY <1>0, <2>5 DEF Partition, KindsApart
    <3>3. \A i, j \in 2..Len(idle) : idle[i] = idle[j] => i = j
      BY <1>0, <2>2, <2>5 DEF EachOnce, Once
    <3>4. \A e, f \in Drains : \A i \in 2..Len(toDestroy'[e]), j \in 2..Len(toDestroy'[f]) :
            toDestroy'[e][i] = toDestroy'[f][j] => e = f /\ i = j
      <4>1. SUFFICES ASSUME NEW e \in Drains, NEW f \in Drains, NEW i \in 2..Len(toDestroy'[e]),
                            NEW j \in 2..Len(toDestroy'[f]), toDestroy'[e][i] = toDestroy'[f][j]
                     PROVE  e = f /\ i = j
        OBVIOUS
      <4>2. CASE e = d /\ f = d
        BY <1>2, <3>3, <4>1, <4>2
      <4>3. CASE e = d /\ f # d
        BY <1>2, <3>1, <3>2, <4>1, <4>3
      <4>4. CASE e # d /\ f = d
        BY <1>2, <3>1, <3>2, <4>1, <4>4
      <4>5. CASE e # d /\ f # d
        BY <1>0, <1>2, <4>1, <4>5 DEF EachOnce
      <4> QED BY <4>2, <4>3, <4>4, <4>5
    <3> QED BY <1>0, <1>1, <1>3, <1>5, <3>4 DEF EachOnce
  <2>8. Head(idle) \in ToSet(idle)
    BY <2>2 DEF ToSet
  <2>9. Partition'
    BY <1>0, <1>1, <1>3, <1>5, <2>1, <2>6, <2>8 DEF Partition, KindsApart
  <2> QED BY <1>4, <2>3, <2>4, <2>7, <2>9 DEF PoolIInv
<1> QED BY <1>7, <1>8

LEMMA DrainStepIInv == ASSUME PoolIInv, NEW d \in Drains, DrainStep(d) PROVE PoolIInv'
<1> DEFINE list == toDestroy[d]
           rest == Tail(toDestroy[d])
<1>0. PoolTypes /\ CountIsTrue /\ LineIsTrue /\ FlagsAreTrue /\ DrainingIsEmpty /\ DrainsAreTrue /\ EachOnce /\ Partition
  BY DEF PoolIInv
<1>1. /\ drainPc[d] = "destroying" /\ toDestroy' = [toDestroy EXCEPT ![d] = rest]
      /\ UNCHANGED <<idle, activeCount, draining, waiters, pc, res, released, created, destroyed, overlapped>>
  BY DEF DrainStep, callerVars
<1>2. list \in Seq(Resources) /\ list # <<>>
  BY <1>0, <1>1 DEF DrainsAreTrue, PoolTypes
<1>3. /\ rest \in Seq(Resources) /\ Len(list) \in Nat /\ Len(list) >= 1 /\ Len(rest) = Len(list) - 1
      /\ \A i \in 1..Len(rest) : rest[i] = list[i + 1]
  BY <1>2, Shifted
<1>4. toDestroy'[d] = rest /\ \A e \in Drains \ {d} : toDestroy'[e] = toDestroy[e]
  BY <1>0, <1>1 DEF PoolTypes
<1>5. toDestroy' \in [Drains -> Seq(Resources)]
  BY <1>0, <1>1, <1>3 DEF PoolTypes
<1>6. list = toDestroy[d]
  OBVIOUS
<1> HIDE DEF list, rest
<1>7. Holders' = Holders /\ InUse' = InUse /\ Hands' = Hands
  BY <1>1 DEF Holders, InUse, Hands
<1>8. CountIsTrue' /\ LineIsTrue' /\ FlagsAreTrue' /\ DrainingIsEmpty'
  BY <1>0, <1>1, <1>7 DEF CountIsTrue, LineIsTrue, FlagsAreTrue, DrainingIsEmpty
<1>9. ASSUME NEW e \in Drains, NEW i \in 2..Len(toDestroy'[e])
      PROVE  \E k \in 2..Len(toDestroy[e]) : /\ toDestroy'[e][i] = toDestroy[e][k]
                                             /\ k = IF e = d THEN i + 1 ELSE i
  <2>1. CASE e = d
    <3>1. i \in 2..Len(rest)
      BY <1>4, <2>1
    <3>2. i \in 1..Len(rest) /\ i + 1 \in 2..Len(list)
      BY <1>3, <3>1
    <3> QED BY <1>3, <1>4, <1>6, <2>1, <3>2
  <2>2. CASE e # d
    BY <1>4, <2>2
  <2> QED BY <2>1, <2>2
<1>10. EachOnce'
  <2>1. ASSUME NEW e \in Drains, NEW f \in Drains, NEW i \in 2..Len(toDestroy'[e]), NEW j \in 2..Len(toDestroy'[f]),
               toDestroy'[e][i] = toDestroy'[f][j]
        PROVE  e = f /\ i = j
    <3>1. PICK k \in 2..Len(toDestroy[e]) : /\ toDestroy'[e][i] = toDestroy[e][k]
                                            /\ k = IF e = d THEN i + 1 ELSE i
      BY <1>9
    <3>2. PICK m \in 2..Len(toDestroy[f]) : /\ toDestroy'[f][j] = toDestroy[f][m]
                                            /\ m = IF f = d THEN j + 1 ELSE j
      BY <1>9
    <3>3. e = f /\ k = m
      <4>1. toDestroy[e][k] = toDestroy[f][m]
        BY <2>1, <3>1, <3>2
      <4> QED BY <1>0, <4>1 DEF EachOnce
    <3>4. i \in Int /\ j \in Int
      OBVIOUS
    <3> QED BY <3>1, <3>2, <3>3, <3>4
  <2> QED BY <1>0, <1>1, <1>7, <2>1 DEF EachOnce
<1>11. \A x \in Taken' : x \in Taken
  BY <1>9 DEF Taken
<1>12. CASE rest = <<>>
  <2>1. DrainEnds(d) /\ UNCHANGED <<timers, destroying>>
    BY <1>12 DEF DrainStep, rest
  <2>2. /\ drainPc' \in [Drains -> {"none", "destroying", "waiting", "resolved"}]
        /\ drainResolve' \in Drains \cup {None} /\ DrainsAreTrue'
    BY <1>0, <1>1, <1>12, <2>1, EndedDrains
  <2>3. PoolTypes'
    BY <1>0, <1>1, <1>5, <2>1, <2>2 DEF PoolTypes
  <2>4. Len(list) = 1 /\ Len(toDestroy[d]) = 1
    <3>1. Len(rest) = 0
      BY <1>12
    <3> QED BY <1>3, <1>6, <3>1
  <2>5. \A x \in Taken : x \in Taken'
    <3>1. SUFFICES ASSUME NEW x \in Taken PROVE x \in Taken'
      OBVIOUS
    <3>2. PICK e \in Drains : \E j \in 2..Len(toDestroy[e]) : toDestroy[e][j] = x
      BY DEF Taken
    <3>3. e # d
      BY <2>4, <3>2
    <3> QED BY <1>4, <3>2, <3>3 DEF Taken
  <2>6. Taken' = Taken
    BY <1>11, <2>5
  <2>7. Partition'
    BY <1>0, <1>1, <1>7, <2>1, <2>6 DEF Partition
  <2> QED BY <1>8, <1>10, <2>2, <2>3, <2>7 DEF PoolIInv
<1>13. CASE rest # <<>>
  <2>1. /\ timers' = timers \ {Head(rest)} /\ destroying' = destroying \cup {Head(rest)}
        /\ UNCHANGED <<drainPc, drainResolve>>
    BY <1>13 DEF DrainStep, rest
  <2>2. Head(rest) \in Resources /\ Head(rest) = list[2] /\ Len(rest) >= 1 /\ 2 \in 2..Len(list)
    <3>1. Head(rest) \in Resources /\ Head(rest) = rest[1] /\ Len(rest) >= 1
      BY <1>3, <1>13, Shifted
    <3> QED BY <1>3, <3>1
  <2>3. PoolTypes'
    BY <1>0, <1>1, <1>5, <2>1, <2>2 DEF PoolTypes
  <2>4. DrainsAreTrue'
    BY <1>0, <1>1, <1>4, <1>13, <2>1 DEF DrainsAreTrue
  <2>5. Head(rest) \in Taken
    BY <1>6, <2>2 DEF Taken
  <2>6. Head(rest) \notin Taken'
    <3>1. SUFFICES ASSUME NEW e \in Drains, NEW i \in 2..Len(toDestroy'[e]), toDestroy'[e][i] = Head(rest)
                   PROVE  FALSE
      BY DEF Taken
    <3>2. PICK k \in 2..Len(toDestroy[e]) : /\ toDestroy'[e][i] = toDestroy[e][k]
                                            /\ k = IF e = d THEN i + 1 ELSE i
      BY <1>9
    <3>3. e = d /\ k = 2
      <4>1. toDestroy[e][k] = toDestroy[d][2] /\ 2 \in 2..Len(toDestroy[d])
        BY <1>6, <2>2, <3>1, <3>2
      <4> QED BY <1>0, <4>1 DEF EachOnce
    <3>4. i + 1 = 2 /\ i \in Int /\ i >= 2
      BY <3>2, <3>3
    <3> QED BY <3>4
  <2>7. \A x \in Taken : x = Head(rest) \/ x \in Taken'
    <3>1. SUFFICES ASSUME NEW x \in Taken, x # Head(rest) PROVE x \in Taken'
      OBVIOUS
    <3>2. PICK e \in Drains : \E j \in 2..Len(toDestroy[e]) : toDestroy[e][j] = x
      BY DEF Taken
    <3>3. PICK j \in 2..Len(toDestroy[e]) : toDestroy[e][j] = x
      BY <3>2
    <3>4. CASE e # d
      BY <1>4, <3>3, <3>4 DEF Taken
    <3>5. CASE e = d
      <4>1. j # 2 /\ j \in 2..Len(list)
        BY <1>6, <2>2, <3>1, <3>3, <3>5
      <4>2. j - 1 \in 2..Len(rest) /\ j - 1 \in 1..Len(rest) /\ (j - 1) + 1 = j
        BY <1>3, <4>1
      <4>3. toDestroy'[d][j - 1] = x
        BY <1>3, <1>4, <1>6, <3>3, <3>5, <4>2
      <4> QED BY <1>4, <4>2, <4>3 DEF Taken
    <3> QED BY <3>4, <3>5
  <2>8. Taken' = Taken \ {Head(rest)}
    BY <1>11, <2>6, <2>7
  <2>9. Partition'
    <3> DEFINE x == Head(rest)
    <3> HIDE DEF x
    <3>1. x \in Taken /\ Taken' = Taken \ {x} /\ destroying' = destroying \cup {x}
      BY <2>1, <2>5, <2>8 DEF x
    <3>2. KindsApart(ToSet(idle), Hands, Taken, destroying, destroyed)'
      BY <1>0, <1>1, <1>7, <3>1 DEF Partition, KindsApart
    <3>3. (Taken \ {x}) \cup (destroying \cup {x}) = Taken \cup destroying
      BY <3>1
    <3> QED BY <1>0, <1>1, <1>7, <3>1, <3>2, <3>3 DEF Partition
  <2> QED BY <1>8, <1>10, <2>3, <2>4, <2>9 DEF PoolIInv
<1> QED BY <1>12, <1>13

-----------------------------------------------------------------------------
LEMMA PoolStepIInv == PoolIInv /\ [Next]_vars => PoolIInv'
<1> SUFFICES ASSUME PoolIInv, [Next]_vars PROVE PoolIInv'
  OBVIOUS
<1>1. ASSUME NEW c \in Callers,
             Acquire(c) \/ ValidateSettles(c) \/ GotIdle(c) \/ NoIdle(c) \/ CreateSettles(c) \/ Release(c)
      PROVE  PoolIInv'
  BY <1>1, AcquireIInv, ValidateIInv, GotIdleIInv, NoIdleIInv, CreateIInv, ReleaseIInv
<1>2. ASSUME NEW r \in Resources, IdleTimerFires(r) \/ DestroySettles(r) PROVE PoolIInv'
  BY <1>2, TimerIInv, DestroyIInv
<1>3. ASSUME NEW d \in Drains, Drain(d) \/ DrainStep(d) PROVE PoolIInv'
  BY <1>3, DrainIInv, DrainStepIInv
<1>4. CASE UNCHANGED vars
  <2>1. UNCHANGED <<idle, timers, activeCount, waiters, drainResolve, draining, pc, res, released,
                    drainPc, toDestroy, created, destroying, destroyed, overlapped>>
    BY <1>4 DEF vars, poolVars, callerVars, drainVars, resourceVars
  <2>2. PoolTypes' /\ CountIsTrue' /\ LineIsTrue' /\ FlagsAreTrue' /\ DrainingIsEmpty' /\ DrainsAreTrue'
    BY <2>1 DEF PoolIInv, PoolTypes, CountIsTrue, Holders, LineIsTrue, FlagsAreTrue, DrainingIsEmpty, DrainsAreTrue
  <2>3. InUse' = InUse /\ Hands' = Hands /\ Taken' = Taken
    BY <2>1 DEF InUse, Hands, Taken
  <2>4. EachOnce' /\ Partition'
    BY <2>1, <2>3 DEF PoolIInv, EachOnce, Partition
  <2> QED BY <2>2, <2>4 DEF PoolIInv
<1> QED BY <1>1, <1>2, <1>3, <1>4 DEF Next

\* Each once and kinds apart: one place.
LEMMA OnePlaceEach == PoolIInv => OnePlace
<1> SUFFICES ASSUME PoolIInv, NEW r \in 1..created PROVE Cardinality(Places(r)) = 1
  BY DEF OnePlace
<1>0. EachOnce /\ Partition /\ created \in 0..MaxCreated /\ PoolTypes
  BY DEF PoolIInv, PoolTypes
<1> DEFINE pi == {<<"idle", i>> : i \in {j \in DOMAIN idle : idle[j] = r}}
           ph == {<<"hand", c>> : c \in InHand(r)}
           pt == {<<"drain", d>> : d \in {e \in Drains : \E j \in 2..Len(toDestroy[e]) : toDestroy[e][j] = r}}
           pg == IF r \in destroying THEN {"destroying"} ELSE {}
           px == IF r \in destroyed THEN {"destroyed"} ELSE {}
<1>1. Places(r) = pi \cup ph \cup pt \cup pg \cup px
  BY DEF Places
<1>2. r \notin ToSet(idle) => pi = {}
  BY DEF ToSet
<1>3. r \notin Hands => ph = {}
  BY DEF Hands, InUse, InHand
<1>4. r \notin Taken => pt = {}
  BY <1>0, PoolAssumption DEF Taken, Resources
<1>5. \A x : {x} = Places(r) => Cardinality(Places(r)) = 1
  BY FS_Singleton
<1>6. CASE r \in ToSet(idle)
  <2>1. PICK i \in DOMAIN idle : idle[i] = r
    BY <1>6 DEF ToSet
  <2>2. {j \in DOMAIN idle : idle[j] = r} = {i}
    BY <1>0, <2>1 DEF EachOnce, Once
  <2>3. pi = {<<"idle", i>>}
    BY <2>2
  <2>4. ph = {} /\ pt = {} /\ pg = {} /\ px = {}
    BY <1>0, <1>3, <1>4, <1>6 DEF Partition, KindsApart
  <2> HIDE DEF pi, ph, pt, pg, px
  <2> QED BY <1>1, <1>5, <2>3, <2>4
<1>7. CASE r \in Hands
  <2>1. PICK c \in InUse : res[c] = r
    BY <1>7 DEF Hands
  <2>2. InHand(r) = {c}
    BY <1>0, <2>1 DEF EachOnce, InHand, InUse
  <2>3. ph = {<<"hand", c>>}
    BY <2>2
  <2>4. pi = {} /\ pt = {} /\ pg = {} /\ px = {}
    BY <1>0, <1>2, <1>4, <1>7 DEF Partition, KindsApart
  <2> HIDE DEF pi, ph, pt, pg, px
  <2> QED BY <1>1, <1>5, <2>3, <2>4
<1>8. CASE r \in Taken
  <2>1. PICK d \in Drains : \E j \in 2..Len(toDestroy[d]) : toDestroy[d][j] = r
    BY <1>8 DEF Taken
  <2>2. {e \in Drains : \E j \in 2..Len(toDestroy[e]) : toDestroy[e][j] = r} = {d}
    BY <1>0, <2>1 DEF EachOnce
  <2>3. pt = {<<"drain", d>>}
    BY <2>2
  <2>4. pi = {} /\ ph = {} /\ pg = {} /\ px = {}
    BY <1>0, <1>2, <1>3, <1>8 DEF Partition, KindsApart
  <2> HIDE DEF pi, ph, pt, pg, px
  <2> QED BY <1>1, <1>5, <2>3, <2>4
<1>9. CASE r \in destroying
  <2>1. pi = {} /\ ph = {} /\ pt = {} /\ px = {} /\ pg = {"destroying"}
    BY <1>0, <1>2, <1>3, <1>4, <1>9 DEF Partition, KindsApart
  <2> HIDE DEF pi, ph, pt, pg, px
  <2> QED BY <1>1, <1>5, <2>1
<1>10. CASE r \in destroyed
  <2>1. pi = {} /\ ph = {} /\ pt = {} /\ pg = {} /\ px = {"destroyed"}
    BY <1>0, <1>2, <1>3, <1>4, <1>10 DEF Partition, KindsApart
  <2> HIDE DEF pi, ph, pt, pg, px
  <2> QED BY <1>1, <1>5, <2>1
<1> QED BY <1>0, <1>6, <1>7, <1>8, <1>9, <1>10 DEF Partition

LEMMA TypesFollow == PoolIInv => TypeOK
<1> SUFFICES ASSUME PoolIInv PROVE TypeOK
  OBVIOUS
<1>1. Holders \subseteq Callers
  BY DEF Holders
<1>2. activeCount \in 0..Cardinality(Callers)
  BY <1>1, PoolAssumption, FS_Subset, FS_CardinalityType, HoldersAreCounted DEF PoolIInv, CountIsTrue
<1> QED BY <1>2 DEF PoolIInv, PoolTypes, TypeOK

\* The pool knows where its resources are: each is idle, or in the hands of one caller, or
\* to be destroyed by one drain, or being or having been destroyed, once; and activeCount
\* is how many are lent. For every number of callers, drains, resources and every size.
THEOREM ResourcesExact == Spec => []ResourcesAreCounted
<1>1. PoolIInv => ResourcesAreCounted
  BY OnePlaceEach, TypesFollow DEF ResourcesAreCounted, PoolIInv
<1> QED BY <1>1, PoolInitIInv, PoolStepIInv, PTL DEF Spec

\* From the call of drain() on nothing becomes idle again: what is in use, being created
\* or being validated when it is called comes back to be destroyed.
THEOREM DrainedStaysEmpty == Spec => []DrainingIsEmpty
<1>1. PoolIInv => DrainingIsEmpty
  BY DEF PoolIInv
<1> QED BY <1>1, PoolInitIInv, PoolStepIInv, PTL DEF Spec

-----------------------------------------------------------------------------
\* The size, while acquires do not overlap: what is counted late is then all that is
\* missing from the count.
Filled == {c \in Callers : pc[c] \in {"validating", "gotIdle", "creating", "holding"}}

Fits ==
  ~overlapped => /\ \A c, e \in InFlight : c = e
                 /\ Len(idle) + Cardinality(Filled) <= MaxSize

LEMMA FilledIsCounted == IsFiniteSet(Filled) /\ Cardinality(Filled) \in Nat
BY PoolAssumption, FS_Subset, FS_CardinalityType DEF Filled

LEMMA FilledIn ==
  ASSUME NEW c \in Callers, Filled' = Filled \cup {c}
  PROVE  Cardinality(Filled') \in Nat /\ Cardinality(Filled') <= Cardinality(Filled) + 1
<1>1. CASE c \in Filled
  <2>1. Filled' = Filled
    BY <1>1
  <2>2. Cardinality(Filled') = Cardinality(Filled)
    BY <2>1
  <2>3. Cardinality(Filled) \in Nat
    BY FilledIsCounted
  <2> QED BY <2>2, <2>3
<1>2. CASE c \notin Filled
  BY <1>2, FilledIsCounted, FS_AddElement
<1> QED BY <1>1, <1>2

LEMMA FilledOut ==
  ASSUME NEW c \in Callers, Filled' = Filled \ {c}
  PROVE  /\ Cardinality(Filled') \in Nat /\ Cardinality(Filled') <= Cardinality(Filled)
         /\ c \in Filled => Cardinality(Filled') = Cardinality(Filled) - 1
<1>1. CASE c \in Filled
  <2>1. Cardinality(Filled') = Cardinality(Filled) - 1 /\ IsFiniteSet(Filled')
    BY <1>1, FilledIsCounted, FS_RemoveElement
  <2>2. Cardinality(Filled') \in Nat
    BY <2>1, FS_CardinalityType
  <2> QED BY <2>1, <2>2, FilledIsCounted
<1>2. CASE c \notin Filled
  <2>1. Filled' = Filled
    BY <1>2
  <2>2. Cardinality(Filled') = Cardinality(Filled)
    BY <2>1
  <2>3. Cardinality(Filled) \in Nat
    BY FilledIsCounted
  <2> QED BY <1>2, <2>2, <2>3
<1> QED BY <1>1, <1>2

LEMMA FilledNext ==
  ASSUME NEW c \in Callers, NEW w \in Callers, c \in Filled, w \notin Filled,
         Filled' = (Filled \ {c}) \cup {w}
  PROVE  Cardinality(Filled') = Cardinality(Filled)
<1>1. IsFiniteSet(Filled \ {c}) /\ Cardinality(Filled \ {c}) = Cardinality(Filled) - 1
  BY FilledIsCounted, FS_RemoveElement
<1>2. w \notin Filled \ {c}
  OBVIOUS
<1>3. Cardinality(Filled') = Cardinality(Filled \ {c}) + 1
  BY <1>1, <1>2, FS_AddElement
<1> QED BY <1>1, <1>3, FilledIsCounted

\* A round of tryAcquireIdle: what leaves the list is what the caller takes up.
LEMMA TryFits ==
  ASSUME PoolIInv, Fits, NEW c \in Callers, TryAcquireIdle(c),
         \/ pc[c] = "out" /\ overlapped' = (overlapped \/ InFlight # {})
         \/ pc[c] = "validating" /\ overlapped' = overlapped
  PROVE  Fits'
<1>0. PoolTypes /\ MaxSize \in Nat
  BY PoolAssumption DEF PoolIInv
<1>1. /\ \A e \in Callers \ {c} : pc'[e] = pc[e]
      /\ idle = <<>> => pc'[c] = "noIdle" /\ idle' = idle
      /\ idle # <<>> => pc'[c] \in {"validating", "gotIdle"} /\ idle' = Tail(idle)
  BY <1>0, PoolAssumption DEF PoolTypes, TryAcquireIdle
<1>2. SUFFICES ASSUME ~overlapped'
               PROVE  /\ \A e, f \in InFlight' : e = f
                      /\ Len(idle') + Cardinality(Filled') <= MaxSize
  BY DEF Fits
<1>3. ~overlapped /\ (\A e \in InFlight : e = c)
  <2>1. CASE pc[c] = "out" /\ overlapped' = (overlapped \/ InFlight # {})
    BY <1>2, <2>1
  <2>2. CASE pc[c] = "validating" /\ overlapped' = overlapped
    <3>1. c \in InFlight
      BY <2>2 DEF InFlight
    <3>2. ~overlapped
      BY <1>2, <2>2
    <3> QED BY <3>1, <3>2 DEF Fits
  <2> QED BY <2>1, <2>2
<1>4. \A e, f \in InFlight' : e = f
  BY <1>1, <1>3 DEF InFlight
<1>5. Len(idle) \in Nat /\ Len(idle) + Cardinality(Filled) <= MaxSize
  BY <1>0, <1>3 DEF Fits, PoolTypes
<1>6. CASE idle = <<>>
  <2>1. Filled' = Filled \ {c}
    BY <1>1, <1>6 DEF Filled
  <2>2. Cardinality(Filled') \in Nat /\ Cardinality(Filled') <= Cardinality(Filled)
    BY <2>1, FilledOut
  <2> QED BY <1>0, <1>1, <1>4, <1>5, <1>6, <2>2, FilledIsCounted
<1>7. CASE idle # <<>>
  <2>1. Filled' = Filled \cup {c}
    BY <1>1, <1>7 DEF Filled
  <2>2. Len(idle') = Len(idle) - 1
    BY <1>0, <1>1, <1>7, Shifted DEF PoolTypes
  <2>3. Cardinality(Filled') \in Nat /\ Cardinality(Filled') <= Cardinality(Filled) + 1
    BY <2>1, FilledIn
  <2> QED BY <1>0, <1>4, <1>5, <2>2, <2>3, FilledIsCounted
<1> QED BY <1>6, <1>7

LEMMA ReleaseFits == ASSUME PoolIInv, Fits, NEW c \in Callers, Release(c) PROVE Fits'
<1>0. PoolTypes /\ LineIsTrue /\ MaxSize \in Nat
  BY PoolAssumption DEF PoolIInv
<1>1. pc[c] = "holding" /\ overlapped' = overlapped /\ ReturnToPool(c, res[c])
  BY DEF PoolIInv, FlagsAreTrue, Release
<1>2. c \in Filled /\ c \notin InFlight
  BY <1>1 DEF Filled, InFlight
<1>3. SUFFICES ASSUME ~overlapped
               PROVE  /\ \A e, f \in InFlight' : e = f
                      /\ Len(idle') + Cardinality(Filled') <= MaxSize
  BY <1>1 DEF Fits
<1>4. /\ Len(idle) \in Nat /\ Len(idle) + Cardinality(Filled) <= MaxSize
      /\ \A e, f \in InFlight : e = f
  BY <1>0, <1>3 DEF Fits, PoolTypes
<1>5. CASE pc' = [pc EXCEPT ![c] = "out"]
  <2>1. Filled' = Filled \ {c} /\ InFlight' = InFlight
    BY <1>0, <1>2, <1>5 DEF Filled, InFlight, PoolTypes
  <2>2. Cardinality(Filled') = Cardinality(Filled) - 1
    BY <1>2, <2>1, FilledOut
  <2>3. CASE idle' = idle
    BY <1>0, <1>4, <2>1, <2>2, <2>3, FilledIsCounted
  <2>4. CASE idle' = Append(idle, res[c])
    <3>1. res[c] \in Resources /\ idle \in Seq(Resources)
      BY <1>0, <1>1, HeldIsCreated DEF PoolTypes
    <3>2. Len(idle') = Len(idle) + 1
      BY <2>4, <3>1
    <3> QED BY <1>4, <2>1, <2>2, <3>2, FilledIsCounted
  <2>5. idle' = idle \/ idle' = Append(idle, res[c])
    <3>1. CASE HandOver(c, res[c])
      BY <3>1 DEF HandOver
    <3> QED BY <1>1, <3>1 DEF ReturnToPool, Discard, PutBack
  <2> QED BY <2>3, <2>4, <2>5
<1>6. CASE HandOver(c, res[c])
  <2> DEFINE w == Head(waiters)
  <2>1. /\ waiters # <<>> /\ idle' = idle
        /\ pc' = [pc EXCEPT ![c] = "out", ![w] = "holding"]
    BY <1>6 DEF HandOver
  <2>2. w \in Callers /\ w \in ToSet(waiters)
    BY <1>0, <2>1, Shifted, ShiftedOnce DEF PoolTypes, LineIsTrue
  <2>3. pc[w] = "waiting"
    BY <1>0, <2>2 DEF LineIsTrue
  <2> HIDE DEF w
  <2>4. /\ pc'[c] = "out" /\ pc'[w] = "holding" /\ \A e \in Callers \ {c, w} : pc'[e] = pc[e]
    BY <1>0, <1>1, <2>1, <2>2, <2>3 DEF PoolTypes
  <2>5. w \notin Filled /\ Filled' = (Filled \ {c}) \cup {w} /\ InFlight' = InFlight
    BY <1>1, <2>2, <2>3, <2>4 DEF Filled, InFlight
  <2>6. Cardinality(Filled') = Cardinality(Filled)
    BY <1>2, <2>2, <2>5, FilledNext
  <2> QED BY <1>4, <2>1, <2>5, <2>6
<1> QED BY <1>1, <1>5, <1>6 DEF ReturnToPool, Discard, PutBack

LEMMA CallerFits ==
  ASSUME PoolIInv, Fits, NEW c \in Callers,
         Acquire(c) \/ ValidateSettles(c) \/ GotIdle(c) \/ NoIdle(c) \/ CreateSettles(c)
  PROVE  Fits'
<1>0. PoolTypes /\ CountIsTrue /\ MaxSize \in Nat
  BY PoolAssumption DEF PoolIInv
<1>1. CASE idle' = idle /\ overlapped' = overlapped /\ Filled' = Filled /\ InFlight' \subseteq InFlight
  BY <1>1 DEF Fits
<1>2. ASSUME NEW to \in {"out", "refused", "gotIdle", "creating", "waiting", "holding"}, pc' = [pc EXCEPT ![c] = to]
      PROVE  pc'[c] = to /\ \A e \in Callers \ {c} : pc'[e] = pc[e]
  BY <1>0, <1>2 DEF PoolTypes
<1>3. CASE Acquire(c)
  <2>1. CASE draining
    <3>1. pc[c] = "out" /\ pc' = [pc EXCEPT ![c] = "refused"] /\ idle' = idle /\ overlapped' = overlapped
      BY <1>3, <2>1 DEF Acquire
    <3>2. Filled' = Filled /\ InFlight' = InFlight
      BY <1>2, <3>1 DEF Filled, InFlight
    <3> QED BY <1>1, <3>1, <3>2
  <2>2. CASE ~draining
    BY <1>3, <2>2, TryFits DEF Acquire
  <2> QED BY <2>1, <2>2
<1>4. CASE ValidateSettles(c)
  <2>1. pc[c] = "validating" /\ overlapped' = overlapped
    BY <1>4 DEF ValidateSettles
  <2>2. CASE pc' = [pc EXCEPT ![c] = "gotIdle"] /\ idle' = idle
    <3>1. Filled' = Filled /\ InFlight' = InFlight
      BY <1>2, <2>1, <2>2 DEF Filled, InFlight
    <3> QED BY <1>1, <2>1, <2>2, <3>1
  <2>3. CASE TryAcquireIdle(c)
    BY <2>1, <2>3, TryFits
  <2> QED BY <1>4, <2>2, <2>3 DEF ValidateSettles
<1>5. CASE GotIdle(c)
  <2>1. pc[c] = "gotIdle" /\ pc' = [pc EXCEPT ![c] = "holding"] /\ idle' = idle /\ overlapped' = overlapped
    BY <1>5 DEF GotIdle, Hold
  <2>2. Filled' = Filled /\ InFlight' = InFlight \ {c}
    BY <1>2, <2>1 DEF Filled, InFlight
  <2> QED BY <1>1, <2>1, <2>2
<1>6. CASE NoIdle(c)
  <2>1. /\ pc[c] = "noIdle" /\ idle' = idle /\ overlapped' = overlapped
        /\ \/ Len(idle) + activeCount < MaxSize /\ pc' = [pc EXCEPT ![c] = "creating"]
           \/ pc' = [pc EXCEPT ![c] = "waiting"]
    BY <1>6 DEF NoIdle
  <2>2. CASE pc' = [pc EXCEPT ![c] = "waiting"]
    <3>1. Filled' = Filled /\ InFlight' = InFlight \ {c}
      BY <1>2, <2>1, <2>2 DEF Filled, InFlight
    <3> QED BY <1>1, <2>1, <3>1
  <2>3. CASE Len(idle) + activeCount < MaxSize /\ pc' = [pc EXCEPT ![c] = "creating"]
    <3>1. InFlight' = InFlight /\ Filled' = Filled \cup {c}
      BY <1>2, <2>1, <2>3 DEF Filled, InFlight
    <3>2. SUFFICES ASSUME ~overlapped PROVE Len(idle') + Cardinality(Filled') <= MaxSize
      BY <2>1, <3>1 DEF Fits
    <3>3. \A e \in InFlight : e = c
      BY <2>1, <3>2 DEF Fits, InFlight
    <3>4. Filled = Holders
      BY <2>1, <3>3 DEF Filled, Holders, InFlight
    <3>5. Cardinality(Filled') <= activeCount + 1 /\ Cardinality(Filled') \in Nat
      BY <1>0, <3>1, <3>4, FilledIn DEF CountIsTrue
    <3>6. Len(idle) \in Nat /\ activeCount \in Int
      BY <1>0 DEF PoolTypes
    <3> QED BY <1>0, <2>1, <2>3, <3>5, <3>6
  <2> QED BY <2>1, <2>2, <2>3
<1>7. CASE CreateSettles(c)
  <2>1. pc[c] = "creating" /\ idle' = idle /\ overlapped' = overlapped
    BY <1>7 DEF CreateSettles
  <2>2. CASE pc' = [pc EXCEPT ![c] = "holding"]
    <3>1. Filled' = Filled /\ InFlight' = InFlight \ {c}
      BY <1>2, <2>1, <2>2 DEF Filled, InFlight
    <3> QED BY <1>1, <2>1, <3>1
  <2>3. CASE pc' = [pc EXCEPT ![c] = "out"]
    <3>1. Filled' = Filled \ {c} /\ InFlight' = InFlight \ {c}
      BY <1>2, <2>1, <2>3 DEF Filled, InFlight
    <3>2. Cardinality(Filled') = Cardinality(Filled) - 1
      <4>1. c \in Filled
        BY <2>1 DEF Filled
      <4> QED BY <3>1, <4>1, FilledOut
    <3>3. Len(idle) \in Nat
      BY <1>0 DEF PoolTypes
    <3> QED BY <1>0, <2>1, <3>1, <3>2, <3>3, FilledIsCounted DEF Fits
  <2> QED BY <1>7, <2>2, <2>3 DEF CreateSettles, Hold
<1> QED BY <1>3, <1>4, <1>5, <1>6, <1>7

LEMMA OtherFits ==
  ASSUME PoolIInv, Fits, pc' = pc, overlapped' = overlapped,
         \/ idle' = idle \/ idle' = <<>>
         \/ \E i \in DOMAIN idle : idle' = RemoveAt(idle, i)
  PROVE  Fits'
<1>1. Filled' = Filled /\ InFlight' = InFlight
  BY DEF Filled, InFlight
<1>2. idle \in Seq(Resources) /\ Once(idle) /\ MaxSize \in Nat /\ Len(idle) \in Nat
  BY PoolAssumption DEF PoolIInv, PoolTypes, EachOnce
<1>3. Len(idle') \in Int /\ Len(idle') <= Len(idle)
  <2>1. CASE \E i \in DOMAIN idle : idle' = RemoveAt(idle, i)
    <3>1. PICK i \in DOMAIN idle : idle' = RemoveAt(idle, i)
      BY <2>1
    <3>2. Len(idle') = Len(idle) - 1
      BY <1>2, <3>1, Spliced
    <3> QED BY <1>2, <3>2
  <2> QED BY <1>2, <2>1
<1> QED BY <1>1, <1>2, <1>3, FilledIsCounted DEF Fits

LEMMA PoolFits == PoolIInv /\ Fits /\ [Next]_vars => Fits'
<1> SUFFICES ASSUME PoolIInv, Fits, [Next]_vars PROVE Fits'
  OBVIOUS
<1>1. ASSUME NEW c \in Callers,
             Acquire(c) \/ ValidateSettles(c) \/ GotIdle(c) \/ NoIdle(c) \/ CreateSettles(c) \/ Release(c)
      PROVE  Fits'
  BY <1>1, CallerFits, ReleaseFits
<1>2. ASSUME NEW r \in Resources, IdleTimerFires(r) \/ DestroySettles(r) PROVE Fits'
  <2>1. CASE IdleTimerFires(r)
    BY <2>1, OtherFits DEF IdleTimerFires, callerVars
  <2>2. CASE DestroySettles(r)
    BY <2>2, OtherFits DEF DestroySettles, callerVars, poolVars
  <2> QED BY <1>2, <2>1, <2>2
<1>3. ASSUME NEW d \in Drains, Drain(d) \/ DrainStep(d) PROVE Fits'
  BY <1>3, OtherFits DEF Drain, DrainStep, callerVars
<1>4. CASE UNCHANGED vars
  BY <1>4, OtherFits DEF vars, callerVars, poolVars
<1> QED BY <1>1, <1>2, <1>3, <1>4 DEF Next

\* While no two acquires were in flight together, the pool keeps to maxSize, counting the
\* resource that is being validated or created.
THEOREM SerialSize == Spec => []SerialFits
<1>1. Init => Fits
  <2> SUFFICES ASSUME Init PROVE Fits
    OBVIOUS
  <2>1. InFlight = {} /\ Filled = {} /\ Len(idle) = 0
    BY DEF Init, InFlight, Filled
  <2>2. Cardinality(Filled) = 0
    BY <2>1, FS_EmptySet
  <2> QED BY <2>1, <2>2, PoolAssumption DEF Fits
<1>2. Fits => SerialFits
  BY DEF Fits, SerialFits, Filled
<1> QED BY <1>1, <1>2, PoolInitIInv, PoolStepIInv, PoolFits, PTL DEF Spec
-----------------------------------------------------------------------------
(* PoolPromise: each step, seen as what is lent, made, gone and in line.       *)

\* What is lent, and what the pool may still lend or retire.
LEMMA LentAre ==
  ASSUME PoolIInv
  PROVE  /\ \A c \in Callers : Lent[c] # None <=> pc[c] = "holding"
         /\ \A c \in Callers : pc[c] = "holding" => Lent[c] = res[c]
         /\ None \notin 1..created
<1>1. \A c \in Callers : pc[c] = "holding" => res[c] \in Resources
  BY HeldIsCreated
<1>2. None \notin Resources /\ None \notin 1..created
  BY PoolAssumption DEF Resources, PoolIInv, PoolTypes
<1> QED BY <1>1, <1>2 DEF Lent

LEMMA SpareAre ==
  ASSUME PoolIInv
  PROVE  /\ ToSet(idle) \cup Taken \subseteq Promise!Spare
         /\ \A c \in Callers : pc[c] \in {"validating", "gotIdle"} => res[c] \in Promise!Spare
<1>1. /\ KindsApart(ToSet(idle), Hands, Taken, destroying, destroyed)
      /\ ToSet(idle) \cup Hands \cup Taken \cup destroying \cup destroyed = 1..created
  BY DEF PoolIInv, Partition
<1>2. ASSUME NEW c \in Callers, NEW r \in 1..created, Lent[c] = r
      PROVE  c \in InUse /\ pc[c] = "holding" /\ res[c] = r /\ r \in Hands
  <2>1. pc[c] = "holding" /\ res[c] = r
    BY <1>2, LentAre
  <2> QED BY <2>1, HeldIsCreated
<1>3. ToSet(idle) \cup Taken \subseteq Promise!Spare
  BY <1>1, <1>2 DEF KindsApart, Promise!Spare
<1>4. ASSUME NEW c \in Callers, pc[c] \in {"validating", "gotIdle"} PROVE res[c] \in Promise!Spare
  <2>1. c \in InUse /\ res[c] \in Hands
    BY <1>4 DEF InUse, Hands
  <2>2. \A e \in Callers : Lent[e] # res[c]
    <3>1. SUFFICES ASSUME NEW e \in Callers, Lent[e] = res[c] PROVE FALSE
      OBVIOUS
    <3>2. res[c] \in 1..created
      BY <1>1, <2>1
    <3>3. e \in InUse /\ pc[e] = "holding" /\ res[e] = res[c]
      BY <1>2, <3>1, <3>2
    <3> QED BY <1>4, <2>1, <3>3 DEF PoolIInv, EachOnce
  <2> QED BY <1>1, <2>1, <2>2 DEF KindsApart, Promise!Spare
<1> QED BY <1>3, <1>4

\* Whoever neither holds nor waits may ask.
LEMMA AsksAre ==
  ASSUME PoolIInv, NEW c \in Callers, pc[c] \notin {"holding", "waiting"}
  PROVE  Promise!Asks(c)
<1>1. Lent[c] = None
  BY LentAre
<1>2. c \notin ToSet(waiters)
  BY DEF PoolIInv, LineIsTrue
<1> QED BY <1>1, <1>2 DEF Promise!Asks, ToSet, Promise!ToSet

LEMMA StutterPromised ==
  ASSUME Lent' = Lent, UNCHANGED <<created, waiters, draining>>,
         (destroying \cup destroyed)' = destroying \cup destroyed
  PROVE  UNCHANGED Promise!specVars
BY DEF Promise!specVars

LEMMA RetirePromised ==
  ASSUME Lent' = Lent, UNCHANGED <<created, waiters, draining, destroyed>>,
         NEW r \in Promise!Spare, destroying' = destroying \cup {r}
  PROVE  Promise!Next
<1>1. Promise!Retire(r)
  BY DEF Promise!Retire
<1> QED BY <1>1 DEF Promise!Next

\* The round of tryAcquireIdle() for a caller that does not hold keeps what is lent.
LEMMA TryKeepsLent ==
  ASSUME PoolIInv, NEW c \in Callers, pc[c] # "holding", TryAcquireIdle(c)
  PROVE  Lent' = Lent
<1>1. \A e \in Callers \ {c} : pc'[e] = pc[e] /\ res'[e] = res[e]
  BY DEF TryAcquireIdle, PoolIInv, PoolTypes
<1>2. pc'[c] # "holding"
  BY DEF TryAcquireIdle, PoolIInv, PoolTypes
<1> QED BY <1>1, <1>2 DEF Lent

LEMMA AcquirePromised ==
  ASSUME PoolIInv, NEW c \in Callers, Acquire(c)
  PROVE  UNCHANGED Promise!specVars
<1>1. pc[c] = "out" /\ UNCHANGED <<created, waiters, draining, destroying, destroyed>>
  BY DEF Acquire, resourceVars
<1>2. Lent' = Lent
  <2>1. CASE draining
    <3>1. pc' = [pc EXCEPT ![c] = "refused"] /\ res' = res
      BY <2>1 DEF Acquire
    <3> QED BY <1>1, <3>1 DEF Lent, PoolIInv, PoolTypes
  <2>2. CASE ~draining
    BY <1>1, <2>2, TryKeepsLent DEF Acquire
  <2> QED BY <2>1, <2>2
<1> QED BY <1>1, <1>2, StutterPromised

LEMMA ValidatePromised ==
  ASSUME PoolIInv, NEW c \in Callers, ValidateSettles(c)
  PROVE  [Promise!Next]_(Promise!specVars)
<1>1. pc[c] = "validating" /\ UNCHANGED <<created, waiters, draining, destroyed>>
  BY DEF ValidateSettles
<1>2. CASE pc' = [pc EXCEPT ![c] = "gotIdle"] /\ UNCHANGED <<idle, timers, res, destroying>>
  <2>1. Lent' = Lent
    BY <1>1, <1>2 DEF Lent, PoolIInv, PoolTypes
  <2> QED BY <1>1, <1>2, <2>1, StutterPromised
<1>3. CASE destroying' = destroying \cup {res[c]} /\ TryAcquireIdle(c)
  <2>1. Lent' = Lent
    BY <1>1, <1>3, TryKeepsLent
  <2>2. res[c] \in Promise!Spare
    BY <1>1, SpareAre
  <2> QED BY <1>1, <1>3, <2>1, <2>2, RetirePromised
<1> QED BY <1>2, <1>3 DEF ValidateSettles

LEMMA GotIdlePromised ==
  ASSUME PoolIInv, NEW c \in Callers, GotIdle(c)
  PROVE  Promise!Next
<1>1. /\ pc[c] = "gotIdle" /\ pc' = [pc EXCEPT ![c] = "holding"]
      /\ res' = [res EXCEPT ![c] = res[c]]
      /\ UNCHANGED <<created, waiters, draining, destroying, destroyed>>
  BY DEF GotIdle, Hold, resourceVars
<1>2. res[c] \in Promise!Spare /\ Promise!Asks(c)
  BY <1>1, SpareAre, AsksAre
<1>3. Lent' = [Lent EXCEPT ![c] = res[c]]
  BY <1>1 DEF Lent, PoolIInv, PoolTypes
<1>4. Promise!Lend(c, res[c])
  BY <1>1, <1>2, <1>3 DEF Promise!Lend
<1> QED BY <1>2, <1>4 DEF Promise!Next

LEMMA NoIdlePromised ==
  ASSUME PoolIInv, NEW c \in Callers, NoIdle(c)
  PROVE  [Promise!Next]_(Promise!specVars)
<1>1. pc[c] = "noIdle" /\ UNCHANGED <<created, res, draining, destroying, destroyed>>
  BY DEF NoIdle, resourceVars
<1>2. CASE pc' = [pc EXCEPT ![c] = "creating"] /\ UNCHANGED waiters
  <2>1. Lent' = Lent
    BY <1>1, <1>2 DEF Lent, PoolIInv, PoolTypes
  <2> QED BY <1>1, <1>2, <2>1, StutterPromised
<1>3. CASE pc' = [pc EXCEPT ![c] = "waiting"] /\ waiters' = Append(waiters, c)
  <2>1. Lent' = Lent
    BY <1>1, <1>3 DEF Lent, PoolIInv, PoolTypes
  <2>2. Promise!Join(c)
    BY <1>1, <1>3, <2>1, AsksAre DEF Promise!Join
  <2> QED BY <2>2 DEF Promise!Next
<1> QED BY <1>2, <1>3 DEF NoIdle

LEMMA CreatePromised ==
  ASSUME PoolIInv, NEW c \in Callers, CreateSettles(c)
  PROVE  [Promise!Next]_(Promise!specVars)
<1>1. pc[c] = "creating" /\ UNCHANGED <<waiters, draining, destroying, destroyed>>
  BY DEF CreateSettles
<1>2. CASE created < MaxCreated /\ created' = created + 1 /\ Hold(c, created + 1)
  <2>1. /\ pc' = [pc EXCEPT ![c] = "holding"]
        /\ res' = [res EXCEPT ![c] = created + 1]
    BY <1>2 DEF Hold
  <2>2. Lent' = [Lent EXCEPT ![c] = created + 1]
    BY <1>1, <2>1 DEF Lent, PoolIInv, PoolTypes
  <2>3. Promise!Make(c)
    BY <1>1, <1>2, <2>2, AsksAre DEF Promise!Make
  <2> QED BY <2>3 DEF Promise!Next
<1>3. CASE pc' = [pc EXCEPT ![c] = "out"] /\ UNCHANGED <<created, res>>
  <2>1. Lent' = Lent
    BY <1>1, <1>3 DEF Lent, PoolIInv, PoolTypes
  <2> QED BY <1>1, <1>3, <2>1, StutterPromised
<1> QED BY <1>2, <1>3 DEF CreateSettles

LEMMA ReleasePromised ==
  ASSUME PoolIInv, NEW c \in Callers, Release(c)
  PROVE  Promise!Next
<1>1. /\ ~released[c] /\ UNCHANGED <<draining, created, destroyed>>
      /\ ReturnToPool(c, res[c])
  BY DEF Release
<1>2. pc[c] = "holding" /\ Lent[c] = res[c] /\ Lent[c] # None
  BY <1>1, LentAre DEF PoolIInv, FlagsAreTrue
<1>3. CASE draining /\ Discard(c, res[c])
  <2>1. /\ pc' = [pc EXCEPT ![c] = "out"] /\ UNCHANGED <<waiters, res>>
        /\ destroying' = destroying \cup {res[c]}
    BY <1>3 DEF Discard
  <2>2. Lent' = [Lent EXCEPT ![c] = None]
    BY <2>1 DEF Lent, PoolIInv, PoolTypes
  <2>3. (destroying \cup destroyed)' = (destroying \cup destroyed) \cup {Lent[c]}
    BY <1>1, <1>2, <2>1
  <2>4. Promise!GiveBack(c)
    BY <1>1, <1>2, <1>3, <2>1, <2>2, <2>3 DEF Promise!GiveBack
  <2> QED BY <2>4 DEF Promise!Next
<1>4. CASE ~draining /\ HandOver(c, res[c])
  <2> DEFINE w == Head(waiters)
  <2>1. /\ waiters # <<>> /\ waiters' = Tail(waiters)
        /\ pc' = [pc EXCEPT ![c] = "out", ![w] = "holding"]
        /\ res' = [res EXCEPT ![w] = res[c]]
        /\ UNCHANGED destroying
    BY <1>4 DEF HandOver
  <2>2. w \in Callers /\ pc[w] = "waiting"
    <3>1. w \in ToSet(waiters) /\ w \in Callers
      BY <2>1 DEF PoolIInv, PoolTypes, ToSet
    <3> QED BY <3>1 DEF PoolIInv, LineIsTrue
  <2>3. w # c
    BY <1>2, <2>2
  <2> HIDE DEF w
  <2>4. Lent' = [Lent EXCEPT ![c] = None, ![w] = Lent[c]]
    <3>1. /\ pc'[c] = "out" /\ pc'[w] = "holding" /\ res'[w] = res[c]
          /\ \A e \in Callers \ {c, w} : pc'[e] = pc[e] /\ res'[e] = res[e]
      BY <2>1, <2>2, <2>3 DEF PoolIInv, PoolTypes
    <3> QED BY <1>2, <2>2, <2>3, <3>1 DEF Lent
  <2>5. Promise!GiveBack(c)
    BY <1>1, <1>2, <1>4, <2>1, <2>4 DEF Promise!GiveBack, w
  <2> QED BY <2>5 DEF Promise!Next
<1>5. CASE ~draining /\ PutBack(c, res[c])
  <2>1. /\ waiters = <<>> /\ pc' = [pc EXCEPT ![c] = "out"]
        /\ UNCHANGED <<waiters, res, destroying>>
    BY <1>5 DEF PutBack
  <2>2. Lent' = [Lent EXCEPT ![c] = None]
    BY <2>1 DEF Lent, PoolIInv, PoolTypes
  <2>3. Promise!GiveBack(c)
    BY <1>1, <1>2, <1>5, <2>1, <2>2 DEF Promise!GiveBack
  <2> QED BY <2>3 DEF Promise!Next
<1> QED BY <1>1, <1>3, <1>4, <1>5 DEF ReturnToPool

LEMMA TimerPromised ==
  ASSUME PoolIInv, NEW r \in Resources, IdleTimerFires(r)
  PROVE  [Promise!Next]_(Promise!specVars)
<1>1. UNCHANGED <<waiters, draining, pc, res, created, destroyed>>
  BY DEF IdleTimerFires, callerVars
<1>2. Lent' = Lent
  BY <1>1 DEF Lent
<1>3. ASSUME NEW i \in DOMAIN idle, idle[i] = r, destroying' = destroying \cup {r}
      PROVE  Promise!Next
  <2>1. r \in ToSet(idle)
    BY <1>3 DEF ToSet
  <2> QED BY <1>1, <1>2, <1>3, <2>1, SpareAre, RetirePromised
<1>4. CASE UNCHANGED destroying
  BY <1>1, <1>2, <1>4, StutterPromised
<1> QED BY <1>3, <1>4 DEF IdleTimerFires

LEMMA DestroyPromised ==
  ASSUME PoolIInv, NEW r \in Resources, DestroySettles(r)
  PROVE  UNCHANGED Promise!specVars
<1>1. /\ UNCHANGED <<waiters, draining, pc, res, created>>
      /\ (destroying \cup destroyed)' = destroying \cup destroyed
  BY DEF DestroySettles, callerVars, poolVars
<1>2. Lent' = Lent
  BY <1>1 DEF Lent
<1> QED BY <1>1, <1>2, StutterPromised

LEMMA DrainPromised ==
  ASSUME PoolIInv, NEW d \in Drains, Drain(d)
  PROVE  Promise!Next
<1>1. UNCHANGED <<waiters, pc, res, created, destroyed>> /\ draining' = TRUE
  BY DEF Drain, callerVars
<1>2. Lent' = Lent
  BY <1>1 DEF Lent
<1>3. PICK rs \in SUBSET Promise!Spare : destroying' = destroying \cup rs
  <2>1. CASE idle = <<>>
    <3>1. destroying' = destroying \cup {}
      BY <2>1 DEF Drain
    <3> QED BY <3>1
  <2>2. CASE idle # <<>>
    <3>1. destroying' = destroying \cup {Head(idle)}
      BY <2>2 DEF Drain
    <3>2. Head(idle) \in ToSet(idle)
      BY <2>2 DEF ToSet, PoolIInv, PoolTypes
    <3> QED BY <3>1, <3>2, SpareAre
  <2> QED BY <2>1, <2>2
<1>4. Promise!Close(rs)
  BY <1>1, <1>2, <1>3 DEF Promise!Close
<1> QED BY <1>4 DEF Promise!Next

LEMMA DrainStepPromised ==
  ASSUME PoolIInv, NEW d \in Drains, DrainStep(d)
  PROVE  [Promise!Next]_(Promise!specVars)
<1> DEFINE rest == Tail(toDestroy[d])
<1>1. UNCHANGED <<waiters, draining, pc, res, created, destroyed>> /\ drainPc[d] = "destroying"
  BY DEF DrainStep, callerVars
<1>2. Lent' = Lent
  BY <1>1 DEF Lent
<1>3. CASE rest = <<>>
  <2>1. UNCHANGED destroying
    BY <1>3 DEF DrainStep
  <2> QED BY <1>1, <1>2, <2>1, StutterPromised
<1>4. CASE rest # <<>>
  <2>1. destroying' = destroying \cup {Head(rest)}
    BY <1>4 DEF DrainStep
  <2>2. toDestroy[d] \in Seq(Resources) /\ toDestroy[d] # <<>>
    BY <1>1 DEF PoolIInv, PoolTypes, DrainsAreTrue
  <2>3. 2 \in 2..Len(toDestroy[d]) /\ Head(rest) = toDestroy[d][2] /\ Head(rest) \in Resources
    BY <1>4, <2>2
  <2>4. Head(rest) \in Taken
    BY <2>3 DEF Taken
  <2> QED BY <1>1, <1>2, <2>1, <2>4, SpareAre, RetirePromised
<1> QED BY <1>3, <1>4

\* A pool does what PoolPromise says (pool.ts:76), whatever is awaited in between: for any
\* callers, sizes and drains, each step lends a resource that nobody has to one caller, takes
\* one back and passes it on to whoever has waited longest, retires one for good, or shows not.
THEOREM Lending == Spec => LendsAsPromised
<1>1. Init => Promise!Init
  BY DEF Init, Promise!Init, Lent
<1>2. PoolIInv /\ [Next]_vars => [Promise!Next]_(Promise!specVars)
  <2> SUFFICES ASSUME PoolIInv, [Next]_vars PROVE [Promise!Next]_(Promise!specVars)
    OBVIOUS
  <2>1. ASSUME NEW c \in Callers,
               Acquire(c) \/ ValidateSettles(c) \/ GotIdle(c) \/ NoIdle(c) \/ CreateSettles(c) \/ Release(c)
        PROVE  [Promise!Next]_(Promise!specVars)
    BY <2>1, AcquirePromised, ValidatePromised, GotIdlePromised, NoIdlePromised, CreatePromised, ReleasePromised
  <2>2. ASSUME NEW r \in Resources, IdleTimerFires(r) \/ DestroySettles(r)
        PROVE  [Promise!Next]_(Promise!specVars)
    BY <2>2, TimerPromised, DestroyPromised
  <2>3. ASSUME NEW d \in Drains, Drain(d) \/ DrainStep(d)
        PROVE  [Promise!Next]_(Promise!specVars)
    BY <2>3, DrainPromised, DrainStepPromised
  <2>4. CASE UNCHANGED vars
    BY <2>4 DEF vars, poolVars, callerVars, resourceVars, Promise!specVars, Lent
  <2> QED BY <2>1, <2>2, <2>3, <2>4 DEF Next
<1>3. Init => PoolIInv
  BY PoolInitIInv
<1>4. PoolIInv /\ [Next]_vars => PoolIInv'
  BY PoolStepIInv
<1> QED BY <1>1, <1>2, <1>3, <1>4, PTL DEF Spec, LendsAsPromised, Promise!Spec
=============================================================================
