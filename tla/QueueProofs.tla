------------------------------ MODULE QueueProofs ------------------------------
(***************************************************************************)
(* For every number of jobs, slots and drains, whatever the handlers call: *)
(* the slots are counted and used, the line keeps its order, and a drain   *)
(* that resolves finds nothing left to do.                                 *)
(***************************************************************************)
EXTENDS Queue, FiniteSetTheorems, TLAPS

\* Every set of numbers has a least one, which stands in for induction: that the set
\* of the numbers for which something fails has none is what a step proves.
LEMMA LeastNumber ==
  ASSUME NEW T, T \subseteq Nat, T # {}
  PROVE  \E n \in T : \A m \in T : n <= m
<1> DEFINE W == {0..n : n \in T}
<1>1. W \subseteq FiniteSubsetsOf(Nat)
  <2>1. \A n \in T : 0..n \in SUBSET Nat
    OBVIOUS
  <2>2. ASSUME NEW n \in T PROVE IsFiniteSet(0..n)
    <3>1. 0 \in Int /\ n \in Int
      OBVIOUS
    <3> QED BY <3>1, FS_Interval
  <2> QED BY <2>1, <2>2 DEF FiniteSubsetsOf
<1>2. IsWellFoundedOn(StrictSubsetOrdering(Nat), FiniteSubsetsOf(Nat))
  BY FS_StrictSubsetOrderingWellFounded
<1>3. W # {}
  OBVIOUS
<1>4. \E x \in W : \A y \in W : <<y, x>> \notin StrictSubsetOrdering(Nat)
  <2> HIDE DEF W
  <2> QED BY <1>1, <1>2, <1>3, WFMin
<1>5. PICK n \in T : \A y \in W : <<y, 0..n>> \notin StrictSubsetOrdering(Nat)
  BY <1>4
<1>6. ASSUME NEW m \in T, m < n PROVE FALSE
  <2>1. 0..m \subseteq 0..n /\ n \in 0..n /\ n \notin 0..m
    BY <1>6
  <2>2. 0..m \in SUBSET Nat /\ 0..n \in SUBSET Nat
    OBVIOUS
  <2>3. <<0..m, 0..n>> \in StrictSubsetOrdering(Nat)
    BY <2>1, <2>2 DEF StrictSubsetOrdering
  <2> QED BY <2>3, <1>5
<1> QED BY <1>5, <1>6

-----------------------------------------------------------------------------
(* The binary search.                                                           *)

Places == 0..Len(pending)
Ranges == Places \X Places

\* The body of the search, of a function f that answers for the smaller ranges.
Halved(f, range, p, at) ==
  LET low == range[1]
      high == range[2]
      mid == (low + high) \div 2
  IN  IF low >= high THEN low
      ELSE IF GoesBefore(pending[mid + 1], p, at) THEN f[<<mid + 1, high>>]
      ELSE f[<<low, mid>>]

Searches(f, p, at) == f = [range \in Ranges |-> Halved(f, range, p, at)]
SearchesUpTo(n, f, p, at) ==
  \A range \in Ranges : range[2] - range[1] <= n => f[range] = Halved(f, range, p, at)

\* Half a range is a smaller one.
LEMMA Middle ==
  ASSUME NEW low \in Nat, NEW high \in Nat, low < high
  PROVE  LET mid == (low + high) \div 2
         IN  mid \in Nat /\ low <= mid /\ mid < high
  OBVIOUS

LEMMA MiddleIn ==
  ASSUME pending \in Seq(Jobs), NEW range \in Ranges, range[1] < range[2]
  PROVE  LET mid == (range[1] + range[2]) \div 2
         IN  /\ <<mid + 1, range[2]>> \in Ranges /\ <<range[1], mid>> \in Ranges
             /\ range[2] - (mid + 1) < range[2] - range[1] /\ mid - range[1] < range[2] - range[1]
             /\ range[2] - (mid + 1) >= 0 /\ mid - range[1] >= 0
             /\ mid + 1 \in 1..Len(pending)
<1>1. range[1] \in Nat /\ range[2] \in Nat /\ range[2] <= Len(pending) /\ Len(pending) \in Nat
  BY DEF Ranges, Places
<1> DEFINE mid == (range[1] + range[2]) \div 2
<1>2. mid \in Nat /\ range[1] <= mid /\ mid < range[2]
  BY <1>1, Middle
<1> HIDE DEF mid
<1>3. /\ mid + 1 \in Places /\ mid \in Places /\ range[1] \in Places /\ range[2] \in Places
      /\ range[2] - (mid + 1) < range[2] - range[1] /\ mid - range[1] < range[2] - range[1]
      /\ range[2] - (mid + 1) >= 0 /\ mid - range[1] >= 0
      /\ mid + 1 \in 1..Len(pending)
  BY <1>1, <1>2 DEF Places
<1> QED BY <1>3 DEF Ranges, mid

LEMMA SearchGoesOn ==
  ASSUME pending \in Seq(Jobs), NEW p, NEW at, NEW n \in Nat,
         n = 0 \/ \E f : SearchesUpTo(n - 1, f, p, at)
  PROVE  \E f : SearchesUpTo(n, f, p, at)
<1>1. PICK f : n = 0 \/ SearchesUpTo(n - 1, f, p, at)
  OBVIOUS
<1> DEFINE g == [range \in Ranges |-> Halved(f, range, p, at)]
<1>2. ASSUME NEW range \in Ranges, range[2] - range[1] <= n
      PROVE  g[range] = Halved(g, range, p, at)
  <2>1. range[1] \in Int /\ range[2] \in Int
    BY DEF Ranges, Places
  <2>2. CASE range[1] >= range[2]
    BY <2>2 DEF Halved
  <2>3. CASE range[1] < range[2]
    <3> DEFINE mid == (range[1] + range[2]) \div 2
               left == <<range[1], mid>>
               right == <<mid + 1, range[2]>>
    <3>1. /\ left \in Ranges /\ right \in Ranges
          /\ left[2] - left[1] <= n - 1 /\ right[2] - right[1] <= n - 1 /\ n # 0
      BY <2>1, <2>3, <1>2, MiddleIn
    <3>2. f[left] = Halved(f, left, p, at) /\ f[right] = Halved(f, right, p, at)
      BY <3>1, <1>1 DEF SearchesUpTo
    <3>3. g[left] = f[left] /\ g[right] = f[right]
      BY <3>1, <3>2
    <3> HIDE DEF g
    <3>4. Halved(f, range, p, at) = Halved(g, range, p, at)
      BY <3>3 DEF Halved
    <3> QED BY <3>4 DEF g
  <2> QED BY <2>1, <2>2, <2>3
<1> HIDE DEF g
<1>3. SearchesUpTo(n, g, p, at)
  BY <1>2 DEF SearchesUpTo
<1> QED BY <1>3

\* The search is a function: it ends.
LEMMA SearchEnds ==
  ASSUME pending \in Seq(Jobs), NEW p, NEW at
  PROVE  \E f : Searches(f, p, at)
<1> DEFINE T == {n \in Nat : ~ \E f : SearchesUpTo(n, f, p, at)}
<1>1. T = {}
  <2> SUFFICES ASSUME T # {} PROVE FALSE
    OBVIOUS
  <2>1. PICK n \in T : \A m \in T : n <= m
    <3>1. T \subseteq Nat
      OBVIOUS
    <3> HIDE DEF T
    <3> QED BY <3>1, LeastNumber
  <2>2. n = 0 \/ (n - 1 \in Nat /\ n - 1 \notin T)
    BY <2>1
  <2>3. n = 0 \/ \E f : SearchesUpTo(n - 1, f, p, at)
    BY <2>2
  <2>4. \E f : SearchesUpTo(n, f, p, at)
    BY <2>3, SearchGoesOn
  <2> QED BY <2>4
<1>2. Len(pending) \in Nat
  OBVIOUS
<1>3. PICK f : SearchesUpTo(Len(pending), f, p, at)
  BY <1>1, <1>2
<1> DEFINE g == [range \in Ranges |-> Halved(f, range, p, at)]
<1>4. \A range \in Ranges : f[range] = Halved(f, range, p, at)
  <2>1. \A range \in Ranges : range[2] - range[1] <= Len(pending)
    BY <1>2 DEF Ranges, Places
  <2> QED BY <1>3, <2>1 DEF SearchesUpTo
<1>5. ASSUME NEW range \in Ranges PROVE Halved(f, range, p, at) = Halved(g, range, p, at)
  <2>1. range[1] \in Int /\ range[2] \in Int
    BY DEF Ranges, Places
  <2>2. CASE range[1] >= range[2]
    BY <2>2 DEF Halved
  <2>3. CASE range[1] < range[2]
    <3> DEFINE mid == (range[1] + range[2]) \div 2
               left == <<range[1], mid>>
               right == <<mid + 1, range[2]>>
    <3>1. left \in Ranges /\ right \in Ranges
      BY <2>3, MiddleIn
    <3>2. g[left] = f[left] /\ g[right] = f[right]
      BY <3>1, <1>4
    <3> HIDE DEF g
    <3> QED BY <3>2 DEF Halved
  <2> QED BY <2>1, <2>2, <2>3
<1>6. g = [range \in Ranges |-> Halved(g, range, p, at)]
  BY <1>5
<1> QED BY <1>6 DEF Searches

LEMMA SearchIsMade ==
  ASSUME pending \in Seq(Jobs), NEW p, NEW at
  PROVE  \E f : Searches(f, p, at) /\ InsertionPoint(p, at) = f[<<0, Len(pending)>>]
<1> DEFINE search == CHOOSE f : Searches(f, p, at)
<1>1. \E f : Searches(f, p, at)
  BY SearchEnds
<1>2. Searches(search, p, at)
  BY <1>1, Zenon
<1>3. InsertionPoint(p, at) = search[<<0, Len(pending)>>]
  BY Zenon DEF InsertionPoint, Searches, Ranges, Places, Halved
<1> QED BY <1>2, <1>3, Zenon

\* What goes before the new job is the beginning of the line.
Divided(p, at) ==
  \A i, k \in 1..Len(pending) :
    i < k /\ GoesBefore(pending[k], p, at) => GoesBefore(pending[i], p, at)

\* What a search of a range has to find: the place is in it, and if all before the range
\* go before the new job and none behind it does, the same is true of the place.
Separates(low, high, p, at) ==
  /\ \A i \in 1..Len(pending) : i <= low => GoesBefore(pending[i], p, at)
  /\ \A i \in 1..Len(pending) : i > high => ~GoesBefore(pending[i], p, at)
Finds(f, range, p, at) ==
  /\ f[range] \in range[1]..range[2]
  /\ Divided(p, at) /\ Separates(range[1], range[2], p, at) => Separates(f[range], f[range], p, at)

LEMMA HalfFinds ==
  ASSUME pending \in Seq(Jobs), NEW p, NEW at, NEW f, Searches(f, p, at),
         NEW range \in Ranges, range[1] <= range[2],
         \A half \in Ranges : /\ half[1] <= half[2]
                              /\ half[2] - half[1] < range[2] - range[1]
                              => Finds(f, half, p, at)
  PROVE  Finds(f, range, p, at)
<1>1. range[1] \in Nat /\ range[2] \in Nat
  BY DEF Ranges, Places
<1>2. f[range] = Halved(f, range, p, at)
  BY DEF Searches
<1>3. CASE range[1] = range[2]
  <2>1. f[range] = range[1]
    BY <1>1, <1>2, <1>3 DEF Halved
  <2> QED BY <2>1, <1>1, <1>3 DEF Finds
<1>4. CASE range[1] < range[2]
  <2> DEFINE mid == (range[1] + range[2]) \div 2
             left == <<range[1], mid>>
             right == <<mid + 1, range[2]>>
  <2>1. /\ left \in Ranges /\ right \in Ranges
        /\ left[2] - left[1] < range[2] - range[1] /\ right[2] - right[1] < range[2] - range[1]
        /\ mid - range[1] >= 0 /\ range[2] - (mid + 1) >= 0 /\ mid + 1 \in 1..Len(pending)
    BY <1>4, MiddleIn
  <2>2. mid \in Nat /\ Len(pending) \in Nat
    BY <1>1, <1>4, Middle
  <2>3. CASE GoesBefore(pending[mid + 1], p, at)
    <3>1. f[range] = f[right]
      BY <1>1, <1>2, <1>4, <2>3 DEF Halved
    <3> HIDE DEF mid
    <3>2. Finds(f, right, p, at)
      BY <2>1, <2>2, <1>1
    <3>3. ASSUME Divided(p, at), Separates(range[1], range[2], p, at) PROVE Separates(mid + 1, range[2], p, at)
      <4>1. ASSUME NEW i \in 1..Len(pending), i <= mid + 1 PROVE GoesBefore(pending[i], p, at)
        <5>1. i = mid + 1 \/ i < mid + 1
          BY <2>2, <4>1
        <5> QED BY <2>1, <2>3, <3>3, <5>1 DEF Divided
      <4>2. \A i \in 1..Len(pending) : i > range[2] => ~GoesBefore(pending[i], p, at)
        BY <3>3 DEF Separates
      <4> QED BY <4>1, <4>2 DEF Separates
    <3> QED BY <3>1, <3>2, <3>3, <2>1, <2>2, <1>1 DEF Finds
  <2>4. CASE ~GoesBefore(pending[mid + 1], p, at)
    <3>1. f[range] = f[left]
      BY <1>1, <1>2, <1>4, <2>4 DEF Halved
    <3> HIDE DEF mid
    <3>2. Finds(f, left, p, at)
      BY <2>1, <2>2, <1>1
    <3>3. ASSUME Divided(p, at), Separates(range[1], range[2], p, at) PROVE Separates(range[1], mid, p, at)
      <4>1. ASSUME NEW i \in 1..Len(pending), i > mid PROVE ~GoesBefore(pending[i], p, at)
        <5>1. i = mid + 1 \/ mid + 1 < i
          BY <2>2, <4>1
        <5> QED BY <2>1, <2>4, <3>3, <5>1 DEF Divided
      <4>2. \A i \in 1..Len(pending) : i <= range[1] => GoesBefore(pending[i], p, at)
        BY <3>3 DEF Separates
      <4> QED BY <4>1, <4>2 DEF Separates
    <3> QED BY <3>1, <3>2, <3>3, <2>1, <2>2, <1>1 DEF Finds
  <2> QED BY <2>3, <2>4
<1> QED BY <1>1, <1>3, <1>4

\* The place insertSorted() finds is one of the line, and parts those that go before the
\* new job from those that do not.
LEMMA PlaceFound ==
  ASSUME pending \in Seq(Jobs), NEW p, NEW at
  PROVE  /\ InsertionPoint(p, at) \in 0..Len(pending)
         /\ Divided(p, at) => Separates(InsertionPoint(p, at), InsertionPoint(p, at), p, at)
<1>1. PICK f : Searches(f, p, at) /\ InsertionPoint(p, at) = f[<<0, Len(pending)>>]
  BY SearchIsMade
<1> DEFINE T == {n \in Nat : \E range \in Ranges : /\ range[2] - range[1] = n
                                                  /\ ~Finds(f, range, p, at)}
<1>2. T = {}
  <2> SUFFICES ASSUME T # {} PROVE FALSE
    OBVIOUS
  <2>1. PICK n \in T : \A m \in T : n <= m
    <3>1. T \subseteq Nat
      OBVIOUS
    <3> HIDE DEF T
    <3> QED BY <3>1, LeastNumber
  <2>2. PICK range \in Ranges : range[2] - range[1] = n /\ ~Finds(f, range, p, at)
    BY <2>1
  <2>3. range[1] <= range[2]
    BY <2>1, <2>2 DEF Ranges, Places
  <2>4. ASSUME NEW half \in Ranges, half[1] <= half[2], half[2] - half[1] < range[2] - range[1]
        PROVE  Finds(f, half, p, at)
    <3>1. half[1] \in Nat /\ half[2] \in Nat
      BY DEF Ranges, Places
    <3>2. half[2] - half[1] \in Nat /\ half[2] - half[1] \notin T
      BY <3>1, <2>1, <2>2, <2>4
    <3> QED BY <3>2
  <2>5. Finds(f, range, p, at)
    BY <1>1, <2>3, <2>4, HalfFinds
  <2> QED BY <2>2, <2>5
<1> DEFINE all == <<0, Len(pending)>>
<1>3. all \in Ranges /\ all[2] - all[1] \in Nat /\ Len(pending) \in Nat
  BY DEF Ranges, Places
<1>4. Finds(f, all, p, at)
  BY <1>2, <1>3
<1>5. Separates(0, Len(pending), p, at)
  BY <1>3 DEF Separates
<1> QED BY <1>1, <1>4, <1>5 DEF Finds

-----------------------------------------------------------------------------
(* The slots.                                                                   *)

Once(s) == \A i, k \in DOMAIN s : s[i] = s[k] => i = k

LEMMA Inserted ==
  ASSUME NEW S, NEW s \in Seq(S), NEW x \in S, NEW k \in 1..(Len(s) + 1)
  PROVE  /\ InsertAt(s, k, x) \in Seq(S) /\ Len(InsertAt(s, k, x)) = Len(s) + 1
         /\ \A i \in 1..(k - 1) : InsertAt(s, k, x)[i] = s[i]
         /\ InsertAt(s, k, x)[k] = x
         /\ \A i \in k..Len(s) : InsertAt(s, k, x)[i + 1] = s[i]
<1> DEFINE front == SubSeq(s, 1, k - 1)
           back == SubSeq(s, k, Len(s))
           begun == front \o <<x>>
           t == begun \o back
<1>1. Len(s) \in Nat /\ k \in Nat /\ k >= 1 /\ k <= Len(s) + 1
  OBVIOUS
<1>2. front \in Seq(S) /\ Len(front) = k - 1 /\ \A i \in 1..(k - 1) : front[i] = s[i]
  BY <1>1
<1>3. /\ back \in Seq(S) /\ Len(back) = Len(s) - k + 1
      /\ \A i \in 1..(Len(s) - k + 1) : back[i] = s[i + k - 1]
  BY <1>1
<1>4. InsertAt(s, k, x) = t
  BY DEF InsertAt
<1> HIDE DEF front, back
<1>5. /\ begun \in Seq(S) /\ Len(begun) = k /\ begun[k] = x
      /\ \A i \in 1..(k - 1) : begun[i] = front[i]
  BY <1>1, <1>2
<1> HIDE DEF begun
<1>6. t \in Seq(S) /\ Len(t) = k + Len(back)
  <2>1. begun \in Seq(S) /\ back \in Seq(S)
    BY <1>3, <1>5
  <2>2. t \in Seq(S) /\ Len(t) = Len(begun) + Len(back)
    BY <2>1
  <2> QED BY <2>2, <1>5
<1>7. \A i \in 1..(k + Len(back)) : t[i] = IF i <= k THEN begun[i] ELSE back[i - k]
  BY <1>1, <1>3, <1>5
<1>8. Len(back) \in Nat
  BY <1>1, <1>3
<1> HIDE DEF t
<1>9. (\A i \in 1..(k - 1) : t[i] = s[i]) /\ t[k] = x
  <2>1. \A i \in 1..k : t[i] = begun[i]
    BY <1>1, <1>7, <1>8
  <2> QED BY <2>1, <1>1, <1>2, <1>5
<1>10. ASSUME NEW i \in k..Len(s) PROVE t[i + 1] = s[i]
  <2> DEFINE m == i + 1 - k
  <2>1. m \in 1..(Len(s) - k + 1) /\ m + k - 1 = i /\ ~(i + 1 <= k) /\ i + 1 \in 1..(k + Len(back))
    BY <1>1, <1>3
  <2>2. t[i + 1] = back[m]
    BY <1>7, <2>1
  <2> HIDE DEF m
  <2>3. back[m] = s[m + k - 1]
    BY <2>1, <1>3
  <2> QED BY <2>1, <2>2, <2>3
<1>11. Len(t) = Len(s) + 1
  BY <1>1, <1>3, <1>6
<1> QED BY <1>4, <1>6, <1>9, <1>10, <1>11

LEMMA InsertedOnce ==
  ASSUME NEW S, NEW s \in Seq(S), NEW x \in S, NEW k \in 1..(Len(s) + 1), Once(s), x \notin ToSet(s)
  PROVE  Once(InsertAt(s, k, x)) /\ ToSet(InsertAt(s, k, x)) = ToSet(s) \cup {x}
<1> DEFINE t == InsertAt(s, k, x)
<1>1. /\ t \in Seq(S) /\ Len(t) = Len(s) + 1
      /\ \A i \in 1..(k - 1) : t[i] = s[i]
      /\ t[k] = x
      /\ \A i \in k..Len(s) : t[i + 1] = s[i]
  BY Inserted
<1> HIDE DEF t
<1>2. /\ DOMAIN s = 1..Len(s) /\ DOMAIN t = 1..(Len(s) + 1) /\ Len(s) \in Nat
      /\ k \in Nat /\ k >= 1 /\ k <= Len(s) + 1
  BY <1>1
<1>3. ASSUME NEW i \in DOMAIN t
      PROVE  \/ i = k /\ t[i] = x
             \/ i < k /\ i \in DOMAIN s /\ t[i] = s[i]
             \/ i > k /\ i - 1 \in DOMAIN s /\ t[i] = s[i - 1]
  <2>1. CASE i <= k
    BY <1>1, <1>2, <2>1
  <2>2. CASE i > k
    <3> DEFINE m == i - 1
    <3>1. m \in k..Len(s) /\ m + 1 = i /\ m \in DOMAIN s
      BY <1>2, <2>2
    <3> HIDE DEF m
    <3>2. t[m + 1] = s[m]
      BY <3>1, <1>1
    <3> QED BY <3>1, <3>2, <2>2 DEF m
  <2> QED BY <1>2, <2>1, <2>2
<1>4. Once(t)
  <2> SUFFICES ASSUME NEW i \in DOMAIN t, NEW j \in DOMAIN t, t[i] = t[j] PROVE i = j
    BY DEF Once
  <2>1. \A m \in DOMAIN s : s[m] # x
    BY DEF ToSet
  <2>2. i \in Int /\ j \in Int
    BY <1>2
  <2> QED BY <1>2, <1>3, <2>1, <2>2 DEF Once
<1>5. ToSet(t) \subseteq ToSet(s) \cup {x}
  BY <1>3 DEF ToSet
<1>6. x \in ToSet(t)
  BY <1>1, <1>2 DEF ToSet
<1>7. ASSUME NEW y \in ToSet(s) PROVE y \in ToSet(t)
  <2>1. PICK i \in DOMAIN s : s[i] = y
    BY DEF ToSet
  <2>2. (i \in DOMAIN t /\ i \in 1..(k - 1)) \/ (i + 1 \in DOMAIN t /\ i \in k..Len(s))
    BY <1>2
  <2> QED BY <2>1, <2>2, <1>1 DEF ToSet
<1> QED BY <1>4, <1>5, <1>6, <1>7 DEF t

LEMMA Shifted ==
  ASSUME NEW S, NEW s \in Seq(S), s # <<>>
  PROVE  /\ Tail(s) \in Seq(S) /\ Head(s) \in S /\ Head(s) = s[1] /\ Len(s) \in Nat /\ Len(s) >= 1
         /\ Len(Tail(s)) = Len(s) - 1
         /\ \A i \in 1..Len(Tail(s)) : Tail(s)[i] = s[i + 1]
  OBVIOUS

LEMMA ShiftedOnce ==
  ASSUME NEW S, NEW s \in Seq(S), s # <<>>, Once(s)
  PROVE  Once(Tail(s)) /\ Head(s) \in ToSet(s) /\ ToSet(Tail(s)) = ToSet(s) \ {Head(s)}
<1>1. DOMAIN s = 1..Len(s) /\ DOMAIN Tail(s) = 1..Len(Tail(s))
  BY Shifted
<1>2. Once(Tail(s))
  BY <1>1, Shifted DEF Once
<1>3. Head(s) \in ToSet(s)
  BY <1>1, Shifted DEF ToSet
<1>4. \A x \in ToSet(Tail(s)) : x \in ToSet(s) \ {Head(s)}
  BY <1>1, Shifted DEF ToSet, Once
<1>5. ASSUME NEW x \in ToSet(s) \ {Head(s)} PROVE x \in ToSet(Tail(s))
  <2>1. PICK i \in 1..Len(s) : s[i] = x
    BY <1>1 DEF ToSet
  <2>2. i - 1 \in 1..Len(Tail(s)) /\ Tail(s)[i - 1] = s[i]
    BY <2>1, Shifted
  <2> QED BY <1>1, <2>1, <2>2 DEF ToSet
<1> QED BY <1>2, <1>3, <1>4, <1>5

\* The jobs that hold a slot, as their status says.
Holding(of) == {j \in Jobs : of[j] \in {"started", "running", "lost"}}

LEMMA HoldingIsFinite ==
  ASSUME NEW of
  PROVE  IsFiniteSet(Holding(of)) /\ Cardinality(Holding(of)) \in Nat
<1>1. IsFiniteSet(Jobs)
  BY FS_Interval, QueueAssumption DEF Jobs
<1>2. Holding(of) \in SUBSET Jobs
  BY DEF Holding
<1> QED BY <1>1, <1>2, FS_Subset, FS_CardinalityType

LEMMA SlotTaken ==
  ASSUME NEW of, NEW j \in Jobs, NEW next,
         \A k \in Jobs \ {j} : next[k] = of[k], j \notin Holding(of), j \in Holding(next)
  PROVE  Cardinality(Holding(next)) = Cardinality(Holding(of)) + 1
<1>1. Holding(next) = Holding(of) \cup {j}
  BY DEF Holding
<1> QED BY <1>1, HoldingIsFinite, FS_AddElement

LEMMA SlotGiven ==
  ASSUME NEW of, NEW j \in Jobs, NEW next,
         \A k \in Jobs \ {j} : next[k] = of[k], j \in Holding(of), j \notin Holding(next)
  PROVE  Cardinality(Holding(next)) = Cardinality(Holding(of)) - 1 /\ Cardinality(Holding(of)) >= 1
<1>1. Holding(next) = Holding(of) \ {j}
  BY DEF Holding
<1>2. Cardinality(Holding(next)) = Cardinality(Holding(of)) - 1
  BY <1>1, HoldingIsFinite, FS_RemoveElement
<1> QED BY <1>2, HoldingIsFinite

-----------------------------------------------------------------------------
(* The inductive invariant.                                                     *)

\* The line holds the jobs that are pending, each once; those numbered have been pushed.
InLine ==
  /\ Once(pending) /\ ToSet(pending) = In("pending")
  /\ \A j \in Jobs : status[j] = "none" <=> j > pushed

\* Each handler on the stack is that of a job of its own, which has been started.
HandlersOf(frames, of) ==
  /\ \A i \in DOMAIN frames :
       frames[i].fn = "handler" => frames[i].job \in Jobs /\ of[frames[i].job] = "started"
  /\ \A i, k \in DOMAIN frames :
       frames[i].fn = "handler" /\ frames[k].fn = "handler" /\ frames[i].job = frames[k].job => i = k
Handlers == HandlersOf(stack, status)

\* If a job waits beside a free slot, a dequeue() on the stack has yet to look.
Looking ==
  ~paused /\ ~threw =>
    \/ pending = <<>> \/ activeCount = Concurrency
    \/ \E i \in DOMAIN stack : stack[i].fn \in {"dequeue", "loop"}

SlotInv == TypeOK /\ SlotsAreTaken /\ InLine /\ Handlers /\ Looking

\* The line is sorted by priority, then time, then number, whatever the clock does.
Precedes(a, b) ==
  \/ priority[a] < priority[b]
  \/ priority[a] = priority[b] /\ createdAt[a] < createdAt[b]
  \/ priority[a] = priority[b] /\ createdAt[a] = createdAt[b] /\ a < b
Sorted == \A i, k \in DOMAIN pending : i < k => Precedes(pending[i], pending[k])

\* Later jobs have later times unless the clock was set back.
Stamped ==
  ~steppedBack =>
    \A j \in 1..pushed : createdAt[j] <= now /\ \A k \in 1..pushed : j < k => createdAt[j] <= createdAt[k]

-----------------------------------------------------------------------------
(* The call stack.                                                              *)

Frames == [fn : {"dequeue", "loop", "checkDrain"} \cup UserCode, job : 0..MaxJobs]

LEMMA FramesAre ==
  /\ Dequeue \in Frames /\ Loop \in Frames /\ CheckDrain \in Frames
  /\ \A j \in Jobs : Frame("handler", j) \in Frames /\ Frame("onError", j) \in Frames
  BY QueueAssumption DEF Frames, Dequeue, Loop, CheckDrain, Frame, UserCode, Jobs

LEMMA Called ==
  ASSUME NEW S, NEW s \in Seq(S), NEW x \in S
  PROVE  /\ <<x>> \o s \in Seq(S) /\ Len(<<x>> \o s) = Len(s) + 1 /\ Len(s) \in Nat
         /\ (<<x>> \o s)[1] = x
         /\ \A i \in 2..(Len(s) + 1) : i - 1 \in 1..Len(s) /\ (<<x>> \o s)[i] = s[i - 1]
         /\ \A i \in 1..Len(s) : i + 1 \in 1..(Len(s) + 1) /\ (<<x>> \o s)[i + 1] = s[i]
  OBVIOUS

\* What a throw leaves of the stack is its end.
LEMMA UnwoundIsLast ==
  ASSUME stack \in Seq(Frames)
  PROVE  /\ Unwound \in Seq(Frames)
         /\ \E d \in Nat \ {0} : \A i \in DOMAIN Unwound : i + d \in DOMAIN stack /\ Unwound[i] = stack[i + d]
<1> DEFINE catchers == {i \in 2..Len(stack) : stack[i].fn \in UserCode}
<1>1. CASE catchers = {}
  <2>1. Unwound = <<>>
    BY <1>1 DEF Unwound
  <2> QED BY <2>1
<1>2. CASE catchers # {}
  <2>1. catchers \subseteq Nat
    OBVIOUS
  <2>2. \E n \in catchers : \A m \in catchers : n <= m
    <3> HIDE DEF catchers
    <3> QED BY <1>2, <2>1, LeastNumber
  <2> DEFINE first == CHOOSE i \in catchers : \A k \in catchers : i <= k
  <2>3. first \in catchers
    BY <2>2, Zenon
  <2>4. Unwound = SubSeq(stack, first, Len(stack))
    BY <1>2, Zenon DEF Unwound
  <2> HIDE DEF first
  <2>5. first \in 2..Len(stack) /\ Len(stack) \in Nat
    BY <2>3
  <2>6. /\ Unwound \in Seq(Frames) /\ DOMAIN Unwound = 1..(Len(stack) - first + 1)
        /\ \A i \in 1..(Len(stack) - first + 1) : Unwound[i] = stack[i + first - 1]
    BY <2>4, <2>5
  <2> DEFINE d == first - 1
  <2>7. d \in Nat \ {0} /\ \A i \in 1..(Len(stack) - first + 1) : i + d = i + first - 1 /\ i + d \in DOMAIN stack
    BY <2>5
  <2> HIDE DEF d
  <2>8. \A i \in DOMAIN Unwound : i + d \in DOMAIN stack /\ Unwound[i] = stack[i + d]
    BY <2>6, <2>7
  <2> QED BY <2>6, <2>7, <2>8
<1> QED BY <1>1, <1>2

\* Handlers stay apart as frames come and go above them, and as the status of other jobs changes.
Follows(new, old, d, then) ==
  \A i \in DOMAIN new : new[i].fn = "handler" =>
    i + d \in DOMAIN old /\ new[i] = old[i + d] /\ then[new[i].job] = "started"

LEMMA HandlersStay ==
  ASSUME NEW old \in Seq(Frames), NEW new \in Seq(Frames), NEW d \in Int, NEW of, NEW then,
         HandlersOf(old, of), Follows(new, old, d, then)
  PROVE  HandlersOf(new, then)
<1> USE DEF Follows
<1>1. DOMAIN new = 1..Len(new) /\ DOMAIN old = 1..Len(old)
  OBVIOUS
<1>2. ASSUME NEW i \in DOMAIN new, new[i].fn = "handler"
      PROVE  new[i].job \in Jobs /\ then[new[i].job] = "started"
  BY <1>2 DEF HandlersOf
<1>3. ASSUME NEW i \in DOMAIN new, NEW k \in DOMAIN new,
             new[i].fn = "handler", new[k].fn = "handler", new[i].job = new[k].job
      PROVE  i = k
  <2>1. i + d = k + d
    BY <1>3 DEF HandlersOf
  <2> QED BY <2>1, <1>1
<1> QED BY <1>2, <1>3 DEF HandlersOf

LEMMA HandlerCalled ==
  ASSUME NEW old \in Seq(Frames), NEW j \in Jobs, NEW of, NEW then, HandlersOf(old, of),
         of[j] # "started", then[j] = "started", \A k \in Jobs \ {j} : then[k] = of[k]
  PROVE  HandlersOf(<<Frame("handler", j)>> \o old, then)
<1> DEFINE new == <<Frame("handler", j)>> \o old
<1>1. Frame("handler", j) \in Frames /\ Frame("handler", j).job = j
  BY FramesAre DEF Frame
<1>2. /\ DOMAIN new = 1..(Len(old) + 1) /\ new[1] = Frame("handler", j) /\ Len(old) \in Nat /\ DOMAIN old = 1..Len(old)
      /\ \A i \in 2..(Len(old) + 1) : i - 1 \in 1..Len(old) /\ new[i] = old[i - 1]
  BY <1>1, Called
<1> HIDE DEF new
<1>3. \A i \in DOMAIN new : i = 1 \/ i \in 2..(Len(old) + 1)
  BY <1>2
<1>4. ASSUME NEW i \in 2..(Len(old) + 1), new[i].fn = "handler"
      PROVE  new[i].job \in Jobs \ {j} /\ then[new[i].job] = "started"
  BY <1>2, <1>4 DEF HandlersOf
<1>5. \A i \in DOMAIN new : new[i].fn = "handler" => new[i].job \in Jobs /\ then[new[i].job] = "started"
  BY <1>1, <1>2, <1>3, <1>4
<1>6. ASSUME NEW i \in DOMAIN new, NEW k \in DOMAIN new,
             new[i].fn = "handler", new[k].fn = "handler", new[i].job = new[k].job
      PROVE  i = k
  <2>1. CASE i = 1 \/ k = 1
    BY <1>1, <1>2, <1>3, <1>4, <1>6, <2>1
  <2>2. CASE i # 1 /\ k # 1
    <3>1. i \in 2..(Len(old) + 1) /\ k \in 2..(Len(old) + 1)
      BY <1>3, <2>2
    <3>2. i - 1 = k - 1
      BY <3>1, <1>2, <1>6 DEF HandlersOf
    <3> QED BY <3>1, <3>2
  <2> QED BY <2>1, <2>2
<1> QED BY <1>5, <1>6 DEF HandlersOf, new

-----------------------------------------------------------------------------
(* Every step keeps the invariant.                                              *)

Statuses == {"none", "pending", "started", "running", "processed", "lost"}

LEMMA SlotsHeld ==
  /\ SlotsAreTaken <=> activeCount = Cardinality(Holding(status))
  /\ SlotsAreTaken' <=> activeCount' = Cardinality(Holding(status'))
<1>1. In("started") \cup In("running") \cup In("lost") = Holding(status)
  BY DEF In, Holding
<1>2. (In("started") \cup In("running") \cup In("lost"))' = Holding(status')
  BY DEF In, Holding
<1> QED BY <1>1, <1>2 DEF SlotsAreTaken

LEMMA InvInit == Init => SlotInv
<1> SUFFICES ASSUME Init PROVE SlotInv
  OBVIOUS
<1>1. TypeOK
  <2>1. pending \in Seq(Jobs) /\ stack \in Seq(Frames)
    BY DEF Init
  <2>2. activeCount \in 0..Concurrency /\ pushed \in 0..MaxJobs
    BY QueueAssumption DEF Init
  <2>3. status \in [Jobs -> Statuses] /\ priority \in [Jobs -> Priorities \cup {0}] /\ createdAt \in [Jobs -> Clock \cup {0}]
    BY DEF Init, Statuses
  <2>4. drains \in [Drains -> {"none", "waiting", "resolved"}] /\ now \in Clock /\ {paused, steppedBack, threw} \subseteq BOOLEAN
    BY DEF Init
  <2> QED BY <2>1, <2>2, <2>3, <2>4 DEF TypeOK, Frames, Statuses
<1>2. SlotsAreTaken
  <2>1. Holding(status) = {}
    BY DEF Init, Holding
  <2> QED BY <2>1, SlotsHeld, FS_EmptySet DEF Init
<1>3. InLine
  BY DEF Init, InLine, Once, ToSet, In, Jobs
<1>4. Handlers /\ Looking
  BY DEF Init, Handlers, HandlersOf, Looking
<1> QED BY <1>1, <1>2, <1>3, <1>4 DEF SlotInv

LEMMA InvPush ==
  ASSUME SlotInv, NEW p \in Priorities, Push(p)
  PROVE  SlotInv'
<1> USE QueueAssumption
<1> DEFINE j == pushed + 1
           k == InsertionPoint(p, now) + 1
<1>1. j \in Jobs /\ pushed \in Nat /\ status[j] = "none" /\ pushed' = j /\ pushed' \in 0..MaxJobs
  BY DEF SlotInv, TypeOK, InLine, Push, Jobs
<1>2. pending \in Seq(Jobs) /\ status \in [Jobs -> Statuses] /\ stack \in Seq(Frames)
  BY DEF SlotInv, TypeOK, Statuses, Frames
<1>3. k \in 1..(Len(pending) + 1)
  BY <1>2, PlaceFound
<1>4. pending' = InsertAt(pending, k, j) /\ status' = [status EXCEPT ![j] = "pending"] /\ stack' = <<Dequeue>> \o stack
  BY DEF Push, Call
<1>5. j \notin ToSet(pending)
  BY <1>1 DEF SlotInv, InLine, In
<1> HIDE DEF k
<1>6. pending' \in Seq(Jobs) /\ Once(pending') /\ ToSet(pending') = ToSet(pending) \cup {j}
  BY <1>1, <1>2, <1>3, <1>4, <1>5, Inserted, InsertedOnce DEF SlotInv, InLine
<1>7. stack' \in Seq(Frames)
  BY <1>2, <1>4, Called, FramesAre
<1>8. TypeOK'
  <2>1. priority' \in [Jobs -> Priorities \cup {0}] /\ createdAt' \in [Jobs -> Clock \cup {0}]
    BY <1>1 DEF SlotInv, TypeOK, Push
  <2>2. status' \in [Jobs -> Statuses]
    BY <1>1, <1>2, <1>4 DEF Statuses
  <2> QED BY <1>1, <1>6, <1>7, <2>1, <2>2 DEF SlotInv, TypeOK, Push, Frames, Statuses, clockVars
<1>9. SlotsAreTaken'
  <2>1. Holding(status') = Holding(status)
    BY <1>1, <1>2, <1>4 DEF Holding
  <2>2. activeCount' = activeCount
    BY DEF Push
  <2> QED BY <2>1, <2>2, SlotsHeld DEF SlotInv
<1>10. InLine'
  <2>1. \A i \in Jobs : status'[i] = IF i = j THEN "pending" ELSE status[i]
    BY <1>1, <1>2, <1>4
  <2>2. In("pending")' = In("pending") \cup {j}
    BY <2>1, <1>1 DEF In
  <2>3. \A i \in Jobs : status'[i] = "none" <=> i > pushed'
    BY <2>1, <1>1 DEF SlotInv, InLine, Jobs
  <2> QED BY <2>2, <2>3, <1>6 DEF SlotInv, InLine
<1>11. Handlers'
  <2>1. ASSUME NEW i \in DOMAIN stack', stack'[i].fn = "handler"
        PROVE  i + (-1) \in DOMAIN stack /\ stack'[i] = stack[i + (-1)] /\ status'[stack'[i].job] = "started"
    <3>1. /\ DOMAIN stack' = 1..(Len(stack) + 1) /\ DOMAIN stack = 1..Len(stack) /\ stack'[1] = Dequeue
          /\ \A n \in 2..(Len(stack) + 1) : n - 1 \in 1..Len(stack) /\ stack'[n] = stack[n - 1]
      BY <1>2, <1>4, <1>7, Called, FramesAre
    <3>2. i \in 2..(Len(stack) + 1)
      BY <2>1, <3>1, <1>2 DEF Dequeue, Frame
    <3>3. i + (-1) = i - 1
      BY <3>2
    <3>4. stack[i - 1].job \in Jobs /\ status[stack[i - 1].job] = "started"
      BY <3>1, <3>2, <2>1 DEF SlotInv, Handlers, HandlersOf
    <3> QED BY <3>1, <3>2, <3>3, <3>4, <1>1, <1>2, <1>4
  <2>2. HandlersOf(stack, status) /\ -1 \in Int
    BY DEF SlotInv, Handlers
  <2>3. HandlersOf(stack', status')
    <3>1. Follows(stack', stack, -1, status')
      BY <2>1 DEF Follows
    <3> QED BY <3>1, <2>2, <1>2, <1>7, HandlersStay
  <2> QED BY <2>3 DEF Handlers
<1>12. Looking'
  <2>1. 1 \in DOMAIN stack' /\ stack'[1].fn = "dequeue"
    BY <1>2, <1>4, Called, FramesAre DEF Dequeue, Frame
  <2> QED BY <2>1 DEF Looking
<1> QED BY <1>8, <1>9, <1>10, <1>11, <1>12 DEF SlotInv

\* Steps that only take or replace the frame on top, which is not a handler.
LEMMA HandlersReturn ==
  ASSUME SlotInv, stack # <<>>, UNCHANGED status,
         stack' = Tail(stack) \/ \E x \in Frames : x.fn # "handler" /\ stack' = <<x>> \o Tail(stack)
  PROVE  stack' \in Seq(Frames) /\ Handlers'
<1>1. stack \in Seq(Frames) /\ HandlersOf(stack, status)
  BY DEF SlotInv, TypeOK, Frames, Handlers
<1> DEFINE rest == Tail(stack)
<1>2. /\ rest \in Seq(Frames) /\ DOMAIN rest = 1..Len(rest) /\ DOMAIN stack = 1..(Len(rest) + 1) /\ Len(rest) \in Nat
      /\ \A i \in 1..Len(rest) : i + 1 \in DOMAIN stack /\ rest[i] = stack[i + 1]
  BY <1>1, Shifted
<1> HIDE DEF rest
<1>3. \A i \in DOMAIN stack : stack[i].fn = "handler" => status[stack[i].job] = "started"
  BY <1>1 DEF HandlersOf
<1>4. CASE stack' = rest
  <2>1. PICK d \in Int : d = 1
    OBVIOUS
  <2>2. ASSUME NEW i \in DOMAIN stack', stack'[i].fn = "handler"
        PROVE  i + d \in DOMAIN stack /\ stack'[i] = stack[i + d] /\ status'[stack'[i].job] = "started"
    <3>1. i \in 1..Len(rest) /\ i + d = i + 1
      BY <1>2, <1>4, <2>1
    <3>2. i + 1 \in DOMAIN stack /\ stack'[i] = stack[i + 1]
      BY <3>1, <1>2, <1>4
    <3> QED BY <3>1, <3>2, <2>2, <1>3
  <2>3. stack' \in Seq(Frames)
    BY <1>2, <1>4
  <2>4. HandlersOf(stack', status')
    <3>1. Follows(stack', stack, d, status')
      BY <2>2 DEF Follows
    <3> QED BY <3>1, <1>1, <2>3, HandlersStay
  <2> QED BY <2>3, <2>4 DEF Handlers
<1>5. ASSUME NEW x \in Frames, x.fn # "handler", stack' = <<x>> \o rest
      PROVE  stack' \in Seq(Frames) /\ Handlers'
  <2>1. /\ stack' \in Seq(Frames) /\ DOMAIN stack' = 1..(Len(rest) + 1) /\ stack'[1] = x
        /\ \A n \in 2..(Len(rest) + 1) : n - 1 \in 1..Len(rest) /\ stack'[n] = rest[n - 1]
    BY <1>2, <1>5, Called
  <2>0. PICK d \in Int : d = 0
    OBVIOUS
  <2>2. ASSUME NEW i \in DOMAIN stack', stack'[i].fn = "handler"
        PROVE  i + d \in DOMAIN stack /\ stack'[i] = stack[i + d] /\ status'[stack'[i].job] = "started"
    <3>1. i \in 2..(Len(rest) + 1) /\ i + d = i
      BY <2>0, <2>1, <2>2, <1>2, <1>5
    <3>2. i - 1 \in 1..Len(rest) /\ (i - 1) + 1 = i
      BY <3>1, <1>2
    <3>3. stack'[i] = rest[i - 1] /\ rest[i - 1] = stack[(i - 1) + 1]
      BY <3>1, <3>2, <2>1, <1>2
    <3> QED BY <3>1, <3>2, <3>3, <2>2, <1>2, <1>3
  <2>3. stack' \in Seq(Frames)
    BY <2>1
  <2>4. HandlersOf(stack', status')
    <3>1. Follows(stack', stack, d, status')
      BY <2>2 DEF Follows
    <3> QED BY <3>1, <1>1, <2>3, HandlersStay
  <2> QED BY <2>3, <2>4 DEF Handlers
<1> QED BY <1>4, <1>5 DEF rest

\* A frame that has yet to look is still there if the one on top was none.
LEMMA LookingStays ==
  ASSUME SlotInv, stack # <<>>, stack' = Tail(stack), Head(stack).fn \notin {"dequeue", "loop"},
         UNCHANGED <<pending, activeCount, paused, threw>>
  PROVE  Looking'
<1>1. stack \in Seq(Frames)
  BY DEF SlotInv, TypeOK, Frames
<1>2. ASSUME NEW i \in DOMAIN stack, stack[i].fn \in {"dequeue", "loop"}
      PROVE  \E n \in DOMAIN stack' : stack'[n].fn \in {"dequeue", "loop"}
  <2>1. i # 1 /\ i \in 1..Len(stack)
    BY <1>1, <1>2, Shifted
  <2>2. i - 1 \in DOMAIN stack' /\ (i - 1) + 1 = i
    BY <1>1, <2>1, Shifted
  <2>3. stack'[i - 1] = stack[i]
    BY <1>1, <2>1, <2>2, Shifted
  <2> QED BY <2>2, <2>3, <1>2
<1> QED BY <1>2 DEF SlotInv, Looking

LEMMA InvEnterDequeue ==
  ASSUME SlotInv, EnterDequeue
  PROVE  SlotInv'
<1>1. stack # <<>> /\ stack \in Seq(Frames)
  BY DEF EnterDequeue, Top, SlotInv, TypeOK, Frames
<1>2. /\ UNCHANGED <<pending, activeCount, paused, drains, pushed, priority, createdAt, status, now, steppedBack, threw>>
      /\ stack' = (IF paused THEN <<>> ELSE <<Loop>>) \o Tail(stack)
  BY DEF EnterDequeue, jobVars, clockVars
<1>3. IF paused THEN stack' = Tail(stack) ELSE stack' = <<Loop>> \o Tail(stack)
  BY <1>1, <1>2, Shifted
<1>4. stack' \in Seq(Frames) /\ Handlers'
  <2>1. Loop \in Frames /\ Loop.fn # "handler"
    BY FramesAre DEF Loop, Frame
  <2> QED BY <1>1, <1>2, <1>3, <2>1, HandlersReturn
<1>5. TypeOK'
  BY <1>2, <1>4 DEF SlotInv, TypeOK, Frames
<1>6. SlotsAreTaken' /\ InLine'
  BY <1>2, SlotsHeld DEF SlotInv, InLine, In
<1>7. Looking'
  <2>1. CASE paused
    BY <2>1, <1>2 DEF Looking
  <2>2. CASE ~paused
    <3>1. Tail(stack) \in Seq(Frames) /\ stack' = <<Loop>> \o Tail(stack)
      BY <2>2, <1>1, <1>3, Shifted
    <3>2. 1 \in DOMAIN stack' /\ stack'[1].fn = "loop"
      BY <3>1, Called, FramesAre DEF Loop, Frame
    <3> QED BY <3>2 DEF Looking
  <2> QED BY <2>1, <2>2
<1> QED BY <1>4, <1>5, <1>6, <1>7 DEF SlotInv

LEMMA InvStartJob ==
  ASSUME SlotInv, StartJob
  PROVE  SlotInv'
<1> USE QueueAssumption
<1> DEFINE j == Head(pending)
<1>1. /\ stack \in Seq(Frames) /\ pending \in Seq(Jobs) /\ status \in [Jobs -> Statuses]
      /\ HandlersOf(stack, status) /\ Once(pending) /\ ToSet(pending) = In("pending")
      /\ activeCount \in 0..Concurrency
  BY DEF SlotInv, TypeOK, InLine, Handlers, Frames, Statuses
<1>2. /\ pending # <<>> /\ activeCount < Concurrency /\ stack # <<>> /\ Head(stack).fn = "loop"
      /\ pending' = Tail(pending) /\ activeCount' = activeCount + 1
      /\ status' = [status EXCEPT ![j] = "started"] /\ stack' = <<Frame("handler", j)>> \o stack
      /\ UNCHANGED <<paused, drains, pushed, priority, createdAt, now, steppedBack, threw>>
  BY DEF StartJob, CanStart, Top, Call, jobVars, clockVars
<1>3. /\ j \in Jobs /\ pending' \in Seq(Jobs) /\ Once(pending') /\ ToSet(pending') = ToSet(pending) \ {j}
      /\ j \in ToSet(pending)
  BY <1>1, <1>2, Shifted, ShiftedOnce
<1>4. status[j] = "pending"
  BY <1>1, <1>3 DEF In
<1> HIDE DEF j
<1>5. \A i \in Jobs : status'[i] = IF i = j THEN "started" ELSE status[i]
  BY <1>1, <1>2, <1>3
<1>6. stack' \in Seq(Frames)
  BY <1>1, <1>2, <1>3, Called, FramesAre
<1>7. TypeOK'
  <2>1. status' \in [Jobs -> Statuses]
    BY <1>1, <1>2, <1>3 DEF Statuses
  <2>2. activeCount' \in 0..Concurrency
    BY <1>1, <1>2
  <2> QED BY <1>2, <1>3, <1>6, <2>1, <2>2 DEF SlotInv, TypeOK, Frames, Statuses
<1>8. SlotsAreTaken'
  <2>1. Cardinality(Holding(status')) = Cardinality(Holding(status)) + 1
    <3>1. j \notin Holding(status) /\ j \in Holding(status')
      BY <1>3, <1>4, <1>5 DEF Holding
    <3>2. \A i \in Jobs \ {j} : status'[i] = status[i]
      BY <1>5
    <3> QED BY <3>1, <3>2, <1>3, SlotTaken
  <2> QED BY <2>1, <1>2, SlotsHeld DEF SlotInv
<1>9. InLine'
  <2>1. In("pending")' = In("pending") \ {j}
    BY <1>5 DEF In
  <2>2. \A i \in Jobs : status'[i] = "none" <=> i > pushed'
    BY <1>2, <1>4, <1>5 DEF SlotInv, InLine
  <2> QED BY <2>1, <2>2, <1>1, <1>3 DEF InLine
<1>10. Handlers'
  <2>1. status[j] # "started" /\ status'[j] = "started" /\ \A i \in Jobs \ {j} : status'[i] = status[i]
    BY <1>3, <1>4, <1>5
  <2>2. HandlersOf(stack', status')
    BY <2>1, <1>1, <1>2, <1>3, HandlerCalled
  <2> QED BY <2>2 DEF Handlers
<1>11. Looking'
  <2>1. stack'[2] = stack[1] /\ Len(stack) \in Nat /\ DOMAIN stack' = 1..(Len(stack) + 1) /\ Len(stack) >= 1
    BY <1>1, <1>2, <1>3, <1>6, Called, FramesAre, Shifted
  <2>2. 2 \in DOMAIN stack' /\ stack'[2].fn = "loop"
    BY <2>1, <1>1, <1>2, Shifted
  <2> QED BY <2>2 DEF Looking
<1> QED BY <1>7, <1>8, <1>9, <1>10, <1>11 DEF SlotInv

LEMMA InvEndLoop ==
  ASSUME SlotInv, EndLoop
  PROVE  SlotInv'
<1>1. /\ stack # <<>> /\ stack' = Tail(stack) /\ ~CanStart
      /\ UNCHANGED <<pending, activeCount, paused, drains, pushed, priority, createdAt, status, now, steppedBack, threw>>
  BY DEF EndLoop, Top, Return, jobVars, clockVars
<1>2. stack' \in Seq(Frames) /\ Handlers'
  BY <1>1, HandlersReturn
<1>3. TypeOK' /\ SlotsAreTaken' /\ InLine'
  <2>1. TypeOK'
    BY <1>1, <1>2 DEF SlotInv, TypeOK, Frames
  <2> QED BY <2>1, <1>1, SlotsHeld DEF SlotInv, InLine, In
<1>4. pending = <<>> \/ activeCount = Concurrency
  BY <1>1, QueueAssumption DEF CanStart, SlotInv, TypeOK
<1> QED BY <1>1, <1>2, <1>3, <1>4 DEF SlotInv, Looking

LEMMA InvRunCheckDrain ==
  ASSUME SlotInv, RunCheckDrain
  PROVE  SlotInv'
<1>1. /\ stack # <<>> /\ stack' = Tail(stack) /\ Head(stack).fn = "checkDrain"
      /\ UNCHANGED <<pending, activeCount, paused, pushed, priority, createdAt, status, now, steppedBack, threw>>
  BY DEF RunCheckDrain, Top, Return, jobVars, clockVars
<1>2. stack' \in Seq(Frames) /\ Handlers' /\ Looking'
  BY <1>1, HandlersReturn, LookingStays
<1>3. drains' \in [Drains -> {"none", "waiting", "resolved"}]
  BY DEF SlotInv, TypeOK, RunCheckDrain
<1>4. TypeOK' /\ SlotsAreTaken' /\ InLine'
  <2>1. TypeOK'
    BY <1>1, <1>2, <1>3 DEF SlotInv, TypeOK, Frames
  <2> QED BY <2>1, <1>1, SlotsHeld DEF SlotInv, InLine, In
<1> QED BY <1>2, <1>4 DEF SlotInv

\* User code ends, and with a handler its job is no longer "started".
LEMMA UserCodeEnds ==
  ASSUME SlotInv, Top \in UserCode, NEW next \in {"running", "lost"},
         status' = IF Top = "handler" THEN [status EXCEPT ![Head(stack).job] = next] ELSE status,
         stack' \in Seq(Frames), NEW d \in Nat \ {0},
         \A i \in DOMAIN stack' : i + d \in DOMAIN stack /\ stack'[i] = stack[i + d],
         UNCHANGED <<pending, activeCount, pushed>>
  PROVE  status' \in [Jobs -> Statuses] /\ Handlers' /\ SlotsAreTaken' /\ InLine'
<1>1. /\ stack \in Seq(Frames) /\ status \in [Jobs -> Statuses] /\ HandlersOf(stack, status)
      /\ ToSet(pending) = In("pending") /\ Once(pending)
  BY DEF SlotInv, TypeOK, InLine, Handlers, Frames, Statuses
<1>2. stack # <<>> /\ Top = Head(stack).fn /\ Head(stack) = stack[1] /\ 1 \in DOMAIN stack
  BY <1>1, Shifted DEF Top, UserCode
<1>5. d \in Int
  OBVIOUS
<1> DEFINE j == Head(stack).job
<1>3. CASE Top # "handler"
  <2>1. status' = status
    BY <1>3
  <2>2. ASSUME NEW i \in DOMAIN stack', stack'[i].fn = "handler"
        PROVE  i + d \in DOMAIN stack /\ stack'[i] = stack[i + d] /\ status'[stack'[i].job] = "started"
    BY <2>1, <2>2, <1>1 DEF HandlersOf
  <2>3. HandlersOf(stack', status')
    <3>1. Follows(stack', stack, d, status')
      BY <2>2 DEF Follows
    <3> QED BY <3>1, <1>1, <1>5, HandlersStay
  <2> QED BY <2>1, <2>3, <1>1, SlotsHeld DEF Handlers, SlotInv, InLine, In
<1>4. CASE Top = "handler"
  <2>1. j \in Jobs /\ status[j] = "started"
    BY <1>1, <1>2, <1>4 DEF HandlersOf
  <2>2. status' = [status EXCEPT ![j] = next]
    BY <1>4
  <2>3. \A i \in Jobs : status'[i] = IF i = j THEN next ELSE status[i]
    BY <2>1, <2>2, <1>1
  <2>4. status' \in [Jobs -> Statuses]
    BY <2>1, <2>2, <1>1 DEF Statuses
  <2>5. ASSUME NEW i \in DOMAIN stack', stack'[i].fn = "handler"
        PROVE  i + d \in DOMAIN stack /\ stack'[i] = stack[i + d] /\ status'[stack'[i].job] = "started"
    <3>1. i + d \in DOMAIN stack /\ stack'[i] = stack[i + d]
      OBVIOUS
    <3>2. i + d # 1
      OBVIOUS
    <3>3. stack[i + d].job # j
      BY <3>1, <3>2, <2>5, <1>1, <1>2, <1>4 DEF HandlersOf
    <3>4. stack[i + d].job \in Jobs /\ status[stack[i + d].job] = "started"
      BY <3>1, <2>5, <1>1 DEF HandlersOf
    <3> QED BY <3>1, <3>3, <3>4, <2>3
  <2>6. HandlersOf(stack', status')
    <3>1. Follows(stack', stack, d, status')
      BY <2>5 DEF Follows
    <3> QED BY <3>1, <1>1, <1>5, HandlersStay
  <2>7. Holding(status') = Holding(status)
    BY <2>1, <2>3 DEF Holding
  <2>8. In("pending")' = In("pending") /\ \A i \in Jobs : status'[i] = "none" <=> i > pushed'
    BY <2>1, <2>3 DEF In, SlotInv, InLine
  <2> QED BY <2>4, <2>6, <2>7, <2>8, <1>1, SlotsHeld DEF Handlers, SlotInv, InLine
<1> QED BY <1>3, <1>4

LEMMA InvUserReturns ==
  ASSUME SlotInv, UserReturns
  PROVE  SlotInv'
<1>1. stack # <<>> /\ stack \in Seq(Frames) /\ stack' = Tail(stack) /\ Head(stack).fn = Top
  BY DEF UserReturns, Top, UserCode, Return, SlotInv, TypeOK, Frames
<1>2. /\ status' = IF Top = "handler" THEN [status EXCEPT ![Head(stack).job] = "running"] ELSE status
      /\ UNCHANGED <<pending, activeCount, paused, drains, pushed, priority, createdAt, now, steppedBack, threw>>
      /\ Top \in UserCode
  BY DEF UserReturns, jobVars, clockVars
<1>3. PICK d \in Nat \ {0} : d = 1
  OBVIOUS
<1>4. stack' \in Seq(Frames)
  BY <1>1, Shifted
<1>5. ASSUME NEW i \in DOMAIN stack' PROVE i + d \in DOMAIN stack /\ stack'[i] = stack[i + d]
  BY <1>1, <1>3, Shifted
<1>6. PICK next \in {"running", "lost"} : next = "running"
  OBVIOUS
<1>7. status' \in [Jobs -> Statuses] /\ Handlers' /\ SlotsAreTaken' /\ InLine'
  BY <1>2, <1>4, <1>5, <1>6, UserCodeEnds
<1>8. Looking'
  <2>1. Head(stack).fn \notin {"dequeue", "loop"}
    BY <1>1, <1>2 DEF UserCode
  <2> QED BY <2>1, <1>1, <1>2, LookingStays
<1>9. TypeOK'
  BY <1>2, <1>4, <1>7 DEF SlotInv, TypeOK, Frames, Statuses
<1> QED BY <1>7, <1>8, <1>9 DEF SlotInv

LEMMA InvUserThrows ==
  ASSUME SlotInv, UserThrows
  PROVE  SlotInv'
<1>1. stack' = Unwound /\ stack \in Seq(Frames)
  BY DEF UserThrows, SlotInv, TypeOK, Frames
<1>2. /\ status' = IF Top = "handler" THEN [status EXCEPT ![Head(stack).job] = "lost"] ELSE status
      /\ UNCHANGED <<pending, activeCount, paused, drains, pushed, priority, createdAt, now, steppedBack>>
      /\ Top \in UserCode /\ threw' = TRUE
  BY DEF UserThrows, jobVars, clockVars
<1>3. /\ stack' \in Seq(Frames)
      /\ \E d \in Nat \ {0} : \A i \in DOMAIN stack' : i + d \in DOMAIN stack /\ stack'[i] = stack[i + d]
  BY <1>1, UnwoundIsLast
<1>4. PICK d \in Nat \ {0} : \A i \in DOMAIN stack' : i + d \in DOMAIN stack /\ stack'[i] = stack[i + d]
  BY <1>3
<1>5. PICK next \in {"running", "lost"} : next = "lost"
  OBVIOUS
<1>6. status' \in [Jobs -> Statuses] /\ Handlers' /\ SlotsAreTaken' /\ InLine'
  BY <1>2, <1>3, <1>4, <1>5, UserCodeEnds
<1>7. TypeOK'
  BY <1>2, <1>3, <1>6 DEF SlotInv, TypeOK, Frames, Statuses
<1> QED BY <1>2, <1>6, <1>7 DEF SlotInv, Looking

LEMMA InvSettle ==
  ASSUME SlotInv, NEW j \in Jobs, Settle(j)
  PROVE  SlotInv'
<1> DEFINE error == Frame("onError", j)
<1>1. /\ stack = <<>> /\ status[j] = "running" /\ activeCount' = activeCount - 1
      /\ status' = [status EXCEPT ![j] = "processed"]
      /\ stack' = <<Dequeue, CheckDrain>> \o stack \/ stack' = <<error, Dequeue, CheckDrain>> \o stack
      /\ UNCHANGED <<pending, paused, drains, pushed, priority, createdAt, now, steppedBack, threw>>
  BY DEF Settle, Call, jobVars, clockVars
<1>2. /\ status \in [Jobs -> Statuses] /\ activeCount \in 0..Concurrency /\ ToSet(pending) = In("pending")
  BY DEF SlotInv, TypeOK, InLine, Statuses
<1>3. \A i \in Jobs : status'[i] = IF i = j THEN "processed" ELSE status[i]
  BY <1>1, <1>2
<1>4. error \in Frames /\ Dequeue \in Frames /\ CheckDrain \in Frames
  BY FramesAre
<1>5. /\ error.fn = "onError" /\ Dequeue.fn = "dequeue" /\ CheckDrain.fn = "checkDrain"
  BY DEF Frame, Dequeue, CheckDrain
<1> HIDE DEF error
<1>6. stack' = <<Dequeue, CheckDrain>> \/ stack' = <<error, Dequeue, CheckDrain>>
  BY <1>1, <1>4
<1>7. stack' \in Seq(Frames) /\ (\A i \in DOMAIN stack' : stack'[i].fn # "handler")
  <2>1. CASE stack' = <<Dequeue, CheckDrain>>
    <3>1. DOMAIN stack' = 1..2 /\ stack'[1] = Dequeue /\ stack'[2] = CheckDrain /\ stack' \in Seq(Frames)
      BY <2>1, <1>4
    <3>2. \A i \in 1..2 : i = 1 \/ i = 2
      OBVIOUS
    <3> QED BY <3>1, <3>2, <1>5
  <2>2. CASE stack' = <<error, Dequeue, CheckDrain>>
    <3>1. /\ DOMAIN stack' = 1..3 /\ stack'[1] = error /\ stack'[2] = Dequeue /\ stack'[3] = CheckDrain
          /\ stack' \in Seq(Frames)
      BY <2>2, <1>4
    <3>2. \A i \in 1..3 : i = 1 \/ i = 2 \/ i = 3
      OBVIOUS
    <3> QED BY <3>1, <3>2, <1>5
  <2> QED BY <1>6, <2>1, <2>2
<1>8. \E i \in DOMAIN stack' : stack'[i].fn = "dequeue"
  <2>1. CASE stack' = <<Dequeue, CheckDrain>>
    <3>1. 1 \in DOMAIN stack' /\ stack'[1] = Dequeue
      BY <2>1
    <3> QED BY <3>1, <1>5
  <2>2. CASE stack' = <<error, Dequeue, CheckDrain>>
    <3>1. 2 \in DOMAIN stack' /\ stack'[2] = Dequeue
      BY <2>2
    <3> QED BY <3>1, <1>5
  <2> QED BY <1>6, <2>1, <2>2
<1>9. SlotsAreTaken' /\ activeCount' \in 0..Concurrency
  <2>1. j \in Holding(status) /\ j \notin Holding(status') /\ \A i \in Jobs \ {j} : status'[i] = status[i]
    BY <1>1, <1>3 DEF Holding
  <2>2. Cardinality(Holding(status')) = Cardinality(Holding(status)) - 1 /\ Cardinality(Holding(status)) >= 1
    BY <2>1, SlotGiven
  <2>3. activeCount = Cardinality(Holding(status))
    BY SlotsHeld DEF SlotInv
  <2>4. activeCount' = Cardinality(Holding(status'))
    BY <2>2, <2>3, <1>1
  <2>5. activeCount' \in 0..Concurrency
    BY <2>2, <2>3, <1>1, <1>2, QueueAssumption
  <2> QED BY <2>4, <2>5, SlotsHeld
<1>10. InLine'
  <2>1. In("pending")' = In("pending")
    BY <1>1, <1>3 DEF In
  <2>2. \A i \in Jobs : status'[i] = "none" <=> i > pushed'
    BY <1>1, <1>3 DEF SlotInv, InLine
  <2> QED BY <2>1, <2>2, <1>1 DEF SlotInv, InLine
<1>11. TypeOK'
  <2>1. status' \in [Jobs -> Statuses]
    BY <1>1, <1>2 DEF Statuses
  <2> QED BY <2>1, <1>1, <1>7, <1>9 DEF SlotInv, TypeOK, Frames, Statuses
<1>12. Handlers' /\ Looking'
  BY <1>7, <1>8 DEF Handlers, HandlersOf, Looking
<1> QED BY <1>9, <1>10, <1>11, <1>12 DEF SlotInv

LEMMA InvResume ==
  ASSUME SlotInv, Resume
  PROVE  SlotInv'
<1>1. /\ stack' = <<Dequeue>> \o stack /\ paused' = FALSE /\ stack \in Seq(Frames)
      /\ UNCHANGED <<pending, activeCount, drains, pushed, priority, createdAt, status, now, steppedBack, threw>>
  BY DEF Resume, Call, jobVars, clockVars, SlotInv, TypeOK, Frames
<1>2. /\ stack' \in Seq(Frames) /\ DOMAIN stack' = 1..(Len(stack) + 1) /\ stack'[1] = Dequeue
      /\ Len(stack) \in Nat /\ DOMAIN stack = 1..Len(stack)
      /\ \A n \in 2..(Len(stack) + 1) : n - 1 \in 1..Len(stack) /\ stack'[n] = stack[n - 1]
  BY <1>1, Called, FramesAre
<1>3. PICK d \in Int : d = -1
  OBVIOUS
<1>4. ASSUME NEW i \in DOMAIN stack', stack'[i].fn = "handler"
      PROVE  i + d \in DOMAIN stack /\ stack'[i] = stack[i + d] /\ status'[stack'[i].job] = "started"
  <2>1. i \in 2..(Len(stack) + 1) /\ i + d = i - 1
    BY <1>2, <1>3, <1>4 DEF Dequeue, Frame
  <2>2. i - 1 \in DOMAIN stack /\ stack'[i] = stack[i - 1]
    BY <2>1, <1>2
  <2>3. status[stack[i - 1].job] = "started"
    BY <2>2, <1>4 DEF SlotInv, Handlers, HandlersOf
  <2> QED BY <2>1, <2>2, <2>3, <1>1
<1>5. HandlersOf(stack, status)
  BY DEF SlotInv, Handlers
<1>6. stack' \in Seq(Frames)
  BY <1>2
<1>7. HandlersOf(stack', status')
  <2>1. Follows(stack', stack, d, status')
    BY <1>4 DEF Follows
  <2>2. stack \in Seq(Frames)
    BY <1>1
  <2> QED BY <2>1, <2>2, <1>5, <1>6, HandlersStay
<1>8. 1 \in DOMAIN stack' /\ stack'[1].fn = "dequeue"
  BY <1>2 DEF Dequeue, Frame
<1>9. TypeOK' /\ SlotsAreTaken' /\ InLine'
  <2>1. TypeOK'
    BY <1>1, <1>2 DEF SlotInv, TypeOK, Frames
  <2> QED BY <2>1, <1>1, SlotsHeld DEF SlotInv, InLine, In
<1> QED BY <1>7, <1>8, <1>9 DEF SlotInv, Handlers, Looking

\* Steps that leave the jobs and the stack alone.
LEMMA InvElse ==
  ASSUME SlotInv, (\E d \in Drains : Drain(d)) \/ Pause \/ Tick \/ UNCHANGED vars
  PROVE  SlotInv'
<1>1. UNCHANGED <<pending, activeCount, pushed, priority, createdAt, status, stack, threw>>
  BY DEF Drain, Pause, Tick, vars, jobVars
<1>2. /\ paused' \in BOOLEAN /\ steppedBack' \in BOOLEAN /\ now' \in Clock
      /\ ~paused' => ~paused
  <2>1. paused \in BOOLEAN /\ steppedBack \in BOOLEAN /\ now \in Clock /\ Clock \subseteq Int
    BY QueueAssumption DEF SlotInv, TypeOK
  <2>2. CASE \E d \in Drains : Drain(d)
    BY <2>1, <2>2 DEF Drain, clockVars
  <2>3. CASE Pause
    BY <2>1, <2>3 DEF Pause, clockVars
  <2>4. CASE Tick
    <3>1. now' \in Clock /\ steppedBack' \in BOOLEAN /\ paused' = paused
      BY <2>1, <2>4, Zenon DEF Tick
    <3> QED BY <2>1, <3>1
  <2>5. CASE UNCHANGED vars
    BY <2>1, <2>5 DEF vars, clockVars
  <2> QED BY <2>2, <2>3, <2>4, <2>5
<1>3. drains' \in [Drains -> {"none", "waiting", "resolved"}]
  BY DEF Drain, Pause, Tick, vars, SlotInv, TypeOK
<1>4. TypeOK'
  BY <1>1, <1>2, <1>3 DEF SlotInv, TypeOK
<1>5. SlotsAreTaken' /\ InLine'
  BY <1>1, SlotsHeld DEF SlotInv, InLine, In
<1> QED BY <1>1, <1>2, <1>4, <1>5 DEF SlotInv, Handlers, Looking

LEMMA InvNext == SlotInv /\ [Next]_vars => SlotInv'
  BY InvPush, InvEnterDequeue, InvStartJob, InvEndLoop, InvRunCheckDrain, InvUserReturns, InvUserThrows,
     InvSettle, InvResume, InvElse DEF Next, Queued

LEMMA InvHolds == Spec => []SlotInv
  BY InvInit, InvNext, PTL DEF Spec

\* However handlers and onError call the queue again, fail or throw, every slot taken is
\* the slot of one job that has begun and not settled, and no job waits beside a free one
\* once the queue's own code has run out (queue.ts:138-168).
THEOREM SlotsExact == Spec => []SlotsAreUsed
<1>1. SlotInv => SlotsAreUsed
  BY DEF SlotInv, SlotsAreUsed, NoIdleSlot, Looking
<1> QED BY <1>1, InvHolds, PTL

\* drain() resolves only when no job waits, and none runs, be it in a handler that has
\* not returned yet (queue.ts:128-135 and 186-193).
THEOREM DrainMeansIdle == Spec => DrainIsTrue
<1>1. ASSUME SlotInv, [Next]_vars, NEW d \in Drains, drains[d] # "resolved", drains'[d] = "resolved"
      PROVE  In("pending") \cup In("started") \cup In("running") = {}
  <2>1. pending = <<>> /\ activeCount = 0
    <3>1. drains \in [Drains -> {"none", "waiting", "resolved"}]
      BY <1>1 DEF SlotInv, TypeOK
    <3>2. drains' # drains
      BY <1>1
    <3>3. (\E e \in Drains : Drain(e)) \/ RunCheckDrain
      BY <1>1, <3>2 DEF Next, Queued, Push, EnterDequeue, StartJob, EndLoop, UserReturns, UserThrows,
         Settle, Pause, Resume, Tick, vars
    <3>4. CASE RunCheckDrain
      BY <1>1, <3>2, <3>4 DEF RunCheckDrain
    <3>5. ASSUME NEW e \in Drains, Drain(e) PROVE pending = <<>> /\ activeCount = 0
      BY <1>1, <3>1, <3>5 DEF Drain
    <3> QED BY <3>3, <3>4, <3>5
  <2>2. In("pending") = {}
    BY <1>1, <2>1 DEF SlotInv, InLine, ToSet
  <2>3. Holding(status) = {}
    <3>1. Cardinality(Holding(status)) = 0
      BY <1>1, <2>1, SlotsHeld DEF SlotInv
    <3> QED BY <3>1, HoldingIsFinite, FS_EmptySet
  <2> QED BY <2>2, <2>3 DEF In, Holding
<1>2. SlotInv /\ [Next]_vars =>
        [\A d \in Drains : drains[d] # "resolved" /\ drains'[d] = "resolved" =>
           In("pending") \cup In("started") \cup In("running") = {}]_vars
  BY <1>1
<1> QED BY <1>2, InvHolds, PTL DEF Spec, DrainIsTrue

-----------------------------------------------------------------------------
(* The order of the line.                                                       *)

LEMMA Numbers ==
  ASSUME TypeOK
  PROVE  /\ \A j \in Jobs : priority[j] \in Int /\ createdAt[j] \in Int
         /\ now \in Int /\ pushed \in Nat /\ \A p \in Priorities : p \in Int
<1>1. priority \in [Jobs -> Priorities \cup {0}] /\ createdAt \in [Jobs -> Clock \cup {0}] /\ now \in Clock
  BY DEF TypeOK
<1>2. Priorities \cup {0} \subseteq Int /\ Clock \cup {0} \subseteq Int
  BY QueueAssumption
<1>3. pushed \in Nat
  BY QueueAssumption DEF TypeOK
<1>4. ASSUME NEW j \in Jobs PROVE priority[j] \in Int /\ createdAt[j] \in Int
  <2>1. priority[j] \in Priorities \cup {0} /\ createdAt[j] \in Clock \cup {0}
    BY <1>1
  <2> QED BY <2>1, <1>2
<1> QED BY <1>1, <1>2, <1>3, <1>4

\* A sorted line is divided for every job that comes.
LEMMA SortedIsDivided ==
  ASSUME TypeOK, Sorted, NEW p \in Int, NEW at \in Int
  PROVE  Divided(p, at)
<1> SUFFICES ASSUME NEW i \in 1..Len(pending), NEW k \in 1..Len(pending), i < k,
                    GoesBefore(pending[k], p, at)
             PROVE  GoesBefore(pending[i], p, at)
  BY DEF Divided
<1>1. pending \in Seq(Jobs)
  BY DEF TypeOK
<1>2. pending[i] \in Jobs /\ pending[k] \in Jobs /\ i \in DOMAIN pending /\ k \in DOMAIN pending
  BY <1>1
<1>3. Precedes(pending[i], pending[k])
  BY <1>2 DEF Sorted
<1> QED BY <1>2, <1>3, Numbers DEF Precedes, GoesBefore

LEMMA SortedPush ==
  ASSUME SlotInv, Sorted, NEW p \in Priorities, Push(p)
  PROVE  Sorted'
<1>1. TypeOK /\ pending \in Seq(Jobs) /\ now \in Int /\ pushed \in Nat
  BY Numbers DEF SlotInv, TypeOK
<1>2. p \in Int
  BY QueueAssumption
<1>3. PICK j \in Jobs : j = pushed + 1
  BY <1>1, QueueAssumption DEF Push, Jobs
<1>4. PICK n \in 0..Len(pending) : n = InsertionPoint(p, now)
  BY <1>1, PlaceFound
<1>5. Separates(n, n, p, now) /\ Len(pending) \in Nat
  BY <1>1, <1>2, <1>4, SortedIsDivided, PlaceFound
<1>6. PICK k \in 1..(Len(pending) + 1) : k = n + 1
  BY <1>5
<1>7. /\ pending' = InsertAt(pending, k, j)
      /\ priority' = [priority EXCEPT ![j] = p] /\ createdAt' = [createdAt EXCEPT ![j] = now]
  BY <1>3, <1>4, <1>6 DEF Push
<1>8. /\ DOMAIN pending' = 1..(Len(pending) + 1) /\ DOMAIN pending = 1..Len(pending)
      /\ \A i \in 1..(k - 1) : pending'[i] = pending[i]
      /\ pending'[k] = j
      /\ \A i \in k..Len(pending) : pending'[i + 1] = pending[i]
  BY <1>1, <1>7, Inserted
<1>9. \A i \in DOMAIN pending : pending[i] \in Jobs \ {j} /\ pending[i] < j
  <2>1. ASSUME NEW i \in DOMAIN pending PROVE pending[i] \in Jobs /\ status[pending[i]] = "pending"
    BY <2>1, <1>1 DEF SlotInv, InLine, ToSet, In
  <2>2. \A a \in Jobs : status[a] = "pending" => a < j
    BY <1>1, <1>3 DEF SlotInv, InLine, Jobs
  <2> QED BY <2>1, <2>2, <1>1 DEF Jobs
<1>10. /\ \A a \in Jobs \ {j} : priority'[a] = priority[a] /\ createdAt'[a] = createdAt[a]
       /\ priority'[j] = p /\ createdAt'[j] = now
  BY <1>1, <1>7 DEF TypeOK
<1>11. \A a \in Jobs : priority[a] \in Int /\ createdAt[a] \in Int /\ a \in Int
  BY <1>1, Numbers DEF Jobs
\* Before and behind the new job, and among those that were there.
<1>12. ASSUME NEW a \in Jobs \ {j}, a < j, GoesBefore(a, p, now) PROVE Precedes(a, j)'
  BY <1>1, <1>2, <1>10, <1>11, <1>12 DEF Precedes, GoesBefore
<1>13. ASSUME NEW a \in Jobs \ {j}, ~GoesBefore(a, p, now) PROVE Precedes(j, a)'
  BY <1>1, <1>2, <1>10, <1>11, <1>13 DEF Precedes, GoesBefore
<1>14. ASSUME NEW a \in Jobs \ {j}, NEW b \in Jobs \ {j}, Precedes(a, b) PROVE Precedes(a, b)'
  BY <1>10, <1>14 DEF Precedes
\* Where each of the new line comes from.
<1>15. ASSUME NEW i \in DOMAIN pending'
       PROVE  \/ i < k /\ i \in DOMAIN pending /\ pending'[i] = pending[i]
              \/ i = k
              \/ i > k /\ i - 1 \in DOMAIN pending /\ pending'[i] = pending[i - 1]
  <2>1. i \in 1..(Len(pending) + 1) /\ k \in Nat
    BY <1>5, <1>8
  <2>2. CASE i < k
    BY <2>1, <2>2, <1>8
  <2>3. CASE i > k
    <3>1. PICK m \in k..Len(pending) : m = i - 1
      BY <2>1, <2>3, <1>5
    <3>2. m + 1 = i /\ m \in DOMAIN pending /\ pending'[m + 1] = pending[m]
      BY <3>1, <2>1, <1>8, <1>5
    <3> QED BY <3>1, <3>2, <2>3
  <2> QED BY <2>1, <2>2, <2>3
<1>16. ASSUME NEW i \in DOMAIN pending, NEW m \in DOMAIN pending, i < m
       PROVE  Precedes(pending[i], pending[m])
  BY <1>16 DEF Sorted
<1>17. ASSUME NEW i \in DOMAIN pending, i < k PROVE GoesBefore(pending[i], p, now)
  BY <1>5, <1>6, <1>8, <1>17 DEF Separates
<1>18. ASSUME NEW i \in DOMAIN pending, i >= k PROVE ~GoesBefore(pending[i], p, now)
  BY <1>5, <1>6, <1>8, <1>18 DEF Separates
<1>19. ASSUME NEW i \in DOMAIN pending', NEW m \in DOMAIN pending', i < m,
              NEW a, NEW b, a = pending'[i], b = pending'[m]
       PROVE  Precedes(a, b)'
  <2>1. i \in Int /\ m \in Int /\ k \in Int
    BY <1>5, <1>8
  <2>2. CASE i < k /\ m < k
    <3>1. a = pending[i] /\ b = pending[m] /\ i \in DOMAIN pending /\ m \in DOMAIN pending
      BY <1>15, <1>19, <2>1, <2>2
    <3> QED BY <3>1, <1>9, <1>14, <1>16, <1>19
  <2>3. CASE i < k /\ m = k
    <3>1. a = pending[i] /\ b = j /\ i \in DOMAIN pending
      BY <1>8, <1>15, <1>19, <2>1, <2>3
    <3> QED BY <3>1, <1>9, <1>12, <1>17, <2>3
  <2>4. CASE i < k /\ m > k
    <3>1. a = pending[i] /\ b = pending[m - 1] /\ i \in DOMAIN pending /\ m - 1 \in DOMAIN pending /\ i < m - 1
      BY <1>15, <1>19, <2>1, <2>4
    <3> QED BY <3>1, <1>9, <1>14, <1>16
  <2>5. CASE i = k /\ m > k
    <3>1. a = j /\ b = pending[m - 1] /\ m - 1 \in DOMAIN pending /\ m - 1 >= k
      BY <1>8, <1>15, <1>19, <2>1, <2>5
    <3> QED BY <3>1, <1>9, <1>13, <1>18
  <2>6. CASE i > k /\ m > k
    <3>1. /\ a = pending[i - 1] /\ b = pending[m - 1] /\ i - 1 < m - 1
          /\ i - 1 \in DOMAIN pending /\ m - 1 \in DOMAIN pending
      BY <1>15, <1>19, <2>1, <2>6
    <3> QED BY <3>1, <1>9, <1>14, <1>16
  <2> QED BY <1>19, <2>1, <2>2, <2>3, <2>4, <2>5, <2>6
<1>20. \A i, m \in DOMAIN pending' : i < m => Precedes(pending[i], pending[m])'
  <2> SUFFICES ASSUME NEW i \in DOMAIN pending', NEW m \in DOMAIN pending', i < m
               PROVE  Precedes(pending[i], pending[m])'
    OBVIOUS
  <2>1. PICK a : a = pending'[i]
    OBVIOUS
  <2>2. PICK b : b = pending'[m]
    OBVIOUS
  <2>3. Precedes(a, b)'
    BY <1>19, <2>1, <2>2
  <2> QED BY <2>1, <2>2, <2>3 DEF Precedes
<1> QED BY <1>20 DEF Sorted

\* Only push() and the next job to start change the line, and only push() gives a job
\* its priority and its time.
LEMMA LineIsLeft ==
  ASSUME [Next]_vars
  PROVE  \/ \E p \in Priorities : Push(p)
         \/ StartJob
         \/ UNCHANGED <<pending, jobVars>>
  BY DEF Next, Queued, Drain, Pause, Resume, Tick, EnterDequeue, EndLoop, RunCheckDrain, UserReturns,
     UserThrows, Settle, vars

LEMMA SortedNext ==
  ASSUME SlotInv, Sorted, [Next]_vars
  PROVE  Sorted'
<1>1. CASE \E p \in Priorities : Push(p)
  BY <1>1, SortedPush
<1>2. CASE StartJob
  <2>1. pending \in Seq(Jobs) /\ pending # <<>> /\ pending' = Tail(pending) /\ UNCHANGED jobVars
    BY <1>2 DEF StartJob, CanStart, SlotInv, TypeOK
  <2>2. /\ Len(pending) \in Nat /\ Len(pending') = Len(pending) - 1
        /\ DOMAIN pending' = 1..Len(pending') /\ DOMAIN pending = 1..Len(pending)
        /\ \A i \in 1..Len(pending') : pending'[i] = pending[i + 1]
    BY <2>1, Shifted
  <2>3. ASSUME NEW i \in DOMAIN pending', NEW k \in DOMAIN pending', i < k,
               NEW a, NEW b, a = pending'[i], b = pending'[k]
        PROVE  Precedes(a, b)'
    <3>1. i + 1 \in DOMAIN pending /\ k + 1 \in DOMAIN pending /\ i + 1 < k + 1
      BY <2>2, <2>3
    <3>2. Precedes(pending[i + 1], pending[k + 1])
      BY <3>1 DEF Sorted
    <3>3. Precedes(a, b)
      BY <2>2, <2>3, <3>2
    <3> QED BY <2>1, <3>3 DEF Precedes, jobVars
  <2> QED BY <2>3 DEF Sorted, Precedes
<1>3. CASE UNCHANGED <<pending, jobVars>>
  BY <1>3 DEF Sorted, Precedes, jobVars
<1> QED BY <1>1, <1>2, <1>3, LineIsLeft

LEMMA StampedNext ==
  ASSUME SlotInv, Stamped, [Next]_vars
  PROVE  Stamped'
<1>1. ASSUME NEW p \in Priorities, Push(p) PROVE Stamped'
  <2>1. TypeOK /\ now \in Int /\ pushed \in Nat
    BY Numbers DEF SlotInv
  <2>2. PICK j \in Jobs : j = pushed + 1
    BY <1>1, <2>1, QueueAssumption DEF Push, Jobs
  <2>3. createdAt' = [createdAt EXCEPT ![j] = now] /\ pushed' = j /\ UNCHANGED <<now, steppedBack>>
    BY <1>1, <2>2 DEF Push, clockVars
  <2>4. createdAt'[j] = now /\ \A k \in Jobs \ {j} : createdAt'[k] = createdAt[k]
    BY <2>1, <2>3 DEF TypeOK
  <2>5. \A k \in 1..pushed' : k \in Jobs /\ (k = j \/ (k \in 1..pushed /\ k # j))
    BY <2>1, <2>2, <2>3, QueueAssumption DEF Jobs
  <2>6. \A k \in 1..pushed : k < j
    BY <2>1, <2>2
  <2>7. ASSUME ~steppedBack PROVE \A k \in 1..pushed : createdAt[k] <= now
    BY <2>7 DEF Stamped
  <2>8. ASSUME ~steppedBack, NEW k \in 1..pushed' PROVE createdAt'[k] <= now
    <3>1. CASE k = j
      BY <2>1, <2>4, <3>1
    <3>2. CASE k \in 1..pushed /\ k # j
      BY <2>4, <2>5, <2>7, <2>8, <3>2
    <3> QED BY <2>5, <3>1, <3>2
  <2>9. ASSUME ~steppedBack, NEW i \in 1..pushed', NEW k \in 1..pushed', i < k
        PROVE  createdAt'[i] <= createdAt'[k]
    <3>1. CASE k = j
      BY <2>3, <2>4, <2>8, <2>9, <3>1
    <3>2. CASE k \in 1..pushed /\ k # j
      <4>1. i \in 1..pushed /\ i # j
        BY <2>1, <2>2, <2>3, <2>9, <3>2
      <4>2. createdAt[i] <= createdAt[k]
        BY <2>9, <3>2, <4>1 DEF Stamped
      <4> QED BY <2>4, <2>5, <2>9, <3>2, <4>1, <4>2
    <3> QED BY <2>5, <2>9, <3>1, <3>2
  <2> QED BY <2>3, <2>8, <2>9 DEF Stamped
<1>2. CASE Tick
  <2>1. TypeOK /\ now \in Int /\ pushed \in Nat
    BY Numbers DEF SlotInv
  <2>2. now' \in Int
    BY <1>2, QueueAssumption DEF Tick
  <2>3. UNCHANGED <<pushed, createdAt>> /\ steppedBack' = (steppedBack \/ now' < now)
    BY <1>2 DEF Tick, jobVars
  <2>4. \A j \in 1..pushed : createdAt[j] \in Int
    <3>1. \A j \in 1..pushed : j \in Jobs
      BY <2>1, QueueAssumption DEF TypeOK, Jobs
    <3> QED BY <3>1, <2>1, Numbers
  <2>5. CASE steppedBack'
    BY <2>5 DEF Stamped
  <2>6. CASE ~steppedBack'
    <3>1. ~steppedBack /\ ~(now' < now)
      BY <2>3, <2>6, Zenon
    <3>2. now <= now'
      BY <2>1, <2>2, <3>1
    <3>3. \A j \in 1..pushed : createdAt[j] <= now
      BY <3>1 DEF Stamped
    <3>4. \A j \in 1..pushed : createdAt[j] <= now'
      BY <2>1, <2>2, <2>4, <3>2, <3>3
    <3> QED BY <2>3, <3>1, <3>4 DEF Stamped
  <2> QED BY <2>5, <2>6
<1>3. CASE UNCHANGED <<pushed, createdAt, now, steppedBack>>
  BY <1>3 DEF Stamped
<1>4. \/ \E p \in Priorities : Push(p)
      \/ Tick
      \/ UNCHANGED <<pushed, createdAt, now, steppedBack>>
  BY DEF Next, Queued, Drain, Pause, Resume, StartJob, EnterDequeue, EndLoop, RunCheckDrain, UserReturns,
     UserThrows, Settle, vars, jobVars, clockVars
<1> QED BY <1>1, <1>2, <1>3, <1>4

LineInv == SlotInv /\ Sorted /\ Stamped

\* The jobs that wait are in the order of their priorities, and those of the same
\* priority in the order they were pushed unless the clock was set back, whatever
\* number of them there is and wherever the binary search of insertSorted() looks
\* (queue.ts:107-123).
THEOREM LineKept == Spec => []LineIsOrdered
<1>1. Init => LineInv
  <2>1. ASSUME Init PROVE Sorted /\ Stamped
    BY <2>1 DEF Init, Sorted, Stamped
  <2> QED BY <2>1, InvInit DEF LineInv
<1>2. LineInv /\ [Next]_vars => LineInv'
  BY InvNext, SortedNext, StampedNext DEF LineInv
<1>3. LineInv => LineIsOrdered
  <2> SUFFICES ASSUME LineInv, NEW i \in DOMAIN pending, NEW k \in DOMAIN pending, i < k,
                      NEW a, a = pending[i], NEW b, b = pending[k]
               PROVE  priority[a] < priority[b] \/ (priority[a] = priority[b] /\ (steppedBack \/ a < b))
    BY DEF LineIsOrdered
  <2>1. TypeOK /\ pushed \in Nat
    BY Numbers DEF LineInv, SlotInv
  <2>2. Precedes(a, b)
    BY DEF LineInv, Sorted
  <2>3. a \in In("pending") /\ b \in In("pending")
    BY DEF LineInv, SlotInv, InLine, ToSet
  <2>4. a \in 1..pushed /\ b \in 1..pushed /\ a \in Jobs /\ b \in Jobs
    BY <2>1, <2>3 DEF LineInv, SlotInv, InLine, In, Jobs
  <2>5. createdAt[a] \in Int /\ createdAt[b] \in Int
    BY <2>1, <2>4, Numbers
  <2>6. ASSUME ~steppedBack, b < a PROVE createdAt[b] <= createdAt[a]
    BY <2>4, <2>6 DEF LineInv, Stamped
  <2> QED BY <2>1, <2>2, <2>4, <2>5, <2>6 DEF Precedes
<1> QED BY <1>1, <1>2, <1>3, PTL DEF Spec
=============================================================================
