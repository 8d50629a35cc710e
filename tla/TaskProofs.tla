----------------------------- MODULE TaskProofs -----------------------------
(***************************************************************************)
(* For all trees of tasks, however often they are run at once: memoize()   *)
(* shares, the attempts of a retry follow one another, and what settles    *)
(* leaves nothing running that it may not.  And for every number of users, *)
(* thresholds, timeouts and set-backs of a circuit breaker round such      *)
(* tasks: its counters count what is consecutive, and an open one does not *)
(* count.                                                                  *)
(***************************************************************************)
EXTENDS Task, CircuitBreaker, FiniteSetTheorems, SequenceTheorems, TLAPS

(* The inductive invariant: how an execution stands.                           *)

Phases == {"new", "sleeping", "waiting", "settled"}
Outcomes == [tag : {"pending", "ok", "err", "fatal", "rejected", "timeout"}, from : Nat]
Executions == [node : Nat, parent : Nat, phase : Phases, result : Outcomes, kids : Seq(Nat), waits : Seq(Nat)]

TaskTypeOK ==
  /\ tree \in Trees /\ execs \in Seq(Executions) /\ memo \in [DOMAIN tree -> Nat]
  /\ \A e \in DOMAIN execs : execs[e].node \in DOMAIN tree
  /\ \A n \in DOMAIN tree : memo[n] \in {0} \cup DOMAIN execs

\* An execution and the one that began it know each other.
Family ==
  /\ \A e \in DOMAIN execs : \A i \in DOMAIN Kids(e) : Kids(e)[i] \in DOMAIN execs /\ execs[Kids(e)[i]].parent = e
  /\ \A k \in DOMAIN execs : execs[k].parent # 0 =>
       /\ execs[k].parent \in DOMAIN execs
       /\ \E i \in DOMAIN Kids(execs[k].parent) : Kids(execs[k].parent)[i] = k

\* What has a result goes no further.
Final(e) == Settled(execs[e].result) => execs[e].phase = "settled"

\* What an execution has begun by the time it has come to its phase; unless it runs its tasks at
\* once, all of them but the last have settled.
Begun(e) ==
  LET of == Node(e).kind
      at == execs[e].phase
  IN  /\ at = "new" => Kids(e) = <<>> /\ execs[e].waits = <<>>
      /\ at = "sleeping" => of \in {"delay"} \cup Retried
      /\ at = "sleeping" /\ of = "delay" => Kids(e) = <<>>
      /\ at \in {"waiting", "settled"} /\ of \in ({"flatMap"} \cup Single) \ {"memoize"} => Kids(e) # <<>>
      /\ of = "leaf" => Kids(e) = <<>>
      /\ of \in Single \ Retried => Len(Kids(e)) <= 1
      /\ of \notin Parallel => \A i \in 1..(Len(Kids(e)) - 1) : Settled(Results(e)[i])

\* The executions of a memoize() begin one other between them, and answer as it does.
Memoizes(e) ==
  LET kept == memo[execs[e].node]
  IN  Node(e).kind = "memoize" =>
        /\ Kids(e) # <<>> => Kids(e) = <<kept>>
        /\ execs[e].phase # "new" => kept # 0
        /\ execs[e].phase = "settled" => execs[e].result = execs[kept].result /\ Settled(execs[e].result)

\* Each wait of a retry is for an attempt that failed.
Failed(node, result) == IsErr(result) /\ (node.kind = "policy" => result.tag # "fatal")
Tries(e) ==
  LET node == Node(e)
      at == execs[e].phase
      waits == execs[e].waits
  IN  node.kind \in Retried =>
        /\ Len(Kids(e)) <= AtMost(node)
        /\ at = "sleeping" => Len(waits) = Len(Kids(e)) /\ Kids(e) # <<>> /\ Len(Kids(e)) < node.attempts
        /\ at \in {"waiting", "settled"} => Len(waits) = Len(Kids(e)) - 1
        /\ \A i \in 1..Len(waits) : Failed(node, Results(e)[i]) /\ (~node.jitter => waits[i] = BaseDelay(node, i - 1))
        /\ at = "settled" => Settled(execs[e].result) /\ execs[e].result = Last(Results(e))

\* What has settled may leave others behind it, if it may at all.
MayLeave(e) ==
  \/ Node(e).kind = "race"
  \/ execs[e].result = Says("timeout", e)
  \/ Node(e).kind \in Parallel /\ execs[e].result.tag = "rejected"
Leaves(e) ==
  ~Unsettled(e) => MayLeave(e) \/ \A i \in DOMAIN Kids(e) : ~Unsettled(Kids(e)[i])

Stands(e) == Final(e) /\ Begun(e) /\ Memoizes(e) /\ Tries(e) /\ Leaves(e)
TaskInv == TaskTypeOK /\ Family /\ \A e \in DOMAIN execs : Stands(e)
-----------------------------------------------------------------------------
(* Sequences and numbers.                                                       *)

\* Every set of numbers has a least one.
LEMMA LeastNumber ==
  ASSUME NEW T, T \subseteq Nat, T # {}
  PROVE  \E n \in T : \A m \in T : n <= m
<1> DEFINE W == {0..n : n \in T}
<1>1. W \subseteq FiniteSubsetsOf(Nat)
  <2>1. \A n \in T : 0..n \in SUBSET Nat
    OBVIOUS
  <2>2. ASSUME NEW n \in T PROVE IsFiniteSet(0..n)
    <3>1. 0 \in Int /\ n \in Int
      OBVIOUS
    <3> QED BY <3>1, FS_Interval
  <2> QED BY <2>1, <2>2 DEF FiniteSubsetsOf
<1>2. IsWellFoundedOn(StrictSubsetOrdering(Nat), FiniteSubsetsOf(Nat))
  BY FS_StrictSubsetOrderingWellFounded
<1>3. W # {}
  OBVIOUS
<1>4. \E x \in W : \A y \in W : <<y, x>> \notin StrictSubsetOrdering(Nat)
  <2> HIDE DEF W
  <2> QED BY <1>1, <1>2, <1>3, WFMin
<1>5. PICK n \in T : \A y \in W : <<y, 0..n>> \notin StrictSubsetOrdering(Nat)
  BY <1>4
<1>6. ASSUME NEW m \in T, m < n PROVE FALSE
  <2>1. 0..m \subseteq 0..n /\ n \in 0..n /\ n \notin 0..m
    BY <1>6
  <2>2. 0..m \in SUBSET Nat /\ 0..n \in SUBSET Nat
    OBVIOUS
  <2>3. <<0..m, 0..n>> \in StrictSubsetOrdering(Nat)
    BY <2>1, <2>2 DEF StrictSubsetOrdering
  <2> QED BY <2>3, <1>5
<1> QED BY <1>5, <1>6

\* A sequence that goes on as another.
LEMMA Joined ==
  ASSUME NEW S, NEW s \in Seq(S), NEW t \in Seq(S), NEW u, u = s \o t
  PROVE  /\ u \in Seq(S) /\ Len(u) = Len(s) + Len(t)
         /\ \A i \in 1..Len(s) : u[i] = s[i]
         /\ \A i \in 1..Len(t) : u[Len(s) + i] = t[i]
<1>1. Len(s) \in Nat /\ Len(t) \in Nat
  OBVIOUS
<1>2. /\ u \in Seq(S) /\ Len(u) = Len(s) + Len(t)
      /\ \A i \in 1..Len(u) : u[i] = IF i <= Len(s) THEN s[i] ELSE t[i - Len(s)]
  BY ConcatProperties
<1>3. ASSUME NEW i \in 1..Len(t) PROVE u[Len(s) + i] = t[i]
  <2>1. PICK j : j = Len(s) + i
    OBVIOUS
  <2>2. j \in 1..Len(u) /\ ~(j <= Len(s)) /\ j - Len(s) = i
    BY <1>1, <1>2, <2>1
  <2> QED BY <1>2, <2>1, <2>2
<1>4. ASSUME NEW i \in 1..Len(s) PROVE u[i] = s[i]
  BY <1>1, <1>2
<1> QED BY <1>2, <1>3, <1>4

-----------------------------------------------------------------------------
(* The trees, and an execution that takes a step.                               *)

NodesOf(t) ==
  [kind : {"leaf", "flatMap"} \cup Parallel \cup Single, args : Seq(DOMAIN t), catches : BOOLEAN, hangs : BOOLEAN,
   attempts : Int, backoff : {"fixed", "linear", "exponential"}, delay : Nat, maxDelay : Nat, jitter : BOOLEAN]

LEMMA TreeIs ==
  ASSUME NEW t \in Trees
  PROVE  /\ t \in Seq(NodesOf(t)) /\ Len(t) \in Nat \ {0} /\ DOMAIN t = 1..Len(t) /\ DOMAIN t \subseteq Nat
         /\ \A n \in DOMAIN t :
              /\ t[n].kind = "leaf" => t[n].args = <<>>
              /\ t[n].kind \in Single => Len(t[n].args) = 1
              /\ t[n].kind = "flatMap" => Len(t[n].args) = 2
<1>1. PICK N : N = NodesOf(t)
  OBVIOUS
<1>2. t \in Seq(N) /\ t # <<>>
  BY <1>1, TaskAssumption DEF NodesOf
<1>3. Len(t) \in Nat \ {0} /\ DOMAIN t = 1..Len(t)
  BY <1>2
<1>4. DOMAIN t \subseteq Nat
  BY <1>3
<1>5. \A n \in DOMAIN t :
        /\ t[n].kind = "leaf" => t[n].args = <<>>
        /\ t[n].kind \in Single => Len(t[n].args) = 1
        /\ t[n].kind = "flatMap" => Len(t[n].args) = 2
  BY TaskAssumption
<1> QED BY <1>1, <1>2, <1>3, <1>4, <1>5

\* The executions become s: e goes on, and begins executions of nodes.
Became(s, e, nodes) ==
  /\ s \in Seq(Executions) /\ Len(s) = Len(execs) + Len(nodes)
  /\ \A d \in DOMAIN execs \ {e} : s[d] = execs[d]
  /\ \A i \in DOMAIN nodes : s[Len(execs) + i] = Execution(nodes[i], e)
  /\ s[e].node = execs[e].node /\ s[e].parent = execs[e].parent
  /\ Len(s[e].kids) = Len(Kids(e)) + Len(nodes)
  /\ \A i \in DOMAIN Kids(e) : s[e].kids[i] = Kids(e)[i]
  /\ \A i \in DOMAIN nodes : s[e].kids[Len(Kids(e)) + i] = Len(execs) + i

\* The next state differs by e, which had not settled, and by the executions of nodes that e begins.
Turns(e, nodes) ==
  /\ e \in DOMAIN execs /\ execs[e].phase # "settled" /\ tree' = tree
  /\ nodes \in Seq(DOMAIN tree)
  /\ execs' \in Seq(Executions) /\ Len(execs') = Len(execs) + Len(nodes)
  /\ \A d \in DOMAIN execs \ {e} : execs'[d] = execs[d]
  /\ \A i \in DOMAIN nodes : execs'[Len(execs) + i] = Execution(nodes[i], e)
  /\ execs'[e].node = execs[e].node /\ execs'[e].parent = execs[e].parent
  /\ Len(execs'[e].kids) = Len(Kids(e)) + Len(nodes)
  /\ \A i \in DOMAIN Kids(e) : execs'[e].kids[i] = Kids(e)[i]
  /\ \A i \in DOMAIN nodes : execs'[e].kids[Len(Kids(e)) + i] = Len(execs) + i

LEMMA NewExecution ==
  ASSUME NEW n \in Nat, NEW p \in Nat
  PROVE  Execution(n, p) \in Executions
  BY DEF Execution, Executions, Pending, Outcomes, Phases

\* An execution that goes on to q and begins k others, from the number after l.
Grown(x, q, k, l) == [x EXCEPT !.phase = q, !.kids = @ \o [i \in 1..k |-> l + i]]
IsGrown(y, x, q, k, l) ==
  /\ y \in Executions /\ y.phase = q /\ y.node = x.node /\ y.parent = x.parent /\ y.result = x.result /\ y.waits = x.waits
  /\ Len(y.kids) = Len(x.kids) + k /\ \A i \in DOMAIN x.kids : y.kids[i] = x.kids[i]
  /\ \A i \in 1..k : y.kids[Len(x.kids) + i] = l + i

LEMMA KidsMore ==
  ASSUME NEW x \in Executions, NEW q \in Phases, NEW k \in Nat, NEW l \in Nat
  PROVE  IsGrown(Grown(x, q, k, l), x, q, k, l)
<1> DEFINE y == Grown(x, q, k, l)
<1>1. PICK f : f = [i \in 1..k |-> l + i]
  OBVIOUS
<1>2. f \in Seq(Nat) /\ Len(f) = k /\ \A i \in 1..k : f[i] = l + i
  BY <1>1
<1>3. x.kids \in Seq(Nat) /\ Len(x.kids) \in Nat
  BY DEF Executions
<1>4. PICK ks : ks = x.kids \o f
  OBVIOUS
<1>5. /\ ks \in Seq(Nat) /\ Len(ks) = Len(x.kids) + k /\ \A i \in DOMAIN x.kids : ks[i] = x.kids[i]
      /\ \A i \in 1..k : ks[Len(x.kids) + i] = l + i
  <2>1. DOMAIN x.kids = 1..Len(x.kids)
    BY <1>3
  <2>2. PICK earlier \in Seq(Nat) : earlier = x.kids
    BY <1>3
  <2>3. f \in Seq(Nat) /\ ks = earlier \o f
    BY <1>2, <1>4, <2>2
  <2>4. /\ ks \in Seq(Nat) /\ Len(ks) = Len(earlier) + Len(f)
        /\ \A d \in 1..Len(earlier) : ks[d] = earlier[d]
        /\ \A i \in 1..Len(f) : ks[Len(earlier) + i] = f[i]
    BY <2>3, Joined
  <2> QED BY <1>2, <2>1, <2>2, <2>4
<1>6. PICK z : z = [x EXCEPT !.phase = q]
  OBVIOUS
<1>7. z \in Executions /\ z.phase = q /\ z.node = x.node /\ z.parent = x.parent /\ z.result = x.result /\ z.waits = x.waits /\ z.kids = x.kids
  BY <1>6 DEF Executions
<1>8. y = [z EXCEPT !.kids = ks]
  BY <1>1, <1>4, <1>6 DEF Executions, Grown
<1>9. y \in Executions /\ y.phase = q /\ y.node = x.node /\ y.parent = x.parent /\ y.result = x.result /\ y.waits = x.waits /\ y.kids = ks
  BY <1>5, <1>7, <1>8 DEF Executions
<1> HIDE DEF y
<1>10. IsGrown(y, x, q, k, l)
  BY <1>5, <1>9 DEF IsGrown
<1> QED BY <1>10 DEF y

LEMMA WithIs ==
  ASSUME TaskTypeOK, NEW e \in DOMAIN execs, NEW q \in Phases, NEW nodes \in Seq(DOMAIN tree), NEW s, s = With(e, q, nodes)
  PROVE  /\ Became(s, e, nodes)
         /\ s[e].phase = q /\ s[e].result = execs[e].result /\ s[e].waits = execs[e].waits
<1>1. execs \in Seq(Executions) /\ DOMAIN execs = 1..Len(execs) /\ Len(execs) \in Nat /\ execs[e] \in Executions /\ e \in Nat
  BY DEF TaskTypeOK
<1>2. Len(nodes) \in Nat /\ DOMAIN nodes = 1..Len(nodes) /\ \A i \in 1..Len(nodes) : nodes[i] \in DOMAIN tree
  OBVIOUS
<1>3. DOMAIN tree \subseteq Nat
  BY TreeIs DEF TaskTypeOK
<1>4. PICK y : y = [execs[e] EXCEPT !.phase = q, !.kids = @ \o [i \in 1..Len(nodes) |-> Len(execs) + i]]
  OBVIOUS
<1>5. /\ y \in Executions /\ y.phase = q /\ y.node = execs[e].node /\ y.parent = execs[e].parent /\ y.result = execs[e].result
      /\ y.waits = execs[e].waits
      /\ Len(y.kids) = Len(Kids(e)) + Len(nodes) /\ \A i \in DOMAIN Kids(e) : y.kids[i] = Kids(e)[i]
      /\ \A i \in 1..Len(nodes) : y.kids[Len(Kids(e)) + i] = Len(execs) + i
  <2>1. PICK x \in Executions : x = execs[e]
    BY <1>1
  <2>2. PICK k \in Nat, l \in Nat : k = Len(nodes) /\ l = Len(execs)
    BY <1>1, <1>2
  <2>3. y = Grown(x, q, k, l)
    BY <1>4, <2>1, <2>2 DEF Grown
  <2>4. IsGrown(y, x, q, k, l)
    BY <2>3, KidsMore, Zenon
  <2> QED BY <2>1, <2>2, <2>4 DEF Kids, IsGrown
<1>6. PICK old : old = [execs EXCEPT ![e] = y]
  OBVIOUS
<1>7. old \in Seq(Executions) /\ Len(old) = Len(execs) /\ old[e] = y /\ \A d \in DOMAIN execs \ {e} : old[d] = execs[d]
  BY <1>1, <1>5, <1>6
<1>8. PICK young : young = [i \in 1..Len(nodes) |-> Execution(nodes[i], e)]
  OBVIOUS
<1>9. \A i \in 1..Len(nodes) : Execution(nodes[i], e) \in Executions
  BY <1>1, <1>2, <1>3, NewExecution
<1>10. young \in Seq(Executions) /\ Len(young) = Len(nodes) /\ \A i \in 1..Len(nodes) : young[i] = Execution(nodes[i], e)
  BY <1>2, <1>8, <1>9
<1>11. s = old \o young
  <2>1. old = [execs EXCEPT ![e].phase = q, ![e].kids = @ \o [i \in 1..Len(nodes) |-> Len(execs) + i]]
    BY <1>1, <1>4, <1>6
  <2> QED BY <2>1, <1>8 DEF With
<1>12. /\ s \in Seq(Executions) /\ Len(s) = Len(execs) + Len(nodes)
       /\ \A d \in DOMAIN execs : s[d] = old[d]
       /\ \A i \in 1..Len(nodes) : s[Len(execs) + i] = young[i]
  <2>1. PICK all : all = old \o young
    OBVIOUS
  <2>3. old \in Seq(Executions) /\ young \in Seq(Executions)
    BY <1>7, <1>10
  <2>2. /\ all \in Seq(Executions) /\ Len(all) = Len(old) + Len(young)
        /\ \A d \in 1..Len(old) : all[d] = old[d]
        /\ \A i \in 1..Len(young) : all[Len(old) + i] = young[i]
    BY <2>1, <2>3, Joined
  <2> QED BY <1>1, <1>2, <1>7, <1>10, <1>11, <2>1, <2>2
<1> QED BY <1>1, <1>2, <1>5, <1>7, <1>10, <1>12 DEF Became

LEMMA WithTurns ==
  ASSUME TaskTypeOK, NEW e \in DOMAIN execs, execs[e].phase # "settled", NEW q \in Phases, NEW nodes \in Seq(DOMAIN tree),
         execs' = With(e, q, nodes), tree' = tree
  PROVE  /\ Turns(e, nodes)
         /\ execs'[e].phase = q /\ execs'[e].result = execs[e].result /\ execs'[e].waits = execs[e].waits
<1>1. PICK s : s = With(e, q, nodes)
  OBVIOUS
<1>2. Became(s, e, nodes) /\ s[e].phase = q /\ s[e].result = execs[e].result /\ s[e].waits = execs[e].waits
  BY <1>1, WithIs
<1>3. execs' = s
  BY <1>1
<1> HIDE DEF Became
<1>4. Became(execs', e, nodes)
  BY <1>2, <1>3
<1> QED BY <1>2, <1>3, <1>4 DEF Turns, Became

\* The same, with another wait.
Waited(s, e, wait) == [s EXCEPT ![e].waits = Append(@, wait)]

LEMMA WithWait ==
  ASSUME TaskTypeOK, NEW e \in DOMAIN execs, execs[e].phase # "settled", NEW q \in Phases, NEW nodes \in Seq(DOMAIN tree),
         NEW wait \in Nat, execs' = Waited(With(e, q, nodes), e, wait), tree' = tree
  PROVE  /\ Turns(e, nodes)
         /\ execs'[e].phase = q /\ execs'[e].result = execs[e].result
         /\ execs'[e].waits = Append(execs[e].waits, wait)
<1>1. PICK s : s = With(e, q, nodes)
  OBVIOUS
<1>2. Became(s, e, nodes) /\ s[e].phase = q /\ s[e].result = execs[e].result /\ s[e].waits = execs[e].waits
  BY <1>1, WithIs
<1>3. s \in Seq(Executions) /\ Len(s) = Len(execs) + Len(nodes) /\ e \in 1..Len(execs) /\ Len(nodes) \in Nat /\ Len(execs) \in Nat
  BY <1>2 DEF Became, TaskTypeOK
<1>4. e \in DOMAIN s /\ s[e] \in Executions
  BY <1>3
<1>5. PICK y : y = [s[e] EXCEPT !.waits = Append(@, wait)]
  OBVIOUS
<1>6. PICK w \in Seq(Nat) : w = s[e].waits
  BY <1>4 DEF Executions
<1>7. PICK v \in Seq(Nat) : v = Append(w, wait)
  <2>1. w \in Seq(Nat)
    BY <1>6
  <2>2. Append(w, wait) \in Seq(Nat)
    BY <2>1
  <2> QED BY <2>2
<1>8. y = [s[e] EXCEPT !.waits = v]
  BY <1>5, <1>6, <1>7
<1>9. /\ y \in Executions /\ y.waits = v
      /\ y.phase = s[e].phase /\ y.node = s[e].node /\ y.parent = s[e].parent /\ y.result = s[e].result /\ y.kids = s[e].kids
  BY <1>4, <1>7, <1>8 DEF Executions
<1>11. /\ execs' \in Seq(Executions) /\ Len(execs') = Len(s) /\ execs'[e] = y
       /\ \A d \in DOMAIN s \ {e} : execs'[d] = s[d]
  <2>1. s \in Seq(Executions) /\ e \in DOMAIN s /\ y \in Executions
    BY <1>3, <1>4, <1>9
  <2>2. PICK u : u = [s EXCEPT ![e] = y]
    OBVIOUS
  <2>4. execs' = u
    BY <1>1, <1>5, <2>2 DEF Waited
  <2>3. u \in Seq(Executions) /\ Len(u) = Len(s) /\ u[e] = y /\ \A d \in DOMAIN s \ {e} : u[d] = s[d]
    BY <2>1, <2>2
  <2> QED BY <2>4, <2>3
<1>12. DOMAIN s = 1..(Len(execs) + Len(nodes)) /\ DOMAIN execs = 1..Len(execs) /\ DOMAIN nodes = 1..Len(nodes)
  BY <1>3 DEF TaskTypeOK
<1>13. \A d \in DOMAIN execs \ {e} : execs'[d] = execs[d]
  <2>1. \A d \in DOMAIN execs : d \in DOMAIN s
    BY <1>3, <1>12
  <2> QED BY <1>2, <1>11, <2>1 DEF Became
<1>14. \A i \in DOMAIN nodes : execs'[Len(execs) + i] = Execution(nodes[i], e)
  <2>1. \A i \in DOMAIN nodes : Len(execs) + i \in DOMAIN s /\ Len(execs) + i # e
    <3>1. PICK k \in Nat, l \in Nat : k = Len(nodes) /\ l = Len(execs)
      BY <1>3
    <3>2. e \in 1..l /\ DOMAIN s = 1..(l + k) /\ DOMAIN nodes = 1..k
      BY <1>3, <1>12, <3>1
    <3>3. \A i \in 1..k : l + i \in 1..(l + k) /\ l + i # e
      BY <3>2
    <3> QED BY <3>1, <3>2, <3>3
  <2> QED BY <1>2, <1>11, <2>1 DEF Became
<1> QED BY <1>2, <1>3, <1>6, <1>7, <1>9, <1>11, <1>13, <1>14 DEF Turns, Became
-----------------------------------------------------------------------------
\* What has settled stays as it is, and what memoize() keeps it keeps.
Keeps ==
  /\ tree' = tree /\ DOMAIN execs \subseteq DOMAIN execs'
  /\ \A d \in DOMAIN execs :
       /\ execs'[d].node = execs[d].node
       /\ execs[d].phase = "settled" \/ Settled(execs[d].result) => execs'[d] = execs[d]
  /\ \A n \in DOMAIN tree : memo[n] # 0 => memo'[n] = memo[n]

LEMMA KidsAre ==
  ASSUME TaskTypeOK, Family, NEW d \in DOMAIN execs
  PROVE  /\ execs[d] \in Executions /\ Kids(d) \in Seq(Nat) /\ Len(Kids(d)) \in Nat /\ DOMAIN Kids(d) = 1..Len(Kids(d))
         /\ Len(Results(d)) = Len(Kids(d)) /\ execs[d].node \in DOMAIN tree /\ d \in Nat \ {0}
         /\ \A i \in 1..Len(Kids(d)) : Kids(d)[i] \in DOMAIN execs /\ Results(d)[i] = execs[Kids(d)[i]].result
         /\ execs[d].waits \in Seq(Nat) /\ Len(execs[d].waits) \in Nat
<1>1. execs[d] \in Executions /\ execs[d].node \in DOMAIN tree /\ d \in Nat \ {0}
  BY DEF TaskTypeOK
<1>2. Kids(d) \in Seq(Nat) /\ execs[d].waits \in Seq(Nat)
  BY <1>1 DEF Kids, Executions
<1>3. Len(Kids(d)) \in Nat /\ DOMAIN Kids(d) = 1..Len(Kids(d)) /\ Len(execs[d].waits) \in Nat
  BY <1>2
<1>4. Len(Results(d)) = Len(Kids(d)) /\ \A i \in 1..Len(Kids(d)) : Results(d)[i] = execs[Kids(d)[i]].result
  BY <1>3 DEF Results
<1>5. \A i \in 1..Len(Kids(d)) : Kids(d)[i] \in DOMAIN execs
  BY <1>3 DEF Family
<1> QED BY <1>1, <1>2, <1>3, <1>4, <1>5

LEMMA ResultsKept ==
  ASSUME TaskTypeOK, Family, Keeps, NEW d \in DOMAIN execs, execs'[d] = execs[d]
  PROVE  /\ Node(d)' = Node(d) /\ Kids(d)' = Kids(d) /\ Len(Results(d)') = Len(Results(d))
         /\ \A i \in 1..Len(Kids(d)) : Settled(Results(d)[i]) => Results(d)'[i] = Results(d)[i]
<1>1. Node(d)' = Node(d) /\ Kids(d)' = Kids(d)
  BY DEF Node, Kids, Keeps
<1>2. Results(d)' = [i \in 1..Len(Kids(d)) |-> execs'[Kids(d)[i]].result]
  BY <1>1 DEF Results
<1>3. PICK k \in Nat : k = Len(Kids(d))
  BY KidsAre
<1>4. Len(Results(d)') = k /\ \A i \in 1..k : Results(d)'[i] = execs'[Kids(d)[i]].result
  BY <1>2, <1>3
<1>5. \A i \in 1..k : Settled(Results(d)[i]) => execs'[Kids(d)[i]].result = Results(d)[i]
  <2> SUFFICES ASSUME NEW i \in 1..k, Settled(Results(d)[i]) PROVE execs'[Kids(d)[i]].result = Results(d)[i]
    OBVIOUS
  <2>1. PICK kid \in DOMAIN execs : kid = Kids(d)[i] /\ Results(d)[i] = execs[kid].result
    BY <1>3, KidsAre
  <2> QED BY <2>1 DEF Keeps
<1>6. Len(Results(d)) = k
  BY <1>3, KidsAre
<1> QED BY <1>1, <1>3, <1>4, <1>5, <1>6

LEMMA ErrIsSettled == ASSUME NEW r, IsErr(r) PROVE Settled(r)
  BY DEF IsErr, Settled, Pending

LEMMA StandsKept ==
  ASSUME TaskTypeOK, Family, Keeps, NEW d \in DOMAIN execs, execs'[d] = execs[d], Stands(d)
  PROVE  Stands(d)'
<1>1. /\ Node(d)' = Node(d) /\ Kids(d)' = Kids(d) /\ Len(Results(d)') = Len(Results(d))
      /\ \A i \in 1..Len(Kids(d)) : Settled(Results(d)[i]) => Results(d)'[i] = Results(d)[i]
  BY ResultsKept
<1>2. /\ Len(Kids(d)) \in Nat /\ DOMAIN Kids(d) = 1..Len(Kids(d)) /\ Len(Results(d)) = Len(Kids(d))
      /\ execs[d].node \in DOMAIN tree /\ execs[d].waits \in Seq(Nat) /\ Len(execs[d].waits) \in Nat
      /\ \A i \in 1..Len(Kids(d)) : Kids(d)[i] \in DOMAIN execs /\ Results(d)[i] = execs[Kids(d)[i]].result
  BY KidsAre
<1>3. Final(d)'
  BY DEF Stands, Final, Settled
<1>4. Begun(d)'
  <2>1. Begun(d)
    BY DEF Stands
  <2>2. ASSUME Node(d).kind \notin Parallel, NEW i \in 1..(Len(Kids(d)) - 1) PROVE Settled(Results(d)'[i])
    <3>1. i \in 1..Len(Kids(d))
      BY <1>2
    <3>2. Settled(Results(d)[i])
      BY <2>1, <2>2 DEF Begun
    <3> QED BY <1>1, <3>1, <3>2
  <2> QED BY <1>1, <2>1, <2>2 DEF Begun
<1>5. Memoizes(d)'
  <2> SUFFICES ASSUME Node(d).kind = "memoize" PROVE Memoizes(d)'
    BY <1>1 DEF Memoizes
  <2>1. PICK n \in DOMAIN tree : n = execs[d].node
    BY <1>2
  <2>2. /\ Kids(d) # <<>> => Kids(d) = <<memo[n]>>
        /\ execs[d].phase # "new" => memo[n] # 0
        /\ execs[d].phase = "settled" => execs[d].result = execs[memo[n]].result /\ Settled(execs[d].result)
    BY <2>1 DEF Stands, Memoizes
  <2>3. memo[n] \in {0} \cup DOMAIN execs /\ (memo[n] # 0 => memo'[n] = memo[n])
    BY DEF TaskTypeOK, Keeps
  <2>4. Kids(d) # <<>> => memo[n] # 0
    <3> SUFFICES ASSUME Kids(d) = <<memo[n]>> PROVE memo[n] # 0
      BY <2>2
    <3>1. 1 \in 1..Len(Kids(d)) /\ Kids(d)[1] = memo[n]
      OBVIOUS
    <3>2. memo[n] \in DOMAIN execs
      BY <1>2, <3>1
    <3> QED BY <3>2, KidsAre
  <2>5. execs[d].phase = "settled" => execs'[memo[n]] = execs[memo[n]]
    BY <2>2, <2>3 DEF Keeps
  <2> QED BY <1>1, <2>1, <2>2, <2>3, <2>4, <2>5 DEF Memoizes, Settled
<1>6. Tries(d)'
  <2> SUFFICES ASSUME Node(d).kind \in Retried PROVE Tries(d)'
    BY <1>1 DEF Tries
  <2>1. PICK w \in Seq(Nat) : w = execs[d].waits
    BY <1>2
  <2>2. /\ Len(Kids(d)) <= AtMost(Node(d))
        /\ execs[d].phase = "sleeping" => Len(w) = Len(Kids(d)) /\ Kids(d) # <<>> /\ Len(Kids(d)) < Node(d).attempts
        /\ execs[d].phase \in {"waiting", "settled"} => Len(w) = Len(Kids(d)) - 1
        /\ \A i \in 1..Len(w) : Failed(Node(d), Results(d)[i]) /\ (~Node(d).jitter => w[i] = BaseDelay(Node(d), i - 1))
        /\ execs[d].phase = "settled" => Settled(execs[d].result) /\ execs[d].result = Last(Results(d))
    BY <2>1 DEF Stands, Tries
  <2>3. Len(w) <= Len(Kids(d)) /\ Len(w) \in Nat
    <3>1. execs[d].phase = "new" => w = <<>>
      BY <2>1 DEF Stands, Begun
    <3>2. execs[d].phase \in {"new", "sleeping", "waiting", "settled"}
      BY KidsAre DEF Executions, Phases
    <3>3. PICK k \in Nat, l \in Nat : k = Len(Kids(d)) /\ l = Len(w)
      BY <1>2, <2>1
    <3>4. /\ execs[d].phase = "new" => l = 0
          /\ execs[d].phase = "sleeping" => l = k
          /\ execs[d].phase \in {"waiting", "settled"} => l = k - 1
      BY <2>2, <3>1, <3>3
    <3>5. l <= k
      BY <3>2, <3>4
    <3> QED BY <3>3, <3>5
  <2>4. ASSUME NEW i \in 1..Len(w) PROVE Failed(Node(d), Results(d)'[i])
    <3>1. i \in 1..Len(Kids(d)) /\ Failed(Node(d), Results(d)[i])
      <4>1. PICK k \in Nat, l \in Nat : k = Len(Kids(d)) /\ l = Len(w)
        BY <1>2, <2>1, <2>3
      <4>2. i \in 1..l /\ l <= k
        BY <2>3, <2>4, <4>1
      <4>3. i \in 1..k
        BY <4>2
      <4> QED BY <2>2, <2>4, <4>1, <4>3
    <3>2. Results(d)'[i] = Results(d)[i]
      BY <1>1, <3>1, ErrIsSettled DEF Failed
    <3> QED BY <3>1, <3>2
  <2>5. execs[d].phase = "settled" => Last(Results(d)') = Last(Results(d))
    <3> SUFFICES ASSUME execs[d].phase = "settled" PROVE Last(Results(d)') = Last(Results(d))
      OBVIOUS
    <3>1. Len(Kids(d)) \in 1..Len(Kids(d))
      BY <1>2, <2>2, <2>3
    <3>2. Settled(Results(d)[Len(Kids(d))])
      BY <1>2, <2>2 DEF Last
    <3>3. Results(d)'[Len(Kids(d))] = Results(d)[Len(Kids(d))]
      BY <1>1, <3>1, <3>2
    <3> QED BY <1>1, <1>2, <3>3 DEF Last
  <2> QED BY <1>1, <2>1, <2>2, <2>4, <2>5 DEF Tries, Settled, BaseDelay, AtMost, Failed
<1>7. Leaves(d)'
  <2> SUFFICES ASSUME execs[d].phase = "settled", ~MayLeave(d) PROVE \A i \in 1..Len(Kids(d)) : execs'[Kids(d)[i]].phase = "settled"
    BY <1>1, <1>2 DEF Leaves, MayLeave, Unsettled, Says
  <2>1. \A i \in 1..Len(Kids(d)) : execs[Kids(d)[i]].phase = "settled"
    BY <1>2 DEF Stands, Leaves, Unsettled
  <2> QED BY <1>2, <2>1 DEF Keeps
<1> QED BY <1>3, <1>4, <1>5, <1>6, <1>7 DEF Stands

\* The memo is kept, and holds executions.
MemoGoes ==
  /\ memo' \in [DOMAIN tree -> Nat]
  /\ \A n \in DOMAIN tree : memo'[n] \in {0} \cup DOMAIN execs' /\ (memo[n] # 0 => memo'[n] = memo[n])

LEMMA NodeIs ==
  ASSUME TaskTypeOK, NEW n \in DOMAIN tree
  PROVE  /\ tree[n] \in NodesOf(tree) /\ tree[n].attempts \in Int /\ tree[n].delay \in Nat /\ tree[n].maxDelay \in Nat
         /\ tree[n].kind \in {"leaf", "flatMap"} \cup Parallel \cup Single
         /\ tree[n].args \in Seq(DOMAIN tree) /\ Len(tree[n].args) \in Nat
         /\ tree[n].backoff \in {"fixed", "linear", "exponential"} /\ tree[n].jitter \in BOOLEAN
         /\ tree[n].kind = "leaf" => tree[n].args = <<>>
         /\ tree[n].kind \in Single => Len(tree[n].args) = 1
         /\ tree[n].kind = "flatMap" => Len(tree[n].args) = 2
<1>1. tree \in Seq(NodesOf(tree)) /\ DOMAIN tree = 1..Len(tree)
  BY TreeIs DEF TaskTypeOK
<1>2. tree[n] \in NodesOf(tree)
  BY <1>1
<1>3. PICK D : D = DOMAIN tree
  OBVIOUS
<1>4. PICK x : x = tree[n]
  OBVIOUS
<1>5. /\ x.attempts \in Int /\ x.delay \in Nat /\ x.maxDelay \in Nat
      /\ x.kind \in {"leaf", "flatMap"} \cup Parallel \cup Single
      /\ x.args \in Seq(D)
      /\ x.backoff \in {"fixed", "linear", "exponential"} /\ x.jitter \in BOOLEAN
  BY <1>2, <1>3, <1>4 DEF NodesOf
<1>6. Len(x.args) \in Nat
  BY <1>5
<1>7. /\ x.kind = "leaf" => x.args = <<>>
      /\ x.kind \in Single => Len(x.args) = 1
      /\ x.kind = "flatMap" => Len(x.args) = 2
  BY <1>4, TreeIs DEF TaskTypeOK
<1> QED BY <1>2, <1>3, <1>4, <1>5, <1>6, <1>7

LEMMA NewStands ==
  ASSUME TaskTypeOK, tree' = tree, NEW d \in Nat, NEW n \in DOMAIN tree, NEW p, execs'[d] = Execution(n, p)
  PROVE  Stands(d)'
<1>1. /\ execs'[d].phase = "new" /\ execs'[d].result = Pending /\ Kids(d)' = <<>> /\ execs'[d].waits = <<>>
      /\ execs'[d].node = n /\ Node(d)' = tree[n]
  BY DEF Execution, Kids, Node
<1>2. Final(d)'
  BY <1>1 DEF Final, Settled
<1>3. Begun(d)'
  BY <1>1 DEF Begun
<1>4. Memoizes(d)'
  BY <1>1 DEF Memoizes
<1>5. Tries(d)'
  <2>1. tree[n].attempts \in Int
    BY NodeIs
  <2>2. 0 <= AtMost(tree[n])
    BY <2>1 DEF AtMost
  <2>3. Len(Kids(d)') = 0 /\ Len(execs'[d].waits) = 0
    BY <1>1
  <2> QED BY <1>1, <2>2, <2>3 DEF Tries, AtMost
<1>6. Leaves(d)'
  BY <1>1 DEF Leaves, Unsettled
<1> QED BY <1>2, <1>3, <1>4, <1>5, <1>6 DEF Stands

LEMMA FamilyTurns ==
  ASSUME TaskTypeOK, Family, NEW e, NEW nodes, Turns(e, nodes)
  PROVE  Family'
<1>1. PICK k \in Nat, l \in Nat, m \in Nat : k = Len(nodes) /\ l = Len(execs) /\ m = Len(Kids(e))
  BY KidsAre DEF Turns, TaskTypeOK
<1>2. /\ e \in DOMAIN execs /\ DOMAIN execs = 1..l /\ DOMAIN execs' = 1..(l + k) /\ DOMAIN nodes = 1..k /\ DOMAIN Kids(e) = 1..m
      /\ e \in Nat \ {0}
  BY <1>1, KidsAre DEF Turns, TaskTypeOK
<1>3. /\ \A d \in 1..l : d # e => execs'[d] = execs[d]
      /\ \A i \in 1..k : execs'[l + i].parent = e /\ execs'[l + i].kids = <<>>
      /\ execs'[e].parent = execs[e].parent
      /\ \A i \in 1..m : execs'[e].kids[i] = Kids(e)[i]
      /\ \A i \in 1..k : execs'[e].kids[m + i] = l + i
  <2>1. \A d \in 1..l : d # e => execs'[d] = execs[d]
    BY <1>1, <1>2 DEF Turns
  <2>2. ASSUME NEW i \in 1..k PROVE execs'[l + i].parent = e /\ execs'[l + i].kids = <<>>
    <3>1. execs'[l + i] = Execution(nodes[i], e)
      BY <1>1, <1>2 DEF Turns
    <3> QED BY <3>1 DEF Execution
  <2>3. execs'[e].parent = execs[e].parent /\ \A i \in 1..m : execs'[e].kids[i] = Kids(e)[i]
    BY <1>1, <1>2 DEF Turns
  <2>4. \A i \in 1..k : execs'[e].kids[m + i] = l + i
    BY <1>1, <1>2 DEF Turns
  <2> QED BY <2>1, <2>2, <2>3, <2>4
<1>4. DOMAIN (execs'[e].kids) = 1..(m + k)
  <2>1. execs'[e] \in Executions
    BY <1>2 DEF Turns
  <2>2. execs'[e].kids \in Seq(Nat) /\ Len(execs'[e].kids) = m + k
    BY <1>1, <2>1 DEF Turns, Executions
  <2> QED BY <1>1, <2>2
<1>5. \A d \in 1..l : execs'[d].parent = execs[d].parent
  BY <1>3
<1>6. ASSUME NEW d \in DOMAIN execs', NEW i \in DOMAIN (Kids(d)')
      PROVE  Kids(d)'[i] \in DOMAIN execs' /\ execs'[Kids(d)'[i]].parent = d
  <2>1. CASE d = e
    <3>1. CASE i \in 1..m
      <4>1. Kids(e)[i] \in 1..l /\ execs[Kids(e)[i]].parent = e
        BY <1>2, <3>1 DEF Family
      <4>2. Kids(d)'[i] = Kids(e)[i]
        BY <1>3, <2>1, <3>1 DEF Kids
      <4>3. \A x \in 1..l : x \in 1..(l + k)
        BY <1>1
      <4> QED BY <1>2, <1>5, <2>1, <4>1, <4>2, <4>3
    <3>2. CASE i \notin 1..m
      <4>1. i \in 1..(m + k)
        BY <1>4, <2>1 DEF Kids
      <4>2. PICK j \in 1..k : i = m + j
        <5>1. i - m \in 1..k
          BY <1>1, <3>2, <4>1
        <5>2. i = m + (i - m)
          BY <1>1, <4>1
        <5> QED BY <5>1, <5>2
      <4>3. Kids(d)'[i] = l + j
        BY <1>3, <2>1, <4>2 DEF Kids
      <4> QED BY <1>1, <1>2, <1>3, <2>1, <4>3
    <3> QED BY <3>1, <3>2
  <2>2. CASE d \in 1..l /\ d # e
    <3>1. Kids(d)' = Kids(d)
      BY <1>3, <2>2 DEF Kids
    <3>2. Kids(d)[i] \in 1..l /\ execs[Kids(d)[i]].parent = d
      BY <1>2, <1>6, <2>2, <3>1 DEF Family
    <3>3. \A x \in 1..l : x \in 1..(l + k)
      BY <1>1
    <3> QED BY <1>2, <1>5, <3>1, <3>2, <3>3
  <2>3. CASE d \notin 1..l
    <3>1. d - l \in 1..k /\ d = l + (d - l)
      BY <1>1, <1>2, <2>3
    <3>2. Kids(d)' = <<>>
      BY <1>3, <3>1 DEF Kids
    <3> QED BY <1>6, <3>2
  <2> QED BY <2>1, <2>2, <2>3
<1>7. ASSUME NEW c \in DOMAIN execs', execs'[c].parent # 0
      PROVE  /\ execs'[c].parent \in DOMAIN execs'
             /\ \E i \in DOMAIN (execs'[execs'[c].parent].kids) : execs'[execs'[c].parent].kids[i] = c
  <2>1. PICK p : p = execs'[c].parent
    OBVIOUS
  <2> SUFFICES p \in DOMAIN execs' /\ \E i \in DOMAIN (execs'[p].kids) : execs'[p].kids[i] = c
    BY <2>1
  <2>2. CASE c \in 1..l
    <3>1. p \in 1..l /\ \E i \in DOMAIN Kids(p) : Kids(p)[i] = c
      BY <1>2, <1>5, <1>7, <2>1, <2>2 DEF Family
    <3>2. p \in DOMAIN execs'
      BY <1>1, <1>2, <3>1
    <3>3. CASE p = e
      <4>1. PICK i \in 1..m : Kids(e)[i] = c
        BY <1>2, <3>1, <3>3
      <4>2. i \in 1..(m + k) /\ execs'[e].kids[i] = c
        BY <1>1, <1>3, <4>1
      <4> QED BY <1>4, <3>2, <3>3, <4>2
    <3>4. CASE p # e
      BY <1>3, <3>1, <3>2, <3>4 DEF Kids
    <3> QED BY <3>3, <3>4
  <2>3. CASE c \notin 1..l
    <3>1. PICK j \in 1..k : c = l + j
      <4>1. c - l \in 1..k /\ c = l + (c - l)
        BY <1>1, <1>2, <2>3
      <4> QED BY <4>1
    <3>2. p = e
      BY <1>3, <2>1, <3>1
    <3>3. m + j \in 1..(m + k) /\ execs'[e].kids[m + j] = c
      BY <1>1, <1>3, <3>1
    <3>4. e \in DOMAIN execs'
      BY <1>1, <1>2
    <3> QED BY <1>4, <3>2, <3>3, <3>4
  <2> QED BY <2>2, <2>3
<1>8. \A d \in DOMAIN execs' : \A i \in DOMAIN (execs'[d].kids) :
        execs'[d].kids[i] \in DOMAIN execs' /\ execs'[execs'[d].kids[i]].parent = d
  BY <1>6 DEF Kids
<1> QED BY <1>7, <1>8 DEF Family, Kids

LEMMA TurnsKeeps ==
  ASSUME TaskInv, NEW e, NEW nodes, Turns(e, nodes), MemoGoes
  PROVE  Keeps
<1>1. e \in DOMAIN execs /\ Stands(e)
  BY DEF TaskInv, Turns
<1>2. execs[e].phase # "settled" /\ ~Settled(execs[e].result)
  BY <1>1 DEF Turns, Stands, Final
<1>3. DOMAIN execs \subseteq DOMAIN execs'
  BY DEF Turns, TaskInv, TaskTypeOK
<1>4. \A d \in DOMAIN execs : execs'[d].node = execs[d].node /\ (d # e => execs'[d] = execs[d])
  BY DEF Turns
<1> QED BY <1>2, <1>3, <1>4 DEF Turns, MemoGoes, Keeps

\* It is enough that the execution that takes a step stands.
LEMMA TurnsInv ==
  ASSUME TaskInv, NEW e, NEW nodes, Turns(e, nodes), MemoGoes, Stands(e)'
  PROVE  TaskInv'
<1>1. TaskTypeOK /\ Family /\ \A d \in DOMAIN execs : Stands(d)
  BY DEF TaskInv
<1>2. PICK k \in Nat, l \in Nat : k = Len(nodes) /\ l = Len(execs)
  BY <1>1 DEF Turns, TaskTypeOK
<1>3. /\ e \in DOMAIN execs /\ DOMAIN execs = 1..l /\ DOMAIN execs' = 1..(l + k) /\ DOMAIN nodes = 1..k
      /\ tree' = tree /\ execs' \in Seq(Executions)
  BY <1>1, <1>2 DEF Turns, TaskTypeOK
<1>4. \A i \in 1..k : execs'[l + i] = Execution(nodes[i], e) /\ nodes[i] \in DOMAIN tree
  <2>1. nodes \in Seq(DOMAIN tree)
    BY DEF Turns
  <2>2. \A i \in 1..k : nodes[i] \in DOMAIN tree
    BY <1>3, <2>1
  <2>3. \A i \in 1..k : execs'[l + i] = Execution(nodes[i], e)
    BY <1>2, <1>3 DEF Turns
  <2> QED BY <2>2, <2>3
<1>5. \A d \in 1..l : d # e => execs'[d] = execs[d]
  BY <1>3 DEF Turns
<1>6. \A d \in 1..l : execs'[d].node = execs[d].node
  BY <1>5 DEF Turns
<1>7. Keeps
  BY TurnsKeeps
<1>8. ASSUME NEW d \in 1..(l + k) PROVE execs'[d].node \in DOMAIN tree /\ Stands(d)'
  <2>1. CASE d \in 1..l
    <3>1. execs'[d].node \in DOMAIN tree
      BY <1>1, <1>3, <1>6, <2>1 DEF TaskTypeOK
    <3>2. d # e => Stands(d)'
      BY <1>1, <1>3, <1>5, <1>7, <2>1, StandsKept
    <3> QED BY <3>1, <3>2
  <2>2. CASE d \notin 1..l
    <3>1. d - l \in 1..k /\ d = l + (d - l) /\ d \in Nat
      BY <1>2, <1>8, <2>2
    <3>2. PICK i \in 1..k : d = l + i
      BY <3>1
    <3>3. execs'[d] = Execution(nodes[i], e) /\ nodes[i] \in DOMAIN tree
      BY <1>4, <3>2
    <3>4. Stands(d)'
      BY <1>1, <1>3, <3>1, <3>3, NewStands
    <3> QED BY <3>3, <3>4 DEF Execution
  <2> QED BY <2>1, <2>2
<1>9. TaskTypeOK'
  BY <1>1, <1>3, <1>8 DEF TaskTypeOK, MemoGoes
<1>10. Family'
  BY <1>1, FamilyTurns
<1> QED BY <1>3, <1>8, <1>9, <1>10 DEF TaskInv

LEMMA RunTreeInv ==
  ASSUME TaskInv, RunTree
  PROVE  TaskInv'
<1>1. TaskTypeOK /\ Family /\ \A d \in DOMAIN execs : Stands(d)
  BY DEF TaskInv
<1>2. PICK l \in Nat : l = Len(execs)
  BY <1>1 DEF TaskTypeOK
<1>3. Root \in DOMAIN tree /\ Root \in Nat
  BY <1>1, TreeIs DEF Root, TaskTypeOK
<1>4. PICK x \in Executions : x = Execution(Root, 0)
  BY <1>3, NewExecution
<1>5. execs' = Append(execs, x) /\ tree' = tree /\ memo' = memo /\ execs \in Seq(Executions)
  BY <1>1, <1>4 DEF RunTree, TaskTypeOK
<1>6. /\ execs' \in Seq(Executions) /\ DOMAIN execs = 1..l /\ DOMAIN execs' = 1..(l + 1)
      /\ \A d \in 1..l : execs'[d] = execs[d]
      /\ execs'[l + 1] = x
  BY <1>2, <1>5
<1>7. Keeps
  <2>1. DOMAIN execs \subseteq DOMAIN execs'
    BY <1>2, <1>6
  <2> QED BY <1>5, <1>6, <2>1 DEF Keeps
<1>8. \A d \in 1..l : Stands(d)'
  BY <1>1, <1>6, <1>7, StandsKept
<1>9. Stands(l + 1)'
  BY <1>1, <1>2, <1>3, <1>4, <1>5, <1>6, NewStands
<1>10. \A d \in 1..(l + 1) : d \in 1..l \/ d = l + 1
  BY <1>2
<1>11. x.node = Root /\ x.parent = 0 /\ x.kids = <<>>
  BY <1>4 DEF Execution
<1>12. TaskTypeOK'
  <2>1. \A n \in DOMAIN tree : memo[n] \in {0} \cup 1..(l + 1)
    BY <1>1, <1>2, <1>6 DEF TaskTypeOK
  <2>2. \A d \in 1..(l + 1) : execs'[d].node \in DOMAIN tree
    BY <1>1, <1>3, <1>6, <1>10, <1>11 DEF TaskTypeOK
  <2> QED BY <1>1, <1>5, <1>6, <2>1, <2>2 DEF TaskTypeOK
<1>13. Family'
  <2>1. ASSUME NEW d \in 1..(l + 1), NEW i \in DOMAIN (execs'[d].kids)
        PROVE  execs'[d].kids[i] \in 1..(l + 1) /\ execs'[execs'[d].kids[i]].parent = d
    <3>1. d \in 1..l
      BY <1>6, <1>10, <1>11, <2>1
    <3>2. execs[d].kids[i] \in 1..l /\ execs[execs[d].kids[i]].parent = d
      BY <1>1, <1>6, <2>1, <3>1 DEF Family, Kids
    <3>3. execs[d].kids[i] \in 1..(l + 1)
      BY <1>2, <3>2
    <3> QED BY <1>6, <3>1, <3>2, <3>3
  <2>2. ASSUME NEW c \in 1..(l + 1), execs'[c].parent # 0
        PROVE  /\ execs'[c].parent \in 1..(l + 1)
               /\ \E i \in DOMAIN (execs'[execs'[c].parent].kids) : execs'[execs'[c].parent].kids[i] = c
    <3>1. c \in 1..l
      BY <1>6, <1>10, <1>11, <2>2
    <3>2. PICK p : p = execs[c].parent
      OBVIOUS
    <3>3. p \in 1..l /\ \E i \in DOMAIN (execs[p].kids) : execs[p].kids[i] = c
      BY <1>1, <1>6, <2>2, <3>1, <3>2 DEF Family, Kids
    <3>4. p \in 1..(l + 1)
      BY <1>2, <3>3
    <3> QED BY <1>6, <3>1, <3>2, <3>3, <3>4
  <2> QED BY <1>6, <2>1, <2>2 DEF Family, Kids
<1> QED BY <1>6, <1>8, <1>9, <1>10, <1>12, <1>13 DEF TaskInv
-----------------------------------------------------------------------------
\* What the results of the execution that takes the step become.
LEMMA OwnResults ==
  ASSUME TaskInv, NEW e, NEW nodes, Turns(e, nodes), MemoGoes
  PROVE  /\ Node(e)' = Node(e) /\ Len(Kids(e)') = Len(Kids(e)) + Len(nodes) /\ Len(nodes) \in Nat
         /\ Len(Results(e)') = Len(Kids(e)') /\ DOMAIN (Kids(e)') = 1..Len(Kids(e)')
         /\ \A i \in 1..Len(Kids(e)) :
              /\ Kids(e)'[i] = Kids(e)[i]
              /\ Settled(Results(e)[i]) => Results(e)'[i] = Results(e)[i]
              /\ execs[Kids(e)[i]].phase = "settled" => execs'[Kids(e)'[i]].phase = "settled"
<1>1. TaskTypeOK /\ Family /\ e \in DOMAIN execs
  BY DEF TaskInv, Turns
<1>2. PICK k \in Nat, m \in Nat : k = Len(nodes) /\ m = Len(Kids(e))
  BY <1>1, KidsAre DEF Turns
<1>3. Node(e)' = Node(e)
  BY DEF Node, Turns
<1>4. PICK ks : ks = Kids(e)'
  OBVIOUS
<1>5. ks \in Seq(Nat) /\ Len(ks) = m + k
  <2>1. execs'[e] \in Executions
    BY <1>1 DEF Turns, TaskTypeOK
  <2> QED BY <1>2, <1>4, <2>1 DEF Turns, Executions, Kids
<1>6. Results(e)' = [i \in 1..(m + k) |-> execs'[ks[i]].result]
  BY <1>4, <1>5 DEF Results
<1>7. Len(Results(e)') = m + k /\ \A i \in 1..(m + k) : Results(e)'[i] = execs'[ks[i]].result
  BY <1>2, <1>6
<1>8. ASSUME NEW i \in 1..m
      PROVE  /\ ks[i] = Kids(e)[i]
             /\ Settled(Results(e)[i]) => Results(e)'[i] = Results(e)[i]
             /\ execs[Kids(e)[i]].phase = "settled" => execs'[ks[i]].phase = "settled"
  <2>1. PICK kid \in DOMAIN execs : kid = Kids(e)[i] /\ Results(e)[i] = execs[kid].result
    BY <1>1, <1>2, <1>8, KidsAre
  <2>2. ks[i] = kid
    <3>1. i \in DOMAIN Kids(e)
      BY <1>1, <1>2, <1>8, KidsAre
    <3> QED BY <1>4, <2>1, <3>1 DEF Turns, Kids
  <2>3. i \in 1..(m + k)
    BY <1>2, <1>8
  <2>4. Results(e)'[i] = execs'[kid].result
    BY <1>7, <2>2, <2>3
  <2>5. (execs[kid].phase = "settled" \/ Settled(execs[kid].result)) => execs'[kid] = execs[kid]
    BY TurnsKeeps DEF Keeps
  <2> QED BY <2>1, <2>2, <2>4, <2>5
<1>9. DOMAIN ks = 1..(m + k)
  BY <1>2, <1>5
<1> QED BY <1>2, <1>3, <1>4, <1>5, <1>7, <1>8, <1>9

LEMMA SettleTurns ==
  ASSUME TaskTypeOK, NEW e \in DOMAIN execs, execs[e].phase # "settled", NEW r \in Outcomes, Settles(e, r)
  PROVE  /\ Turns(e, <<>>) /\ MemoGoes
         /\ execs'[e].phase = "settled" /\ execs'[e].result = r /\ execs'[e].waits = execs[e].waits
         /\ Kids(e)' = Kids(e)
<1>1. /\ execs \in Seq(Executions) /\ Len(execs) \in Nat /\ DOMAIN execs = 1..Len(execs) /\ execs[e] \in Executions
  BY DEF TaskTypeOK
<1>2. PICK x : x = [execs[e] EXCEPT !.phase = "settled"]
  OBVIOUS
<1>3. /\ x \in Executions /\ x.phase = "settled" /\ x.node = execs[e].node /\ x.parent = execs[e].parent
      /\ x.waits = execs[e].waits /\ x.kids = execs[e].kids
  BY <1>1, <1>2 DEF Executions, Phases
<1>4. PICK y : y = [x EXCEPT !.result = r]
  OBVIOUS
<1>5. /\ y \in Executions /\ y.phase = "settled" /\ y.node = execs[e].node /\ y.parent = execs[e].parent
      /\ y.waits = execs[e].waits /\ y.kids = execs[e].kids /\ y.result = r
  BY <1>3, <1>4 DEF Executions
<1>6. execs' = [execs EXCEPT ![e] = y]
  BY <1>1, <1>2, <1>4 DEF Settles
<1>7. /\ execs' \in Seq(Executions) /\ Len(execs') = Len(execs) /\ execs'[e] = y
      /\ \A d \in DOMAIN execs \ {e} : execs'[d] = execs[d]
  BY <1>1, <1>5, <1>6
<1>8. tree' = tree /\ memo' = memo
  BY DEF Settles
<1>9. MemoGoes
  <2>1. DOMAIN execs' = DOMAIN execs
    BY <1>1, <1>7
  <2> QED BY <1>8, <2>1 DEF MemoGoes, TaskTypeOK
<1>10. Turns(e, <<>>)
  <2>1. <<>> \in Seq(DOMAIN tree) /\ Len(<<>>) = 0 /\ DOMAIN <<>> = {}
    OBVIOUS
  <2>2. Len(Kids(e)) \in Nat
    BY <1>1 DEF Kids, Executions
  <2> QED BY <1>1, <1>5, <1>7, <1>8, <2>1, <2>2 DEF Turns, Kids
<1> QED BY <1>5, <1>7, <1>9, <1>10 DEF Kids

\* An execution settles with what its kind says, and leaves nothing that it may not.
LEMMA SettleInv ==
  ASSUME TaskInv, NEW e \in DOMAIN execs, execs[e].phase = "waiting", NEW r \in Outcomes, Settles(e, r),
         Node(e).kind \in Retried \cup {"memoize"} => Settled(r),
         Node(e).kind = "memoize" => r = execs[memo[execs[e].node]].result,
         Node(e).kind \in Retried => r = Last(Results(e)),
         \/ Node(e).kind = "race" \/ r = Says("timeout", e)
         \/ Node(e).kind \in Parallel /\ r.tag = "rejected"
         \/ \A i \in 1..Len(Kids(e)) : execs[Kids(e)[i]].phase = "settled"
  PROVE  TaskInv'
<1>1. TaskTypeOK /\ Family /\ Stands(e)
  BY DEF TaskInv
<1>2. /\ Turns(e, <<>>) /\ MemoGoes
      /\ execs'[e].phase = "settled" /\ execs'[e].result = r /\ execs'[e].waits = execs[e].waits
      /\ Kids(e)' = Kids(e)
  BY <1>1, SettleTurns
<1>3. /\ Len(Kids(e)) \in Nat /\ DOMAIN Kids(e) = 1..Len(Kids(e)) /\ Len(Results(e)) = Len(Kids(e))
      /\ execs[e].node \in DOMAIN tree /\ execs[e].waits \in Seq(Nat) /\ Len(execs[e].waits) \in Nat
      /\ \A i \in 1..Len(Kids(e)) : Kids(e)[i] \in DOMAIN execs
  BY <1>1, KidsAre
<1>4. PICK m \in Nat : m = Len(Kids(e))
  BY <1>3
<1>5. /\ Node(e)' = Node(e) /\ Len(Kids(e)') = m /\ Len(Results(e)') = m /\ DOMAIN (Kids(e)') = 1..m
      /\ \A i \in 1..m : /\ Settled(Results(e)[i]) => Results(e)'[i] = Results(e)[i]
                         /\ execs[Kids(e)[i]].phase = "settled" => execs'[Kids(e)'[i]].phase = "settled"
  <2>1. Len(<<>>) = 0
    OBVIOUS
  <2> QED BY <1>2, <1>4, <2>1, OwnResults
<1>6. Kids(e)' = Kids(e)
  BY <1>2
<1>7. Final(e)'
  BY <1>2 DEF Final
<1>8. Begun(e)'
  <2>1. Begun(e)
    BY <1>1 DEF Stands
  <2>2. ASSUME Node(e).kind \notin Parallel, NEW i \in 1..(m - 1) PROVE Settled(Results(e)'[i])
    <3>1. i \in 1..m
      BY <1>4
    <3>2. Settled(Results(e)[i])
      BY <1>4, <2>1, <2>2 DEF Begun
    <3> QED BY <1>5, <3>1, <3>2
  <2> QED BY <1>2, <1>4, <1>5, <1>6, <2>1, <2>2 DEF Begun
<1>9. Memoizes(e)'
  <2> SUFFICES ASSUME Node(e).kind = "memoize" PROVE Memoizes(e)'
    BY <1>5 DEF Memoizes
  <2>1. PICK n \in DOMAIN tree : n = execs[e].node
    BY <1>3
  <2>2. (Kids(e) # <<>> => Kids(e) = <<memo[n]>>) /\ memo[n] # 0
    BY <1>1, <2>1 DEF Stands, Memoizes
  <2>3. memo' = memo /\ execs'[e].node = n /\ Settled(r) /\ r = execs[memo[n]].result
    BY <1>2, <2>1 DEF Settles, Turns
  <2>4. memo[n] \in DOMAIN execs
    BY <1>1, <2>2 DEF TaskTypeOK
  <2>5. execs'[memo[n]] = execs[memo[n]]
    BY <1>2, <2>3, <2>4, TurnsKeeps DEF Keeps
  <2> QED BY <1>2, <1>6, <2>2, <2>3, <2>5 DEF Memoizes
<1>10. Tries(e)'
  <2> SUFFICES ASSUME Node(e).kind \in Retried PROVE Tries(e)'
    BY <1>5 DEF Tries
  <2>1. PICK w \in Seq(Nat) : w = execs[e].waits
    BY <1>3
  <2>2. /\ m <= AtMost(Node(e)) /\ Len(w) = m - 1
        /\ \A i \in 1..Len(w) : Failed(Node(e), Results(e)[i]) /\ (~Node(e).jitter => w[i] = BaseDelay(Node(e), i - 1))
    BY <1>1, <1>4, <2>1 DEF Stands, Tries
  <2>3. ASSUME NEW i \in 1..(m - 1) PROVE Failed(Node(e), Results(e)'[i])
    <3>1. i \in 1..m /\ Failed(Node(e), Results(e)[i])
      BY <1>4, <2>2
    <3> QED BY <1>5, <3>1, ErrIsSettled DEF Failed
  <2>4. Last(Results(e)') = Last(Results(e))
    <3>1. m \in 1..m
      <4>1. Len(w) \in Nat
        BY <2>1
      <4> QED BY <1>4, <2>2, <4>1
    <3>2. Last(Results(e)) = Results(e)[m] /\ Last(Results(e)') = Results(e)'[m]
      BY <1>3, <1>4, <1>5 DEF Last
    <3> QED BY <1>5, <3>1, <3>2
  <2> QED BY <1>2, <1>5, <2>1, <2>2, <2>3, <2>4 DEF Tries, BaseDelay, AtMost, Failed
<1>11. Leaves(e)'
  <2>1. MayLeave(e)' \/ \A i \in 1..m : execs'[Kids(e)'[i]].phase = "settled"
    BY <1>2, <1>4, <1>5 DEF MayLeave, Says
  <2> QED BY <1>5, <2>1 DEF Leaves, Unsettled
<1> QED BY <1>2, <1>7, <1>8, <1>9, <1>10, <1>11, TurnsInv DEF Stands
-----------------------------------------------------------------------------
\* What an execution has of those that it has begun.
LEMMA ResultsAre ==
  ASSUME TaskInv, NEW e \in DOMAIN execs
  PROVE  \A i \in 1..Len(Kids(e)) :
           /\ Kids(e)[i] \in DOMAIN execs /\ Results(e)[i] \in Outcomes
           /\ Settled(Results(e)[i]) => execs[Kids(e)[i]].phase = "settled"
<1> SUFFICES ASSUME NEW i \in 1..Len(Kids(e))
             PROVE  /\ Kids(e)[i] \in DOMAIN execs /\ Results(e)[i] \in Outcomes
                    /\ Settled(Results(e)[i]) => execs[Kids(e)[i]].phase = "settled"
  OBVIOUS
<1>1. TaskTypeOK /\ Family
  BY DEF TaskInv
<1>2. PICK kid \in DOMAIN execs : kid = Kids(e)[i] /\ Results(e)[i] = execs[kid].result
  BY <1>1, KidsAre
<1>3. execs[kid] \in Executions /\ Stands(kid)
  BY <1>1, KidsAre DEF TaskInv
<1> QED BY <1>2, <1>3 DEF Executions, Stands, Final

LEMMA SaysIs ==
  ASSUME TaskTypeOK, NEW e \in DOMAIN execs, NEW tag \in {"ok", "err", "fatal", "rejected", "timeout"}
  PROVE  Says(tag, e) \in Outcomes /\ Settled(Says(tag, e)) /\ Says(tag, e).tag = tag
<1>1. e \in Nat
  BY DEF TaskTypeOK
<1> QED BY <1>1 DEF Says, Outcomes, Settled, Pending

LEMMA CollectedIs ==
  ASSUME TaskInv, NEW e \in DOMAIN execs
  PROVE  Collected(e) \in Outcomes
<1>1. TaskTypeOK /\ Family
  BY DEF TaskInv
<1>2. DOMAIN Results(e) = 1..Len(Kids(e)) /\ Len(Kids(e)) \in Nat
  BY <1>1, KidsAre DEF Results
<1>3. PICK bad : bad = {i \in DOMAIN Results(e) : IsErr(Results(e)[i])}
  OBVIOUS
<1>4. CASE bad = {}
  BY <1>1, <1>3, <1>4, SaysIs DEF Collected
<1>5. CASE bad # {}
  <2>1. bad \subseteq Nat
    BY <1>2, <1>3
  <2>2. \E n \in bad : \A m \in bad : n <= m
    BY <1>5, <2>1, LeastNumber
  <2>3. Min(bad) \in bad
    BY <2>2 DEF Min
  <2>4. Results(e)[Min(bad)] \in Outcomes
    BY <1>2, <1>3, <2>3, ResultsAre
  <2> QED BY <1>3, <1>5, <2>4 DEF Collected
<1> QED BY <1>4, <1>5

\* When what an execution awaits has settled, so have all that it has begun.
LEMMA AwaitedIs ==
  ASSUME TaskInv, NEW e \in DOMAIN execs, execs[e].phase = "waiting",
         Node(e).kind \in {"flatMap"} \cup Single, Settled(Awaited(e))
  PROVE  /\ Awaited(e) \in Outcomes
         /\ \A i \in 1..Len(Kids(e)) : execs[Kids(e)[i]].phase = "settled" /\ Settled(Results(e)[i]) 
         /\ Node(e).kind # "memoize" => Awaited(e) = Last(Results(e)) /\ Kids(e) # <<>> /\ Last(Results(e)) = Results(e)[Len(Kids(e))]
         /\ Node(e).kind = "memoize" => Awaited(e) = execs[memo[execs[e].node]].result
<1>1. TaskTypeOK /\ Family /\ Stands(e)
  BY DEF TaskInv
<1>2. PICK m \in Nat : m = Len(Kids(e)) /\ Len(Results(e)) = m
  BY <1>1, KidsAre
<1>3. \A i \in 1..m : /\ Kids(e)[i] \in DOMAIN execs /\ Results(e)[i] \in Outcomes
                      /\ Settled(Results(e)[i]) => execs[Kids(e)[i]].phase = "settled"
  BY <1>2, ResultsAre
<1>4. CASE Node(e).kind = "memoize"
  <2>1. PICK n \in DOMAIN tree : n = execs[e].node
    BY <1>1, KidsAre
  <2>2. (Kids(e) # <<>> => Kids(e) = <<memo[n]>>) /\ memo[n] # 0
    BY <1>1, <1>4, <2>1 DEF Stands, Memoizes
  <2>3. memo[n] \in DOMAIN execs /\ Awaited(e) = execs[memo[n]].result
    BY <1>1, <1>4, <2>1, <2>2 DEF TaskTypeOK, Awaited
  <2>4. execs[memo[n]] \in Executions /\ Stands(memo[n])
    BY <1>1, <2>3, KidsAre DEF TaskInv
  <2>5. execs[memo[n]].phase = "settled" /\ Awaited(e) \in Outcomes
    BY <2>3, <2>4 DEF Stands, Final, Executions
  <2>6. \A i \in 1..m : Kids(e)[i] = memo[n]
    <3>1. CASE Kids(e) = <<>>
      BY <1>2, <3>1
    <3>2. CASE Kids(e) = <<memo[n]>>
      BY <1>2, <3>2
    <3> QED BY <2>2, <3>1, <3>2
  <2>7. \A i \in 1..m : Results(e)[i] = execs[memo[n]].result
    BY <1>1, <1>2, <2>6, KidsAre
  <2> QED BY <1>2, <1>4, <2>1, <2>3, <2>5, <2>6, <2>7
<1>5. CASE Node(e).kind # "memoize"
  <2>1. Begun(e)
    BY <1>1 DEF Stands
  <2>2. Kids(e) # <<>>
    BY <1>5, <2>1 DEF Begun
  <2>3. m \in 1..m
    <3>1. Kids(e) \in Seq(Nat)
      BY <1>1, KidsAre
    <3>2. m # 0
      BY <1>2, <2>2, <3>1
    <3> QED BY <3>2
  <2>4. Awaited(e) = Last(Results(e)) /\ Last(Results(e)) = Results(e)[m]
    BY <1>2, <1>5 DEF Awaited, Last
  <2>5. Node(e).kind \notin Parallel
    BY DEF Parallel, Single, Timed, Retried
  <2>6. \A i \in 1..(m - 1) : Settled(Results(e)[i])
    BY <1>2, <2>1, <2>5 DEF Begun
  <2>7. \A i \in 1..m : i = m \/ i \in 1..(m - 1)
    OBVIOUS
  <2>8. \A i \in 1..m : Settled(Results(e)[i])
    BY <2>4, <2>6, <2>7
  <2> QED BY <1>2, <1>3, <1>5, <2>2, <2>3, <2>4, <2>8
<1> QED BY <1>4, <1>5

LEMMA LeafSettlesInv ==
  ASSUME TaskInv, NEW e \in DOMAIN execs, LeafSettles(e)
  PROVE  TaskInv'
<1>1. TaskTypeOK /\ Family /\ Stands(e) /\ execs[e].phase = "waiting" /\ Node(e).kind = "leaf"
  BY DEF TaskInv, LeafSettles
<1>2. PICK tag \in {"ok", "err", "fatal", "rejected"} : Settles(e, Says(IF Node(e).catches /\ tag = "rejected" THEN "err" ELSE tag, e))
  BY DEF LeafSettles
<1>3. PICK r : r = Says(IF Node(e).catches /\ tag = "rejected" THEN "err" ELSE tag, e)
  OBVIOUS
<1>4. PICK told \in {"ok", "err", "fatal", "rejected"} : r = Says(told, e)
  BY <1>3
<1>5. r \in Outcomes /\ Settled(r)
  BY <1>1, <1>4, SaysIs
<1>6. Kids(e) = <<>>
  BY <1>1 DEF Stands, Begun
<1>7. \A i \in 1..Len(Kids(e)) : execs[Kids(e)[i]].phase = "settled"
  BY <1>6
<1>8. Node(e).kind \notin Retried \cup {"memoize"}
  BY <1>1 DEF Retried
<1> QED BY <1>1, <1>2, <1>3, <1>5, <1>7, <1>8, SettleInv

LEMMA JoinsInv ==
  ASSUME TaskInv, NEW e \in DOMAIN execs, Joins(e)
  PROVE  TaskInv'
<1>1. TaskTypeOK /\ Family /\ Stands(e) /\ execs[e].phase = "waiting" /\ Node(e).kind \in Parallel
  BY DEF TaskInv, Joins
<1>2. Node(e).kind \notin Retried \cup {"memoize"}
  BY <1>1 DEF Retried, Parallel
<1>3. DOMAIN Results(e) = 1..Len(Kids(e))
  BY DEF Results
<1>4. CASE \A i \in DOMAIN Results(e) : Results(e)[i].tag \notin {"pending", "rejected"}
  <2>1. ASSUME NEW i \in 1..Len(Kids(e)) PROVE execs[Kids(e)[i]].phase = "settled"
    <3>1. Settled(Results(e)[i])
      BY <1>3, <1>4 DEF Settled, Pending
    <3> QED BY <3>1, ResultsAre
  <2>2. ASSUME NEW r \in Outcomes, Settles(e, r) PROVE TaskInv'
    BY <1>1, <1>2, <2>1, <2>2, SettleInv
  <2>3. Says("ok", e) \in Outcomes /\ Collected(e) \in Outcomes
    BY <1>1, SaysIs, CollectedIs
  <2>4. CASE Settles(e, IF Node(e).kind = "allSettled" THEN Says("ok", e) ELSE Collected(e))
    <3>1. CASE Node(e).kind = "allSettled"
      BY <2>2, <2>3, <2>4, <3>1
    <3>2. CASE Node(e).kind # "allSettled"
      BY <2>2, <2>3, <2>4, <3>2
    <3> QED BY <3>1, <3>2
  <2>5. ASSUME NEW i \in DOMAIN Results(e), Settles(e, Results(e)[i]) PROVE TaskInv'
    <3>1. Results(e)[i] \in Outcomes
      BY <1>3, ResultsAre
    <3> QED BY <2>2, <2>5, <3>1
  <2> QED BY <2>4, <2>5 DEF Joins
<1>5. ASSUME NEW i \in DOMAIN Results(e), Settles(e, Results(e)[i]),
             Node(e).kind = "race" \/ Results(e)[i].tag = "rejected"
      PROVE  TaskInv'
  <2>1. PICK r \in Outcomes : r = Results(e)[i]
    BY <1>3, ResultsAre
  <2> QED BY <1>1, <1>2, <1>5, <2>1, SettleInv
<1> QED BY <1>4, <1>5 DEF Joins

LEMMA HandsOnInv ==
  ASSUME TaskInv, NEW e \in DOMAIN execs, HandsOn(e)
  PROVE  TaskInv'
<1>1. TaskTypeOK /\ execs[e].phase = "waiting" /\ Node(e).kind \in Single \ Retried /\ Settled(Awaited(e))
  BY DEF TaskInv, HandsOn
<1>2. /\ Awaited(e) \in Outcomes
      /\ \A i \in 1..Len(Kids(e)) : execs[Kids(e)[i]].phase = "settled"
      /\ Node(e).kind = "memoize" => Awaited(e) = execs[memo[execs[e].node]].result
  BY <1>1, AwaitedIs
<1>3. ASSUME NEW r \in Outcomes, Settles(e, r), Node(e).kind = "memoize" => r = Awaited(e) PROVE TaskInv'
  BY <1>1, <1>2, <1>3, SettleInv
<1>4. CASE Node(e).kind = "unwrapOr" /\ IsErr(Awaited(e))
  <2>1. Says("ok", e) \in Outcomes
    BY <1>1, SaysIs
  <2> QED BY <1>3, <1>4, <2>1 DEF HandsOn
<1>5. CASE ~(Node(e).kind = "unwrapOr" /\ IsErr(Awaited(e)))
  BY <1>2, <1>3, <1>5 DEF HandsOn
<1> QED BY <1>4, <1>5
-----------------------------------------------------------------------------
(* The waits.                                                               *)

LEMMA PowersAre ==
  ASSUME NEW a \in Nat
  PROVE  2^a \in Nat /\ 2^a <= 2^(a + 1)
<1> DEFINE less == SUBSET (1..a)
           more == SUBSET (1..(a + 1))
<1>1. IsFiniteSet(1..a) /\ Cardinality(1..a) = a
  BY FS_Interval
<1>2. IsFiniteSet(1..(a + 1)) /\ Cardinality(1..(a + 1)) = a + 1
  BY FS_Interval
<1>3. IsFiniteSet(less) /\ Cardinality(less) = 2^a
  BY <1>1, FS_SUBSET
<1>4. IsFiniteSet(more) /\ Cardinality(more) = 2^(a + 1)
  BY <1>2, FS_SUBSET
<1>5. less \subseteq more
  OBVIOUS
<1> HIDE DEF less, more
<1>6. Cardinality(less) \in Nat
  BY <1>3, FS_CardinalityType
<1>7. Cardinality(less) <= Cardinality(more)
  BY <1>4, <1>5, FS_Subset
<1> QED BY <1>3, <1>4, <1>6, <1>7

LEMMA TimesIs ==
  ASSUME NEW x \in Nat, NEW y \in Nat, NEW z \in Nat, y <= z
  PROVE  x * y \in Nat /\ x * y <= x * z
  OBVIOUS

\* Without jitter a delay is a number, and no shorter than the one before.
LEMMA DelaysGrow ==
  ASSUME TaskTypeOK, NEW n \in DOMAIN tree, NEW a \in Nat
  PROVE  BaseDelay(tree[n], a) \in Nat /\ BaseDelay(tree[n], a) <= BaseDelay(tree[n], a + 1)
<1>1. PICK x \in Nat, most \in Nat, p \in Nat, q \in Nat : x = tree[n].delay /\ most = tree[n].maxDelay /\ p = 2^a /\ q = 2^(a + 1) 
  <2>1. a + 1 \in Nat
    OBVIOUS
  <2> QED BY <2>1, NodeIs, PowersAre
<1>2. p <= q
  BY <1>1, PowersAre
<1>3. x * p \in Nat /\ x * p <= x * q /\ x * q \in Nat
  BY <1>2, TimesIs
<1>4. x * (a + 1) \in Nat /\ x * (a + 1) <= x * (a + 1 + 1) /\ x * (a + 1 + 1) \in Nat
  <2>1. a + 1 \in Nat /\ a + 1 + 1 \in Nat /\ a + 1 <= a + 1 + 1
    OBVIOUS
  <2> QED BY <2>1, TimesIs
<1>5. tree[n].backoff \in {"fixed", "linear", "exponential"}
  BY NodeIs
<1>6. CASE tree[n].backoff = "exponential"
  <2>1. BaseDelay(tree[n], a) = (IF x * p > most THEN most ELSE x * p)
    BY <1>1, <1>6 DEF BaseDelay
  <2>2. BaseDelay(tree[n], a + 1) = (IF x * q > most THEN most ELSE x * q)
    BY <1>1, <1>6 DEF BaseDelay
  <2>3. PICK u \in Nat, v \in Nat : u = x * p /\ v = x * q /\ u <= v
    BY <1>3
  <2> QED BY <2>1, <2>2, <2>3
<1>7. CASE tree[n].backoff = "linear"
  <2>1. BaseDelay(tree[n], a) = (IF x * (a + 1) > most THEN most ELSE x * (a + 1))
    BY <1>1, <1>7 DEF BaseDelay
  <2>2. BaseDelay(tree[n], a + 1) = (IF x * (a + 1 + 1) > most THEN most ELSE x * (a + 1 + 1))
    BY <1>1, <1>7 DEF BaseDelay
  <2>3. PICK u \in Nat, v \in Nat : u = x * (a + 1) /\ v = x * (a + 1 + 1) /\ u <= v
    BY <1>4
  <2> QED BY <2>1, <2>2, <2>3
<1>8. CASE tree[n].backoff = "fixed"
  <2>1. /\ BaseDelay(tree[n], a) = (IF x > most THEN most ELSE x)
        /\ BaseDelay(tree[n], a + 1) = (IF x > most THEN most ELSE x)
    BY <1>1, <1>8 DEF BaseDelay
  <2> QED BY <2>1
<1> QED BY <1>5, <1>6, <1>7, <1>8

LEMMA DelaysAre ==
  ASSUME TaskTypeOK, NEW n \in DOMAIN tree, NEW a \in Nat, NEW wait \in Delays(tree[n], a)
  PROVE  wait \in Nat /\ (~tree[n].jitter => wait = BaseDelay(tree[n], a))
<1>1. PICK most \in Nat : most = BaseDelay(tree[n], a)
  BY DelaysGrow
<1>2. wait \in (IF tree[n].jitter /\ most > 0 THEN 0..(most - 1) ELSE {most})
  BY <1>1 DEF Delays
<1> QED BY <1>1, <1>2
-----------------------------------------------------------------------------
\* An execution goes on, and what its phase asks of it holds.
LEMMA GoesOnInv ==
  ASSUME TaskInv, NEW e, NEW nodes, Turns(e, nodes), MemoGoes,
         execs'[e].phase \in {"sleeping", "waiting"}, execs'[e].result = execs[e].result,
         Begun(e)', Memoizes(e)', Tries(e)'
  PROVE  TaskInv'
<1>1. e \in DOMAIN execs /\ Stands(e) /\ execs[e].phase # "settled"
  BY DEF TaskInv, Turns
<1>2. Final(e)' /\ Leaves(e)'
  BY <1>1 DEF Stands, Final, Leaves, Unsettled
<1> QED BY <1>2, TurnsInv DEF Stands

LEMMA MemoStays ==
  ASSUME TaskTypeOK, NEW e, NEW nodes, Turns(e, nodes), memo' = memo
  PROVE  MemoGoes
<1>1. PICK k \in Nat, l \in Nat : k = Len(nodes) /\ l = Len(execs)
  BY DEF Turns, TaskTypeOK
<1>2. DOMAIN execs = 1..l /\ DOMAIN execs' = 1..(l + k)
  BY <1>1 DEF Turns, TaskTypeOK
<1>3. DOMAIN execs \subseteq DOMAIN execs'
  BY <1>1, <1>2
<1> QED BY <1>3 DEF MemoGoes, TaskTypeOK

\* What Begin() makes of a node.
LEMMA BeginIs ==
  ASSUME TaskTypeOK, NEW e \in DOMAIN execs, Begin(e)
  PROVE  \/ Node(e).kind = "delay" /\ execs' = With(e, "sleeping", <<>>) /\ memo' = memo
         \/ Node(e).kind \in Parallel /\ execs' = With(e, "waiting", Node(e).args) /\ memo' = memo
         \/ Node(e).kind = "leaf" /\ execs' = With(e, "waiting", <<>>) /\ memo' = memo
         \/ Kept(e) /\ execs' = With(e, "waiting", <<>>) /\ memo' = memo
         \/ /\ Node(e).kind \in ({"flatMap"} \cup Single) \ {"delay"} /\ ~Kept(e)
            /\ execs' = With(e, "waiting", <<Node(e).args[1]>>)
            /\ memo' = IF Node(e).kind = "memoize" THEN [memo EXCEPT ![execs[e].node] = Len(execs) + 1] ELSE memo
<1>1. PICK n \in DOMAIN tree : n = execs[e].node /\ Node(e) = tree[n]
  BY DEF TaskTypeOK, Node
<1>2. /\ Node(e).kind \in {"leaf", "flatMap"} \cup Parallel \cup Single
      /\ Node(e).args = <<>> => Len(Node(e).args) = 0
      /\ Node(e).kind = "leaf" => Node(e).args = <<>>
      /\ Node(e).kind \in Single => Len(Node(e).args) = 1
      /\ Node(e).kind = "flatMap" => Len(Node(e).args) = 2
  BY <1>1, NodeIs
<1>3. memo' = IF Node(e).kind = "memoize" /\ ~Kept(e) THEN [memo EXCEPT ![execs[e].node] = Len(execs) + 1] ELSE memo
  BY DEF Begin
<1>4. CASE Node(e).kind = "delay"
  <2>1. execs' = With(e, "sleeping", <<>>)
    <3>1. Node(e).kind \notin Parallel /\ ~Kept(e) /\ Node(e).args # <<>>
      BY <1>2, <1>4 DEF Parallel, Kept, Single
    <3> QED BY <1>4, <3>1 DEF Begin
  <2> QED BY <1>3, <1>4, <2>1
<1>5. CASE Node(e).kind \in Parallel
  <2>1. Node(e).kind # "delay" /\ Node(e).kind # "memoize" /\ ~Kept(e)
    BY <1>5 DEF Parallel, Kept
  <2>2. execs' = With(e, "waiting", Node(e).args)
    BY <1>5, <2>1 DEF Begin
  <2> QED BY <1>3, <1>5, <2>1, <2>2
<1>6. CASE Node(e).kind = "leaf"
  <2>1. Node(e).kind # "delay" /\ Node(e).kind # "memoize" /\ Node(e).kind \notin Parallel /\ Node(e).args = <<>>
    BY <1>2, <1>6 DEF Parallel
  <2>2. execs' = With(e, "waiting", <<>>)
    BY <2>1 DEF Begin
  <2> QED BY <1>3, <1>6, <2>1, <2>2
<1>7. CASE Kept(e)
  <2>1. Node(e).kind # "delay" /\ Node(e).kind \notin Parallel
    BY <1>7 DEF Parallel, Kept
  <2>2. execs' = With(e, "waiting", <<>>)
    BY <1>7, <2>1 DEF Begin
  <2> QED BY <1>3, <1>7, <2>2
<1>8. CASE Node(e).kind \in ({"flatMap"} \cup Single) \ {"delay"} /\ ~Kept(e)
  <2>1. Node(e).kind # "delay" /\ Node(e).kind \notin Parallel /\ Node(e).args # <<>>
    <3>1. \A kind \in {"flatMap"} \cup Single : kind \notin Parallel
      BY DEF Parallel, Single, Timed, Retried
    <3>2. Len(Node(e).args) # 0
      BY <1>2, <1>8
    <3> QED BY <1>2, <1>8, <3>1, <3>2
  <2>2. execs' = With(e, "waiting", <<Node(e).args[1]>>)
    BY <1>8, <2>1 DEF Begin
  <2> QED BY <1>3, <1>8, <2>2
<1> QED BY <1>2, <1>4, <1>5, <1>6, <1>7, <1>8

\* An execution that begins one more.
LEMMA OneMoreKid ==
  ASSUME TaskInv, NEW e, NEW n, Turns(e, <<n>>), MemoGoes
  PROVE  /\ Node(e)' = Node(e) /\ Len(Kids(e)') = Len(Kids(e)) + 1 /\ Len(Results(e)') = Len(Kids(e)') /\ Kids(e)' # <<>>
         /\ Kids(e)'[Len(Kids(e)) + 1] = Len(execs) + 1
         /\ \A i \in 1..Len(Kids(e)) : Settled(Results(e)[i]) => Results(e)'[i] = Results(e)[i]
<1>1. TaskTypeOK /\ Family /\ e \in DOMAIN execs
  BY DEF TaskInv, Turns
<1>2. PICK m \in Nat : m = Len(Kids(e))
  BY <1>1, KidsAre
<1>3. Len(<<n>>) = 1 /\ 1 \in DOMAIN <<n>>
  OBVIOUS
<1>4. /\ Node(e)' = Node(e) /\ Len(Kids(e)') = m + 1 /\ Len(Results(e)') = Len(Kids(e)')
      /\ \A i \in 1..m : Settled(Results(e)[i]) => Results(e)'[i] = Results(e)[i]
  BY <1>2, <1>3, OwnResults
<1>5. Kids(e)'[m + 1] = Len(execs) + 1
  BY <1>2, <1>3 DEF Turns, Kids
<1>6. Kids(e)' # <<>>
  <2>1. m + 1 # 0 /\ Len(<<>>) = 0
    OBVIOUS
  <2> QED BY <1>4, <2>1
<1> QED BY <1>2, <1>4, <1>5, <1>6

\* An execution that begins none.
LEMMA NoMoreKids ==
  ASSUME TaskInv, NEW e, Turns(e, <<>>), MemoGoes
  PROVE  /\ Node(e)' = Node(e) /\ Len(Kids(e)') = Len(Kids(e)) /\ Len(Results(e)') = Len(Kids(e)')
         /\ Kids(e) = <<>> => Kids(e)' = <<>>
         /\ \A i \in 1..Len(Kids(e)) : Settled(Results(e)[i]) => Results(e)'[i] = Results(e)[i]
<1>1. TaskTypeOK /\ Family /\ e \in DOMAIN execs
  BY DEF TaskInv, Turns
<1>2. PICK m \in Nat : m = Len(Kids(e))
  BY <1>1, KidsAre
<1>3. Len(<<>>) = 0
  OBVIOUS
<1>4. /\ Node(e)' = Node(e) /\ Len(Kids(e)') = m /\ Len(Results(e)') = Len(Kids(e)')
      /\ \A i \in 1..m : Settled(Results(e)[i]) => Results(e)'[i] = Results(e)[i]
  BY <1>2, <1>3, OwnResults
<1>5. ASSUME Kids(e) = <<>> PROVE Kids(e)' = <<>>
  <2>1. execs'[e] \in Executions
    <3>1. PICK l \in Nat : l = Len(execs)
      BY <1>1 DEF TaskTypeOK
    <3>2. DOMAIN execs = 1..l /\ execs' \in Seq(Executions) /\ Len(execs') = l
      BY <1>1, <1>3, <3>1 DEF Turns, TaskTypeOK
    <3> QED BY <1>1, <3>2
  <2>2. PICK ks \in Seq(Nat) : ks = Kids(e)'
    BY <2>1 DEF Executions, Kids
  <2>3. Len(ks) = 0
    BY <1>2, <1>3, <1>4, <1>5, <2>2
  <2>4. ks = <<>>
    BY <2>3
  <2> QED BY <2>2, <2>4
<1> QED BY <1>2, <1>4, <1>5
-----------------------------------------------------------------------------
LEMMA BeginInv ==
  ASSUME TaskInv, NEW e \in DOMAIN execs, Begin(e)
  PROVE  TaskInv'
<1>1. TaskTypeOK /\ Family /\ Stands(e) /\ tree' = tree /\ execs[e].phase = "new"
  BY DEF TaskInv, Begin
<1>2. Kids(e) = <<>> /\ execs[e].waits = <<>>
  BY <1>1 DEF Stands, Begun
<1>3. Len(Kids(e)) = 0 /\ Len(execs[e].waits) = 0
  BY <1>2
<1>4. PICK n \in DOMAIN tree : n = execs[e].node /\ Node(e) = tree[n]
  BY <1>1 DEF TaskTypeOK, Node
<1>5. Node(e).args \in Seq(DOMAIN tree) /\ Len(Node(e).args) \in Nat /\ Node(e).attempts \in Int
  BY <1>1, <1>4, NodeIs
<1>6. <<>> \in Seq(DOMAIN tree) /\ "sleeping" \in Phases /\ "waiting" \in Phases /\ execs[e].phase # "settled"
  BY <1>1 DEF Phases
<1>7. CASE Node(e).kind = "delay" /\ execs' = With(e, "sleeping", <<>>) /\ memo' = memo
  <2>1. Turns(e, <<>>) /\ execs'[e].phase = "sleeping" /\ execs'[e].result = execs[e].result /\ execs'[e].waits = execs[e].waits
    BY <1>1, <1>6, <1>7, WithTurns
  <2>2. MemoGoes
    BY <1>1, <1>7, <2>1, MemoStays
  <2>3. Node(e)' = Node(e) /\ Len(Kids(e)') = 0 /\ Kids(e)' = <<>>
    BY <1>2, <1>3, <2>1, <2>2, NoMoreKids
  <2>4. Begun(e)'
    BY <1>7, <2>1, <2>3 DEF Begun, Single
  <2>5. Memoizes(e)' /\ Tries(e)'
    BY <1>7, <2>3 DEF Memoizes, Tries, Retried
  <2> QED BY <2>1, <2>2, <2>4, <2>5, GoesOnInv
<1>8. CASE Node(e).kind \in Parallel /\ execs' = With(e, "waiting", Node(e).args) /\ memo' = memo
  <2>1. PICK nodes \in Seq(DOMAIN tree) : nodes = Node(e).args
    BY <1>5
  <2>2. Turns(e, nodes) /\ execs'[e].phase = "waiting" /\ execs'[e].result = execs[e].result
    BY <1>1, <1>6, <1>8, <2>1, WithTurns
  <2>3. MemoGoes
    BY <1>1, <1>8, <2>2, MemoStays
  <2>4. Node(e)' = Node(e)
    BY <2>2, <2>3, OwnResults
  <2>5. \A kind \in Parallel : kind \notin {"leaf", "flatMap"} \cup Single
    BY DEF Parallel, Single, Timed, Retried
  <2>6. Begun(e)'
    BY <1>8, <2>2, <2>4, <2>5 DEF Begun
  <2>7. Memoizes(e)' /\ Tries(e)'
    BY <1>8, <2>4 DEF Memoizes, Tries, Parallel, Retried
  <2> QED BY <2>2, <2>3, <2>6, <2>7, GoesOnInv
<1>9. CASE (Node(e).kind = "leaf" \/ Kept(e)) /\ execs' = With(e, "waiting", <<>>) /\ memo' = memo
  <2>1. Turns(e, <<>>) /\ execs'[e].phase = "waiting" /\ execs'[e].result = execs[e].result /\ execs'[e].waits = execs[e].waits
    BY <1>1, <1>6, <1>9, WithTurns
  <2>2. MemoGoes
    BY <1>1, <1>9, <2>1, MemoStays
  <2>3. Node(e)' = Node(e) /\ Len(Kids(e)') = 0 /\ Kids(e)' = <<>>
    BY <1>2, <1>3, <2>1, <2>2, NoMoreKids
  <2>4. Node(e).kind \in {"leaf", "memoize"} /\ (Node(e).kind = "memoize" => memo[n] # 0)
    BY <1>4, <1>9 DEF Kept
  <2>5. Begun(e)'
    <3>1. "leaf" \notin {"flatMap"} \cup Single
      BY DEF Single, Timed, Retried
    <3> QED BY <2>1, <2>3, <2>4, <3>1 DEF Begun
  <2>6. execs'[e].node = n
    BY <1>4, <2>1 DEF Turns
  <2>7. Memoizes(e)'
    BY <1>9, <2>1, <2>3, <2>4, <2>6 DEF Memoizes
  <2>8. Tries(e)'
    BY <2>3, <2>4 DEF Tries, Retried
  <2> QED BY <2>1, <2>2, <2>5, <2>7, <2>8, GoesOnInv
<1>10. CASE /\ Node(e).kind \in ({"flatMap"} \cup Single) \ {"delay"} /\ ~Kept(e)
            /\ execs' = With(e, "waiting", <<Node(e).args[1]>>)
            /\ memo' = IF Node(e).kind = "memoize" THEN [memo EXCEPT ![execs[e].node] = Len(execs) + 1] ELSE memo
  <2>1. PICK first \in DOMAIN tree : first = Node(e).args[1]
    <3>1. Len(Node(e).args) \in {1, 2}
      BY <1>1, <1>4, <1>10, NodeIs
    <3>2. 1 \in 1..Len(Node(e).args)
      BY <3>1
    <3> QED BY <1>5, <3>2
  <2>2. <<first>> \in Seq(DOMAIN tree)
    OBVIOUS
  <2>3. Turns(e, <<first>>) /\ execs'[e].phase = "waiting" /\ execs'[e].result = execs[e].result /\ execs'[e].waits = execs[e].waits
    BY <1>1, <1>6, <1>10, <2>1, <2>2, WithTurns
  <2>4. PICK l \in Nat : l = Len(execs) /\ DOMAIN execs = 1..l
    BY <1>1 DEF TaskTypeOK
  <2>5. DOMAIN execs' = 1..(l + 1)
    <3>1. Len(<<first>>) = 1
      OBVIOUS
    <3> QED BY <2>3, <2>4, <3>1 DEF Turns
  <2>6. CASE Node(e).kind # "memoize"
    <3>1. memo' = memo
      BY <1>10, <2>6
    <3>2. MemoGoes
      BY <1>1, <2>3, <3>1, MemoStays
    <3>3. Node(e)' = Node(e) /\ Len(Kids(e)') = 1 /\ Kids(e)' # <<>>
      <4>1. Node(e)' = Node(e) /\ Len(Kids(e)') = Len(Kids(e)) + 1 /\ Kids(e)' # <<>>
        BY <2>3, <3>2, OneMoreKid
      <4> QED BY <1>3, <4>1
    <3>4. Begun(e)'
      <4>1. Node(e).kind # "leaf"
        BY <1>10 DEF Single, Timed, Retried
      <4> QED BY <2>3, <3>3, <4>1 DEF Begun
    <3>5. Memoizes(e)'
      BY <2>6, <3>3 DEF Memoizes
    <3>6. Tries(e)'
      <4>1. 1 <= AtMost(Node(e))
        BY <1>5 DEF AtMost
      <4>2. AtMost(Node(e))' = AtMost(Node(e))
        BY <3>3 DEF AtMost
      <4>3. Len(execs'[e].waits) = 0
        BY <1>3, <2>3
      <4> QED BY <2>3, <3>3, <4>1, <4>2, <4>3 DEF Tries, AtMost
    <3> QED BY <2>3, <3>2, <3>4, <3>5, <3>6, GoesOnInv
  <2>7. CASE Node(e).kind = "memoize"
    <3>1. memo' = [memo EXCEPT ![n] = l + 1] /\ memo[n] = 0
      BY <1>4, <1>10, <2>4, <2>7 DEF Kept
    <3>2. memo'[n] = l + 1 /\ memo' \in [DOMAIN tree -> Nat] /\ \A m \in DOMAIN tree \ {n} : memo'[m] = memo[m]
      BY <1>1, <2>4, <3>1 DEF TaskTypeOK
    <3>3. MemoGoes
      <4>1. \A m \in DOMAIN tree : memo[m] \in {0} \cup 1..(l + 1)
        BY <1>1, <2>4 DEF TaskTypeOK
      <4>2. l + 1 \in 1..(l + 1)
        OBVIOUS
      <4> QED BY <2>5, <3>1, <3>2, <4>1, <4>2 DEF MemoGoes
    <3>4. Node(e)' = Node(e) /\ Len(Kids(e)') = 1 /\ Kids(e)' # <<>> /\ Kids(e)'[1] = l + 1
      <4>1. Node(e)' = Node(e) /\ Len(Kids(e)') = Len(Kids(e)) + 1 /\ Kids(e)' # <<>> /\ Kids(e)'[Len(Kids(e)) + 1] = Len(execs) + 1
        BY <2>3, <3>3, OneMoreKid
      <4> QED BY <1>3, <2>4, <4>1
    <3>5. Kids(e)' = <<l + 1>>
      <4>1. execs'[e] \in Executions
        <5>1. e \in 1..(l + 1) /\ execs' \in Seq(Executions)
          BY <2>3, <2>4 DEF Turns
        <5> QED BY <2>5, <5>1
      <4>2. PICK ks \in Seq(Nat) : ks = Kids(e)'
        BY <4>1 DEF Executions, Kids
      <4>3. Len(ks) = 1 /\ ks[1] = l + 1
        BY <3>4, <4>2
      <4>4. ks = <<l + 1>>
        BY <4>3
      <4> QED BY <4>2, <4>4
    <3>6. execs'[e].node = n
      BY <1>4, <2>3 DEF Turns
    <3>7. Memoizes(e)'
      BY <2>3, <3>2, <3>4, <3>5, <3>6 DEF Memoizes
    <3>8. Begun(e)'
      BY <2>3, <2>7, <3>4 DEF Begun
    <3>9. Tries(e)'
      BY <2>7, <3>4 DEF Tries, Retried
    <3> QED BY <2>3, <3>3, <3>7, <3>8, <3>9, GoesOnInv
  <2> QED BY <2>6, <2>7
<1> QED BY <1>1, <1>7, <1>8, <1>9, <1>10, BeginIs

LEMMA ChainsInv ==
  ASSUME TaskInv, NEW e \in DOMAIN execs, Chains(e)
  PROVE  TaskInv'
<1>1. TaskTypeOK /\ Family /\ Stands(e) /\ execs[e].phase = "waiting" /\ Node(e).kind = "flatMap" /\ Settled(Awaited(e))
  BY DEF TaskInv, Chains
<1>2. /\ Awaited(e) \in Outcomes
      /\ \A i \in 1..Len(Kids(e)) : execs[Kids(e)[i]].phase = "settled" /\ Settled(Results(e)[i])
  BY <1>1, AwaitedIs
<1>3. "flatMap" \notin {"leaf", "memoize", "delay"} \cup Single \cup Retried
  BY DEF Single, Timed, Retried
<1>4. CASE Settles(e, Awaited(e))
  <2>1. PICK r \in Outcomes : r = Awaited(e)
    BY <1>2
  <2> QED BY <1>1, <1>2, <1>3, <1>4, <2>1, SettleInv
<1>5. CASE Len(Kids(e)) = 1 /\ execs' = With(e, "waiting", <<Node(e).args[2]>>) /\ tree' = tree /\ memo' = memo
  <2>1. PICK second \in DOMAIN tree : second = Node(e).args[2]
    <3>1. PICK n \in DOMAIN tree : Node(e) = tree[n]
      BY <1>1 DEF TaskTypeOK, Node
    <3>2. Node(e).args \in Seq(DOMAIN tree) /\ Len(Node(e).args) = 2
      BY <1>1, <3>1, NodeIs
    <3>3. 2 \in 1..Len(Node(e).args)
      BY <3>2
    <3> QED BY <3>2, <3>3
  <2>2. <<second>> \in Seq(DOMAIN tree) /\ "waiting" \in Phases
    BY DEF Phases
  <2>3. Turns(e, <<second>>) /\ execs'[e].phase = "waiting" /\ execs'[e].result = execs[e].result
    BY <1>1, <1>5, <2>1, <2>2, WithTurns
  <2>4. MemoGoes
    BY <1>1, <1>5, <2>3, MemoStays
  <2>5. /\ Node(e)' = Node(e) /\ Len(Kids(e)') = 2 /\ Kids(e)' # <<>>
        /\ Settled(Results(e)[1]) => Results(e)'[1] = Results(e)[1]
    <3>1. /\ Node(e)' = Node(e) /\ Len(Kids(e)') = Len(Kids(e)) + 1 /\ Kids(e)' # <<>>
          /\ \A i \in 1..Len(Kids(e)) : Settled(Results(e)[i]) => Results(e)'[i] = Results(e)[i]
      BY <2>3, <2>4, OneMoreKid
    <3> QED BY <1>5, <3>1
  <2>6. Settled(Results(e)[1])
    BY <1>2, <1>5
  <2>7. Settled(Results(e)'[1])
    BY <2>5, <2>6
  <2>8. Begun(e)'
    <3>1. \A i \in 1..(2 - 1) : i = 1
      OBVIOUS
    <3> QED BY <1>1, <1>3, <2>3, <2>5, <2>7, <3>1 DEF Begun
  <2>9. Memoizes(e)' /\ Tries(e)'
    BY <1>1, <1>3, <2>5 DEF Memoizes, Tries
  <2> QED BY <2>3, <2>4, <2>8, <2>9, GoesOnInv
<1> QED BY <1>4, <1>5 DEF Chains

\* The attempts of a retry, before another.
LEMMA TriesAre ==
  ASSUME TaskInv, NEW e \in DOMAIN execs, Node(e).kind \in Retried
  PROVE  \E k \in Nat, w \in Seq(Nat) :
           /\ k = Len(Kids(e)) /\ w = execs[e].waits /\ Len(w) \in Nat /\ Len(w) <= k
           /\ k <= AtMost(Node(e)) /\ (execs[e].phase = "new" => k = 0)
           /\ execs[e].phase = "sleeping" => Len(w) = k /\ k < Node(e).attempts
           /\ execs[e].phase \in {"waiting", "settled"} => Len(w) = k - 1
           /\ \A i \in 1..Len(w) : /\ Failed(Node(e), Results(e)[i]) /\ Settled(Results(e)[i])
                                   /\ ~Node(e).jitter => w[i] = BaseDelay(Node(e), i - 1)
           /\ execs[e].phase = "settled" => execs[e].result = Last(Results(e))
<1>1. TaskTypeOK /\ Family /\ Stands(e)
  BY DEF TaskInv
<1>2. PICK k \in Nat, w \in Seq(Nat) : k = Len(Kids(e)) /\ w = execs[e].waits
  BY <1>1, KidsAre
<1>3. Len(w) \in Nat
  OBVIOUS
<1>4. /\ k <= AtMost(Node(e))
      /\ execs[e].phase = "sleeping" => Len(w) = k /\ k < Node(e).attempts
      /\ execs[e].phase \in {"waiting", "settled"} => Len(w) = k - 1
      /\ \A i \in 1..Len(w) : Failed(Node(e), Results(e)[i]) /\ (~Node(e).jitter => w[i] = BaseDelay(Node(e), i - 1))
      /\ execs[e].phase = "settled" => execs[e].result = Last(Results(e))
  BY <1>1, <1>2 DEF Stands, Tries
<1>5. \A i \in 1..Len(w) : Settled(Results(e)[i])
  BY <1>4, ErrIsSettled DEF Failed
<1>6. execs[e].phase = "new" => k = 0 /\ Len(w) = 0
  <2>1. execs[e].phase = "new" => Kids(e) = <<>> /\ w = <<>>
    BY <1>1, <1>2 DEF Stands, Begun
  <2>2. Len(<<>>) = 0
    OBVIOUS
  <2> QED BY <1>2, <2>1, <2>2
<1>7. execs[e].phase \in {"new", "sleeping", "waiting", "settled"}
  BY <1>1, KidsAre DEF Executions, Phases
<1>8. Len(w) <= k
  BY <1>3, <1>4, <1>6, <1>7
<1> QED BY <1>2, <1>3, <1>4, <1>5, <1>6, <1>8

\* A retry begins another attempt: there is one left, and those before it have failed.
LEMMA AnotherTry ==
  ASSUME TaskInv, NEW e \in DOMAIN execs, Node(e).kind \in Retried, NEW n \in DOMAIN tree, Turns(e, <<n>>), memo' = memo,
         execs'[e].phase = "waiting", execs'[e].result = execs[e].result,
         NEW k \in Nat, k = Len(Kids(e)), k < Node(e).attempts, k # 0,
         NEW v \in Seq(Nat), v = execs'[e].waits, Len(v) = k,
         \A i \in 1..k : /\ Failed(Node(e), Results(e)[i]) /\ Settled(Results(e)[i])
                         /\ ~Node(e).jitter => v[i] = BaseDelay(Node(e), i - 1)
  PROVE  TaskInv'
<1>1. TaskTypeOK /\ Family /\ Stands(e)
  BY DEF TaskInv
<1>2. MemoGoes
  BY <1>1, MemoStays
<1>3. /\ Node(e)' = Node(e) /\ Len(Kids(e)') = k + 1 /\ Kids(e)' # <<>>
      /\ \A i \in 1..k : Results(e)'[i] = Results(e)[i]
  <2>1. /\ Node(e)' = Node(e) /\ Len(Kids(e)') = Len(Kids(e)) + 1 /\ Kids(e)' # <<>>
        /\ \A i \in 1..k : Settled(Results(e)[i]) => Results(e)'[i] = Results(e)[i]
    BY <1>2, OneMoreKid
  <2> QED BY <2>1
<1>4. Node(e).kind \notin {"leaf", "memoize", "delay", "flatMap"}
  BY DEF Retried
<1>5. (k + 1) - 1 = k
  OBVIOUS
<1>6. Begun(e)'
  <2>1. \A i \in 1..((k + 1) - 1) : Settled(Results(e)'[i])
    BY <1>3, <1>5
  <2> QED BY <1>3, <1>4, <2>1 DEF Begun
<1>7. Memoizes(e)'
  BY <1>3, <1>4 DEF Memoizes
<1>8. Tries(e)'
  <2>1. k + 1 <= AtMost(Node(e))
    <3>1. Node(e).attempts \in Int
      <4>1. PICK m \in DOMAIN tree : Node(e) = tree[m]
        BY <1>1 DEF TaskTypeOK, Node
      <4> QED BY <1>1, <4>1, NodeIs
    <3> QED BY <3>1 DEF AtMost
  <2>2. \A i \in 1..k : Failed(Node(e), Results(e)'[i])
    BY <1>3
  <2> QED BY <1>3, <1>5, <2>1, <2>2 DEF Tries, AtMost, BaseDelay, Failed
<1> QED BY <1>2, <1>6, <1>7, <1>8, GoesOnInv

LEMMA TimerFiresInv ==
  ASSUME TaskInv, NEW e \in DOMAIN execs, TimerFires(e)
  PROVE  TaskInv'
<1>1. TaskTypeOK /\ Family /\ Stands(e)
  BY DEF TaskInv
<1>2. CASE execs[e].phase = "waiting" /\ Node(e).kind \in Timed /\ Settles(e, Says("timeout", e))
  <2>1. Says("timeout", e) \in Outcomes /\ Settled(Says("timeout", e))
    BY <1>1, SaysIs
  <2>2. Node(e).kind \notin Retried \cup {"memoize"}
    BY <1>2 DEF Timed, Retried
  <2> QED BY <1>2, <2>1, <2>2, SettleInv
<1>3. CASE execs[e].phase = "sleeping" /\ execs' = With(e, "waiting", <<Node(e).args[1]>>) /\ tree' = tree /\ memo' = memo
  <2>1. Node(e).kind \in {"delay"} \cup Retried /\ (Node(e).kind = "delay" => Kids(e) = <<>>)
    BY <1>1, <1>3 DEF Stands, Begun
  <2>2. PICK first \in DOMAIN tree : first = Node(e).args[1]
    <3>1. PICK n \in DOMAIN tree : Node(e) = tree[n]
      BY <1>1 DEF TaskTypeOK, Node
    <3>2. Node(e).kind \in Single
      BY <2>1 DEF Single
    <3>3. Node(e).args \in Seq(DOMAIN tree) /\ Len(Node(e).args) = 1
      BY <1>1, <3>1, <3>2, NodeIs
    <3>4. 1 \in 1..Len(Node(e).args)
      BY <3>3
    <3> QED BY <3>3, <3>4
  <2>3. <<first>> \in Seq(DOMAIN tree) /\ "waiting" \in Phases
    BY DEF Phases
  <2>4. Turns(e, <<first>>) /\ execs'[e].phase = "waiting" /\ execs'[e].result = execs[e].result /\ execs'[e].waits = execs[e].waits
    BY <1>1, <1>3, <2>2, <2>3, WithTurns
  <2>5. CASE Node(e).kind = "delay"
    <3>1. MemoGoes
      BY <1>1, <1>3, <2>4, MemoStays
    <3>2. Node(e)' = Node(e) /\ Len(Kids(e)') = 1 /\ Kids(e)' # <<>>
      <4>1. Node(e)' = Node(e) /\ Len(Kids(e)') = Len(Kids(e)) + 1 /\ Kids(e)' # <<>>
        BY <2>4, <3>1, OneMoreKid
      <4>2. Len(Kids(e)) = 0
        BY <2>1, <2>5
      <4> QED BY <4>1, <4>2
    <3>3. Begun(e)'
      BY <2>4, <2>5, <3>2 DEF Begun
    <3>4. Memoizes(e)' /\ Tries(e)'
      BY <2>5, <3>2 DEF Memoizes, Tries, Retried
    <3> QED BY <2>4, <3>1, <3>3, <3>4, GoesOnInv
  <2>6. CASE Node(e).kind \in Retried
    <3>1. PICK k \in Nat, w \in Seq(Nat) :
            /\ k = Len(Kids(e)) /\ w = execs[e].waits /\ Len(w) = k /\ k < Node(e).attempts
            /\ \A i \in 1..Len(w) : /\ Failed(Node(e), Results(e)[i]) /\ Settled(Results(e)[i])
                                    /\ ~Node(e).jitter => w[i] = BaseDelay(Node(e), i - 1)
      BY <1>3, <2>6, TriesAre
    <3>2. k # 0
      <4>1. Kids(e) # <<>> /\ Kids(e) \in Seq(Nat)
        BY <1>1, <1>3, <2>6, KidsAre DEF Stands, Tries
      <4> QED BY <3>1, <4>1
    <3> QED BY <1>3, <2>4, <2>6, <3>1, <3>2, AnotherTry
  <2> QED BY <2>1, <2>5, <2>6
<1> QED BY <1>2, <1>3 DEF TimerFires

LEMMA RetriesInv ==
  ASSUME TaskInv, NEW e \in DOMAIN execs, Retries(e)
  PROVE  TaskInv'
<1>1. TaskTypeOK /\ Family /\ Stands(e) /\ execs[e].phase = "waiting" /\ Node(e).kind \in Retried /\ Settled(Awaited(e))
  BY DEF TaskInv, Retries
<1>2. Node(e).kind \in {"flatMap"} \cup Single /\ Node(e).kind \notin {"leaf", "memoize", "delay", "flatMap"}
  BY <1>1 DEF Single, Retried
<1>3. /\ Awaited(e) \in Outcomes /\ Kids(e) # <<>> /\ Awaited(e) = Last(Results(e)) /\ Awaited(e) = Results(e)[Len(Kids(e))]
      /\ \A i \in 1..Len(Kids(e)) : execs[Kids(e)[i]].phase = "settled" /\ Settled(Results(e)[i])
  BY <1>1, <1>2, AwaitedIs
<1>4. CASE Settles(e, Awaited(e))
  <2>1. PICK r \in Outcomes : r = Awaited(e)
    BY <1>3
  <2> QED BY <1>1, <1>2, <1>3, <1>4, <2>1, SettleInv
<1>5. ASSUME MayRetry(e), NEW wait \in Delays(Node(e), Len(Kids(e)) - 1),
             execs' = [With(e, IF wait > 0 THEN "sleeping" ELSE "waiting", IF wait > 0 THEN <<>> ELSE <<Node(e).args[1]>>)
                         EXCEPT ![e].waits = Append(@, wait)],
             tree' = tree, memo' = memo
      PROVE  TaskInv'
  <2>1. PICK n \in DOMAIN tree : Node(e) = tree[n]
    BY <1>1 DEF TaskTypeOK, Node
  <2>2. PICK k \in Nat, w \in Seq(Nat) :
          /\ k = Len(Kids(e)) /\ w = execs[e].waits /\ Len(w) = k - 1 /\ k <= AtMost(Node(e))
          /\ \A i \in 1..Len(w) : /\ Failed(Node(e), Results(e)[i]) /\ Settled(Results(e)[i])
                                  /\ ~Node(e).jitter => w[i] = BaseDelay(Node(e), i - 1)
    BY <1>1, TriesAre
  <2>3. k # 0 /\ k - 1 \in Nat /\ k \in 1..k
    <3>1. Kids(e) \in Seq(Nat)
      BY <1>1, KidsAre
    <3>2. k # 0
      BY <1>3, <2>2, <3>1
    <3> QED BY <3>2
  <2>4. wait \in Nat /\ (~Node(e).jitter => wait = BaseDelay(Node(e), k - 1))
    BY <1>1, <1>5, <2>1, <2>2, <2>3, DelaysAre
  <2>5. k < Node(e).attempts /\ Failed(Node(e), Results(e)[k])
    BY <1>3, <1>5, <2>2 DEF MayRetry, Failed
  <2>6. PICK v \in Seq(Nat) : v = Append(w, wait)
    <3>1. w \in Seq(Nat)
      BY <2>2
    <3>2. Append(w, wait) \in Seq(Nat)
      BY <2>4, <3>1
    <3> QED BY <3>2
  <2>7. Len(v) = k /\ v[k] = wait /\ \A i \in 1..(k - 1) : v[i] = w[i]
    <3>1. w \in Seq(Nat)
      BY <2>2
    <3> QED BY <2>2, <2>4, <2>6, <3>1
  <2>8. \A i \in 1..k : /\ Failed(Node(e), Results(e)[i]) /\ Settled(Results(e)[i])
                        /\ ~Node(e).jitter => v[i] = BaseDelay(Node(e), i - 1)
    <3> SUFFICES ASSUME NEW i \in 1..k
                 PROVE  /\ Failed(Node(e), Results(e)[i]) /\ Settled(Results(e)[i])
                        /\ ~Node(e).jitter => v[i] = BaseDelay(Node(e), i - 1)
      OBVIOUS
    <3>1. CASE i = k
      BY <2>4, <2>5, <2>7, <3>1, ErrIsSettled DEF Failed
    <3>2. CASE i \in 1..(k - 1)
      BY <2>2, <2>7, <3>2
    <3> QED BY <3>1, <3>2
  <2>9. "sleeping" \in Phases /\ "waiting" \in Phases /\ execs[e].phase # "settled" /\ <<>> \in Seq(DOMAIN tree)
    BY <1>1 DEF Phases
  <2>0. TaskTypeOK /\ tree' = tree /\ wait \in Nat
    BY <1>1, <1>5, <2>4
  <2>10. CASE wait > 0
    <3>3. execs' = Waited(With(e, "sleeping", <<>>), e, wait)
      BY <1>5, <2>10 DEF Waited
    <3>4. Turns(e, <<>>) /\ execs'[e].phase = "sleeping" /\ execs'[e].result = execs[e].result
          /\ execs'[e].waits = Append(execs[e].waits, wait)
      BY <2>0, <2>9, <3>3, WithWait, ZenonT(60)
    <3>5. MemoGoes
      BY <1>1, <1>5, <3>4, MemoStays
    <3>6. /\ Node(e)' = Node(e) /\ Len(Kids(e)') = k /\ \A i \in 1..k : Results(e)'[i] = Results(e)[i]
      <4>1. /\ Node(e)' = Node(e) /\ Len(Kids(e)') = Len(Kids(e))
            /\ \A i \in 1..Len(Kids(e)) : Settled(Results(e)[i]) => Results(e)'[i] = Results(e)[i]
        BY <3>4, <3>5, NoMoreKids
      <4> QED BY <2>2, <2>8, <4>1
    <3>7. execs'[e].waits = v
      BY <2>2, <2>6, <3>4
    <3>8. Kids(e)' # <<>>
      <4>1. Len(<<>>) = 0
        OBVIOUS
      <4> QED BY <2>3, <3>6, <4>1
    <3>9. Begun(e)'
      <4>1. \A i \in 1..(k - 1) : Settled(Results(e)'[i])
        <5>1. \A i \in 1..(k - 1) : i \in 1..k
          OBVIOUS
        <5> QED BY <2>8, <3>6, <5>1
      <4> QED BY <1>1, <1>2, <3>4, <3>6, <4>1 DEF Begun
    <3>10. Memoizes(e)'
      BY <1>2, <3>6 DEF Memoizes
    <3>11. Tries(e)'
      <4>1. \A i \in 1..k : Failed(Node(e), Results(e)'[i])
        BY <2>8, <3>6
      <4> QED BY <2>2, <2>5, <2>7, <2>8, <3>4, <3>6, <3>7, <3>8, <4>1 DEF Tries, AtMost, BaseDelay, Failed
    <3> QED BY <3>4, <3>5, <3>9, <3>10, <3>11, GoesOnInv
  <2>11. CASE ~(wait > 0)
    <3>1. PICK first \in DOMAIN tree : first = Node(e).args[1]
      <4>1. Node(e).kind \in Single
        BY <1>1 DEF Single
      <4>2. Node(e).args \in Seq(DOMAIN tree) /\ Len(Node(e).args) = 1
        BY <1>1, <2>1, <4>1, NodeIs
      <4>3. 1 \in 1..Len(Node(e).args)
        BY <4>2
      <4> QED BY <4>2, <4>3
    <3>2. <<first>> \in Seq(DOMAIN tree)
      OBVIOUS
    <3>3. PICK nodes \in Seq(DOMAIN tree) : nodes = <<first>>
      BY <3>2
    <3>5. execs' = Waited(With(e, "waiting", nodes), e, wait)
      BY <1>5, <2>11, <3>1, <3>3 DEF Waited
    <3>6. Turns(e, <<first>>) /\ execs'[e].phase = "waiting" /\ execs'[e].result = execs[e].result
          /\ execs'[e].waits = Append(execs[e].waits, wait)
      <4>1. Turns(e, nodes) /\ execs'[e].phase = "waiting" /\ execs'[e].result = execs[e].result
            /\ execs'[e].waits = Append(execs[e].waits, wait)
        BY <2>0, <2>9, <3>5, WithWait, ZenonT(60)
      <4> QED BY <3>3, <4>1
    <3>7. execs'[e].waits = v
      BY <2>2, <2>6, <3>6
    <3> QED BY <1>1, <1>5, <2>2, <2>3, <2>5, <2>7, <2>8, <3>6, <3>7, AnotherTry
  <2> QED BY <2>10, <2>11
<1> QED BY <1>4, <1>5 DEF Retries
-----------------------------------------------------------------------------
LEMMA TaskInvInit == TaskInit => TaskInv
<1> SUFFICES ASSUME TaskInit PROVE TaskInv
  OBVIOUS
<1>1. execs = <<>> /\ DOMAIN execs = {} /\ tree \in Trees /\ memo = [n \in DOMAIN tree |-> 0]
  BY DEF TaskInit
<1>2. execs \in Seq(Executions)
  BY <1>1
<1>3. memo \in [DOMAIN tree -> Nat] /\ \A n \in DOMAIN tree : memo[n] \in {0} \cup DOMAIN execs
  BY <1>1
<1>4. TaskTypeOK
  BY <1>1, <1>2, <1>3 DEF TaskTypeOK
<1>5. Family
  BY <1>1 DEF Family
<1> QED BY <1>1, <1>4, <1>5 DEF TaskInv

LEMMA TaskInvStays == TaskInv /\ UNCHANGED taskVars => TaskInv'
<1> SUFFICES ASSUME TaskInv, tree' = tree, execs' = execs, memo' = memo PROVE TaskInv'
  BY DEF taskVars
<1>1. TaskTypeOK'
  BY DEF TaskInv, TaskTypeOK
<1>2. Family'
  BY DEF TaskInv, Family, Kids
<1>3. Keeps
  BY DEF Keeps
<1>4. \A d \in DOMAIN execs : Stands(d)'
  BY <1>3, StandsKept DEF TaskInv
<1> QED BY <1>1, <1>2, <1>4 DEF TaskInv

LEMMA TaskInvNext == TaskInv /\ [TaskNext]_taskVars => TaskInv'
<1> SUFFICES ASSUME TaskInv, [TaskNext]_taskVars PROVE TaskInv'
  OBVIOUS
<1>1. ASSUME NEW e \in DOMAIN execs, Begin(e) PROVE TaskInv'
  BY <1>1, BeginInv
<1>2. ASSUME RunTree PROVE TaskInv'
  BY <1>2, RunTreeInv
<1>3. ASSUME NEW e \in DOMAIN execs, LeafSettles(e) PROVE TaskInv'
  BY <1>3, LeafSettlesInv
<1>4. ASSUME NEW e \in DOMAIN execs, TimerFires(e) PROVE TaskInv'
  BY <1>4, TimerFiresInv
<1>5. ASSUME NEW e \in DOMAIN execs, Joins(e) PROVE TaskInv'
  BY <1>5, JoinsInv
<1>6. ASSUME NEW e \in DOMAIN execs, HandsOn(e) PROVE TaskInv'
  BY <1>6, HandsOnInv
<1>7. ASSUME NEW e \in DOMAIN execs, Chains(e) PROVE TaskInv'
  BY <1>7, ChainsInv
<1>8. ASSUME NEW e \in DOMAIN execs, Retries(e) PROVE TaskInv'
  BY <1>8, RetriesInv
<1>9. CASE UNCHANGED taskVars
  BY <1>9, TaskInvStays
<1> QED BY <1>1, <1>2, <1>3, <1>4, <1>5, <1>6, <1>7, <1>8, <1>9 DEF TaskNext

\* What memoize() and the retries promise.
LEMMA TaskInvFollows == TaskInv => AttemptsFollow
<1> SUFFICES ASSUME TaskInv, NEW e \in DOMAIN execs
             PROVE  /\ Node(e).kind = "memoize" =>
                         \A other \in DOMAIN execs : execs[other].node = execs[e].node =>
                           /\ Len(Kids(e)) + (IF other = e THEN 0 ELSE Len(Kids(other))) <= 1
                           /\ ~Unsettled(e) /\ ~Unsettled(other) => execs[e].result = execs[other].result
                    /\ Node(e).kind \in Retried =>
                         /\ Len(Results(e)) <= AtMost(Node(e))
                         /\ \A i \in 1..(Len(Results(e)) - 1) :
                              IsErr(Results(e)[i]) /\ (Node(e).kind = "policy" => Results(e)[i].tag # "fatal")
                         /\ ~Node(e).jitter =>
                              \A i \in 1..(Len(execs[e].waits) - 1) : execs[e].waits[i] <= execs[e].waits[i + 1]
                         /\ ~Unsettled(e) => execs[e].result = Last(Results(e))
  BY DEF AttemptsFollow
<1>1. TaskTypeOK /\ Family /\ \A d \in DOMAIN execs : Stands(d)
  BY DEF TaskInv
<1>2. ASSUME Node(e).kind = "memoize", NEW other \in DOMAIN execs, execs[other].node = execs[e].node
      PROVE  /\ Len(Kids(e)) + (IF other = e THEN 0 ELSE Len(Kids(other))) <= 1
             /\ ~Unsettled(e) /\ ~Unsettled(other) => execs[e].result = execs[other].result
  <2>1. PICK kept : kept = memo[execs[e].node]
    OBVIOUS
  <2>2. Node(other).kind = "memoize"
    BY <1>2 DEF Node
  <2>3. ASSUME NEW d \in {e, other}
        PROVE  /\ Kids(d) # <<>> => Kids(d) = <<kept>>
               /\ execs[d].phase = "settled" => execs[d].result = execs[kept].result
    BY <1>1, <1>2, <2>1, <2>2 DEF Stands, Memoizes
  <2>4. \A d \in {e, other} : Kids(d) = <<>> \/ (Kids(d) = <<kept>> /\ execs[kept].parent = d)
    <3> SUFFICES ASSUME NEW d \in {e, other}, Kids(d) = <<kept>> PROVE execs[kept].parent = d
      BY <2>3
    <3>1. 1 \in DOMAIN Kids(d) /\ Kids(d)[1] = kept
      OBVIOUS
    <3> QED BY <1>1, <3>1 DEF Family
  <2>5. Len(<<>>) = 0 /\ Len(<<kept>>) = 1
    OBVIOUS
  <2>6. CASE Kids(e) = <<>> \/ Kids(other) = <<>> \/ other = e
    <3>1. Len(Kids(e)) \in {0, 1} /\ Len(Kids(other)) \in {0, 1}
      BY <2>4, <2>5
    <3>2. Len(Kids(e)) = 0 \/ Len(Kids(other)) = 0 \/ other = e
      BY <2>5, <2>6
    <3>3. Len(Kids(e)) + (IF other = e THEN 0 ELSE Len(Kids(other))) <= 1
      <4>1. PICK a \in {0, 1}, b \in {0, 1} : a = Len(Kids(e)) /\ b = Len(Kids(other))
        BY <3>1
      <4>2. CASE other = e
        BY <4>1, <4>2
      <4>3. CASE other # e
        <5>1. a + b <= 1
          BY <3>2, <4>1, <4>3
        <5> QED BY <4>1, <4>3, <5>1
      <4> QED BY <4>2, <4>3
    <3> QED BY <2>3, <3>3 DEF Unsettled
  <2> QED BY <2>4, <2>6
<1>3. ASSUME Node(e).kind \in Retried
      PROVE  /\ Len(Results(e)) <= AtMost(Node(e))
             /\ \A i \in 1..(Len(Results(e)) - 1) :
                  IsErr(Results(e)[i]) /\ (Node(e).kind = "policy" => Results(e)[i].tag # "fatal")
             /\ ~Node(e).jitter => \A i \in 1..(Len(execs[e].waits) - 1) : execs[e].waits[i] <= execs[e].waits[i + 1]
             /\ ~Unsettled(e) => execs[e].result = Last(Results(e))
  <2>1. PICK k \in Nat, w \in Seq(Nat) :
          /\ k = Len(Kids(e)) /\ w = execs[e].waits /\ Len(w) \in Nat /\ Len(w) <= k
          /\ k <= AtMost(Node(e)) /\ (execs[e].phase = "new" => k = 0)
          /\ execs[e].phase = "sleeping" => Len(w) = k
          /\ execs[e].phase \in {"waiting", "settled"} => Len(w) = k - 1
          /\ \A i \in 1..Len(w) : /\ Failed(Node(e), Results(e)[i])
                                  /\ ~Node(e).jitter => w[i] = BaseDelay(Node(e), i - 1)
          /\ execs[e].phase = "settled" => execs[e].result = Last(Results(e))
    BY <1>3, TriesAre
  <2>2. Len(Results(e)) = k
    BY <1>1, <2>1, KidsAre
  <2>3. ASSUME NEW i \in 1..(k - 1) PROVE Failed(Node(e), Results(e)[i])
    <3>1. execs[e].phase \in {"new", "sleeping", "waiting", "settled"}
      BY <1>1, KidsAre DEF Executions, Phases
    <3>2. i \in 1..Len(w)
      BY <2>1, <2>3, <3>1
    <3> QED BY <2>1, <3>2
  <2>4. ASSUME ~Node(e).jitter, NEW i \in 1..(Len(w) - 1) PROVE w[i] <= w[i + 1]
    <3>1. PICK n \in DOMAIN tree : Node(e) = tree[n]
      BY <1>1 DEF TaskTypeOK, Node
    <3>2. PICK a \in Nat : a = i - 1 /\ i = a + 1
      <4>1. i - 1 \in Nat /\ i = (i - 1) + 1
        BY <2>1, <2>4
      <4> QED BY <4>1
    <3>3. i \in 1..Len(w) /\ i + 1 \in 1..Len(w) /\ (i + 1) - 1 = a + 1
      BY <2>1, <2>4, <3>2
    <3>4. w[i] = BaseDelay(tree[n], a) /\ w[i + 1] = BaseDelay(tree[n], a + 1)
      BY <2>1, <2>4, <3>1, <3>2, <3>3
    <3> QED BY <1>1, <3>4, DelaysGrow
  <2> QED BY <2>1, <2>2, <2>3, <2>4 DEF Failed, Unsettled
<1> QED BY <1>2, <1>3

\* What has settled has left nothing behind it that it may not.
LEMMA TaskInvLeaves == TaskInv => NothingIsLeft
<1> SUFFICES ASSUME TaskInv, NEW d \in DOMAIN execs, Unsettled(d), execs[d].parent # 0, ~Unsettled(execs[d].parent)
             PROVE  MayLeave(execs[d].parent)
  BY DEF NothingIsLeft, MayLeave
<1>1. PICK p \in DOMAIN execs : p = execs[d].parent /\ \E i \in DOMAIN Kids(p) : Kids(p)[i] = d
  BY DEF TaskInv, Family
<1>2. Leaves(p)
  BY DEF TaskInv, Stands
<1> QED BY <1>1, <1>2 DEF Leaves

\* However often and however many at once a tree of tasks is run, and whenever what it waits
\* for settles: memoize() runs its task once and answers all alike, the attempts of a retry
\* come one after the other, as many as asked for and no more, and what has settled leaves
\* nothing running behind it but a race, a timeout or a rejection.
THEOREM AttemptsStayOrdered == TaskSpec => []AttemptsAreOrdered
<1>1. TaskInit => TaskInv
  BY TaskInvInit
<1>2. TaskInv /\ [TaskNext]_taskVars => TaskInv'
  BY TaskInvNext
<1>3. TaskInv => AttemptsAreOrdered
  BY TaskInvFollows, TaskInvLeaves DEF AttemptsAreOrdered
<1> QED BY <1>1, <1>2, <1>3, PTL DEF TaskSpec
-----------------------------------------------------------------------------
(* The circuit breaker.                                                         *)

AllErr(n) == \A i \in (Len(results) - n + 1)..Len(results) : results[i] = "err"

\* The last n results are failures, and the one before them, if there is one, is not.
Trails(n) ==
  /\ n \in 0..Len(results) /\ AllErr(n)
  /\ n = Len(results) \/ results[Len(results) - n] # "err"

\* What TrailingFailures chooses is this number.
LEMMA TrailingIsUnique ==
  ASSUME NEW n \in Nat, results \in Seq({"ok", "err"}), Trails(n)
  PROVE  TrailingFailures = n
<1> DEFINE tails == {k \in 0..Len(results) : AllErr(k)}
<1> DEFINE IsLast(k) == k \in tails /\ \A m \in tails : m <= k
<1>1. Len(results) \in Nat
  OBVIOUS
<1>2. n \in tails
  BY DEF Trails
<1>3. ASSUME NEW m \in tails PROVE m <= n
  <2>1. CASE n = Len(results)
    BY <2>1, <1>1
  <2>2. CASE results[Len(results) - n] # "err"
    <3>1. SUFFICES ASSUME m > n PROVE FALSE
      BY <1>1
    <3>2. Len(results) - n \in (Len(results) - m + 1)..Len(results)
      BY <3>1, <1>1
    <3> QED BY <3>2, <2>2 DEF AllErr
  <2> QED BY <2>1, <2>2 DEF Trails
<1>4. IsLast(n)
  BY <1>2, <1>3
<1>5. \A k : IsLast(k) => k = n
  BY <1>2, <1>3, <1>1
<1>6. TrailingFailures = CHOOSE k \in tails : \A m \in tails : m <= k
  BY DEF TrailingFailures, AllErr
<1> QED BY <1>4, <1>5, <1>6

-----------------------------------------------------------------------------
\* Products, which the provers know little of.
LEMMA ProductIsNat == \A m, n \in Nat : m * n \in Nat
  OBVIOUS

LEMMA ProductGrows == \A m, n, k \in Nat : m <= n => m * k <= n * k
<1> SUFFICES ASSUME NEW m \in Nat, NEW n \in Nat, NEW k \in Nat, m <= n PROVE m * k <= n * k
  OBVIOUS
<1>1. PICK d \in Nat : n = m + d
  BY n - m \in Nat
<1>2. n * k = m * k + d * k
  BY <1>1
<1>3. m * k \in Nat /\ d * k \in Nat
  BY ProductIsNat
<1> QED BY <1>2, <1>3

LEMMA OneMore == \A m, k \in Nat : (m + 1) * k = m * k + k
  OBVIOUS

\* The lower bound of age follows from how often the clock was set back; that the list of
\* results is cut does not reach what is counted, since it is longer than any count.
BreakerIInv ==
  /\ BreakerTypeOK
  /\ age >= -(setBacks * Timeout)
  /\ Len(results) <= FailureThreshold + SuccessThreshold
  /\ currentState = "closed" => Trails(failureCount)
  /\ currentState = "half-open" => results = [i \in 1..successCount |-> "ok"]
  /\ currentState = "open" => failureCount = 0 /\ successCount = 0

LEMMA BreakerInitIInv == BreakerInit => BreakerIInv
<1> SUFFICES ASSUME BreakerInit PROVE BreakerIInv
  OBVIOUS
<1> USE BreakerAssumption DEF BreakerInit
<1>1. results = <<>> /\ Len(results) = 0
  OBVIOUS
<1>2. MaxSetBacks * Timeout \in Nat /\ setBacks * Timeout = 0
  BY ProductIsNat
<1>3. BreakerTypeOK
  BY <1>1, <1>2 DEF BreakerTypeOK
<1>4. Trails(0)
  BY <1>1 DEF Trails, AllErr
<1> QED BY <1>1, <1>2, <1>3, <1>4 DEF BreakerIInv

\* A state in which the counters are new and no result has been seen.
LEMMA NewIInv ==
  ASSUME BreakerIInv, callAt' \in [Users -> {"idle", "running", "rejected"}], UNCHANGED setBacks,
         currentState' \in {"closed", "open", "half-open"},
         failureCount' \in 0..(FailureThreshold - 1), currentState' # "half-open" => failureCount' = 0,
         successCount' = 0, age' \in {0, age}, probes' \subseteq Users, results' = <<>>
  PROVE  BreakerIInv'
<1> USE BreakerAssumption
<1>1. MaxSetBacks * Timeout \in Nat /\ setBacks * Timeout \in Nat
  <2>1. setBacks \in Nat /\ MaxSetBacks \in Nat /\ Timeout \in Nat
    BY DEF BreakerIInv, BreakerTypeOK
  <2> QED BY <2>1, ProductIsNat
<1> DEFINE lowest == -(MaxSetBacks * Timeout)
<1>2. setBacks' * Timeout = setBacks * Timeout /\ setBacks' \in 0..MaxSetBacks
  BY DEF BreakerIInv, BreakerTypeOK
<1>3. age' >= -(setBacks' * Timeout)
  <2>1. age' = 0 \/ age' = age
    OBVIOUS
  <2> QED BY <1>1, <1>2, <2>1 DEF BreakerIInv
<1>4. age' \in lowest..Timeout
  <2>1. lowest \in Int /\ lowest <= 0
    BY <1>1
  <2>2. age \in lowest..Timeout
    BY DEF BreakerIInv, BreakerTypeOK
  <2> HIDE DEF lowest
  <2> QED BY <2>1, <2>2
<1>5. BreakerTypeOK'
  BY <1>2, <1>4 DEF BreakerTypeOK
<1>6. Len(results') = 0
  OBVIOUS
<1>7. currentState' = "closed" => Trails(failureCount)'
  BY <1>6 DEF Trails, AllErr
<1>8. currentState' = "half-open" => results' = [i \in 1..successCount' |-> "ok"]
  OBVIOUS
<1> QED BY <1>3, <1>5, <1>6, <1>7, <1>8 DEF BreakerIInv

\* Steps that look at neither counters nor results.
LEMMA KeepsIInv ==
  ASSUME BreakerIInv, UNCHANGED <<currentState, failureCount, successCount, results>>,
         callAt' \in [Users -> {"idle", "running", "rejected"}], probes' \subseteq Users,
         setBacks' \in 0..MaxSetBacks, age' \in Int, age' <= Timeout, age' >= -(setBacks' * Timeout)
  PROVE  BreakerIInv'
<1> USE BreakerAssumption
<1>1. setBacks' * Timeout <= MaxSetBacks * Timeout
  <2>1. setBacks' \in Nat /\ MaxSetBacks \in Nat /\ Timeout \in Nat /\ setBacks' <= MaxSetBacks
    OBVIOUS
  <2> QED BY <2>1, ProductGrows
<1>2. age' \in (-(MaxSetBacks * Timeout))..Timeout
  <2>1. setBacks' * Timeout \in Nat /\ MaxSetBacks * Timeout \in Nat
    BY ProductIsNat
  <2> DEFINE before == setBacks' * Timeout
  <2> DEFINE most == MaxSetBacks * Timeout
  <2>2. before \in Nat /\ most \in Nat /\ before <= most /\ age' >= -before
    BY <1>1, <2>1
  <2> HIDE DEF before, most
  <2>3. age' \in (-most)..Timeout
    BY <2>2
  <2> QED BY <2>3 DEF most
<1>3. BreakerTypeOK'
  BY <1>2 DEF BreakerIInv, BreakerTypeOK
<1>4. currentState' = "closed" => Trails(failureCount)'
  BY DEF BreakerIInv, Trails, AllErr
<1> QED BY <1>3, <1>4 DEF BreakerIInv

\* The same without a step of the clock.
LEMMA UnmovedIInv ==
  ASSUME BreakerIInv, UNCHANGED <<currentState, failureCount, successCount, results>>, UNCHANGED age, UNCHANGED setBacks,
         callAt' \in [Users -> {"idle", "running", "rejected"}], probes' \subseteq Users
  PROVE  BreakerIInv'
<1>1. setBacks' \in 0..MaxSetBacks /\ age' \in Int /\ age' <= Timeout
  BY BreakerAssumption DEF BreakerIInv, BreakerTypeOK
<1>2. age' >= -(setBacks' * Timeout)
  BY DEF BreakerIInv
<1> QED BY <1>1, <1>2, KeepsIInv

-----------------------------------------------------------------------------
\* What is remembered ends with the result, and where it goes on backwards it is as before.
LEMMA Remembers ==
  ASSUME NEW result \in {"ok", "err"}, results \in Seq({"ok", "err"}), results' = Remember(result),
         Len(results) <= FailureThreshold + SuccessThreshold
  PROVE  /\ results' \in Seq({"ok", "err"})
         /\ Len(results') \in 1..(FailureThreshold + SuccessThreshold)
         /\ Len(results') = IF Len(results) + 1 > FailureThreshold + SuccessThreshold THEN Len(results) ELSE Len(results) + 1
         /\ results'[Len(results')] = result
         /\ \A n \in 0..(Len(results') - 2) : results'[Len(results') - 1 - n] = results[Len(results) - n]
         /\ Len(results) + 1 <= FailureThreshold + SuccessThreshold => results' = Append(results, result)
<1> USE BreakerAssumption
<1> DEFINE all == Append(results, result)
<1>1. all \in Seq({"ok", "err"}) /\ Len(all) = Len(results) + 1 /\ Len(results) \in Nat
  OBVIOUS
<1>2. all[Len(all)] = result /\ \A i \in 1..Len(results) : all[i] = results[i]
  OBVIOUS
<1>3. CASE Len(all) > FailureThreshold + SuccessThreshold
  <2>1. results' = Tail(all)
    BY <1>3 DEF Remember
  <2>2. results' \in Seq({"ok", "err"}) /\ Len(results') = Len(results)
    BY <2>1, <1>1
  <2>3. \A i \in 1..Len(results') : results'[i] = all[i + 1]
    BY <2>1, <2>2, <1>1
  <2> QED BY <1>1, <1>2, <1>3, <2>2, <2>3
<1>4. CASE ~(Len(all) > FailureThreshold + SuccessThreshold)
  <2>1. results' = all
    BY <1>4 DEF Remember
  <2> QED BY <1>1, <1>2, <1>4, <2>1
<1> QED BY <1>3, <1>4

\* A success ends the run of failures.
LEMMA SuccessTrails ==
  ASSUME results \in Seq({"ok", "err"}), results' = Remember("ok"),
         Len(results) <= FailureThreshold + SuccessThreshold, failureCount' = 0
  PROVE  Trails(failureCount)'
<1>1. results' \in Seq({"ok", "err"}) /\ Len(results') \in Nat \ {0} /\ results'[Len(results')] = "ok"
  BY Remembers, BreakerAssumption
<1> QED BY <1>1 DEF Trails, AllErr

\* A failure makes it longer by one, unless that opens the breaker.
LEMMA FailureTrails ==
  ASSUME results \in Seq({"ok", "err"}), results' = Remember("err"),
         Len(results) <= FailureThreshold + SuccessThreshold,
         failureCount \in 0..(FailureThreshold - 1), failureCount + 1 < FailureThreshold,
         failureCount' = failureCount + 1, Trails(failureCount)
  PROVE  Trails(failureCount)'
<1> USE BreakerAssumption
<1> DEFINE n == failureCount
<1> DEFINE last == Len(results')
<1>1. /\ results' \in Seq({"ok", "err"}) /\ last \in 1..(FailureThreshold + SuccessThreshold)
      /\ results'[last] = "err"
      /\ \A k \in 0..(last - 2) : results'[last - 1 - k] = results[Len(results) - k]
      /\ last = IF Len(results) + 1 > FailureThreshold + SuccessThreshold THEN Len(results) ELSE Len(results) + 1
  BY Remembers
<1>2. Len(results) \in Nat /\ n \in 0..Len(results)
  BY DEF Trails
<1>3. n + 1 \in 0..last
  BY <1>1, <1>2
<1>4. ASSUME NEW i \in (last - (n + 1) + 1)..last PROVE results'[i] = "err"
  <2>1. CASE i = last
    BY <2>1, <1>1
  <2>2. CASE i # last
    <3> DEFINE k == last - 1 - i
    <3>1. k \in 0..(last - 2) /\ k < n /\ i = last - 1 - k
      BY <2>2, <1>1, <1>2, <1>3
    <3>2. results'[i] = results[Len(results) - k]
      BY <3>1, <1>1
    <3>3. Len(results) - k \in (Len(results) - n + 1)..Len(results)
      BY <3>1, <1>2
    <3>4. results[Len(results) - k] = "err"
      BY <3>3 DEF Trails, AllErr
    <3> QED BY <3>2, <3>4
  <2> QED BY <2>1, <2>2
<1>5. n + 1 = last \/ results'[last - (n + 1)] # "err"
  <2>1. SUFFICES ASSUME n + 1 # last PROVE results'[last - (n + 1)] # "err"
    OBVIOUS
  <2>2. n \in 0..(last - 2) /\ last - (n + 1) = last - 1 - n
    BY <2>1, <1>1, <1>2, <1>3
  <2>3. results'[last - (n + 1)] = results[Len(results) - n]
    BY <2>2, <1>1
  <2>4. n # Len(results)
    BY <2>1, <1>1, <1>2
  <2> QED BY <2>3, <2>4 DEF Trails
<1> QED BY <1>3, <1>4, <1>5 DEF Trails, AllErr

-----------------------------------------------------------------------------
LEMMA RunIInv == ASSUME NEW c \in Users, BreakerIInv, Run(c) PROVE BreakerIInv'
<1> USE BreakerAssumption
<1>1. callAt' \in [Users -> {"idle", "running", "rejected"}]
  BY DEF BreakerIInv, BreakerTypeOK, Run, LetThrough
<1>2. CASE ShouldTransitionToHalfOpen
  <2>1. /\ currentState' = "half-open" /\ successCount' = 0 /\ results' = <<>> /\ probes' = {c}
        /\ UNCHANGED <<failureCount, age, setBacks>>
    BY <1>2 DEF Run, ShouldTransitionToHalfOpen
  <2> QED BY <1>1, <2>1, NewIInv DEF BreakerIInv, BreakerTypeOK
<1>3. CASE ~ShouldTransitionToHalfOpen
  <2>1. UNCHANGED <<currentState, failureCount, successCount, results>> /\ UNCHANGED age /\ UNCHANGED setBacks
    BY <1>3 DEF Run, ShouldTransitionToHalfOpen
  <2>2. probes' \subseteq Users
    BY <1>3 DEF BreakerIInv, BreakerTypeOK, Run, ShouldTransitionToHalfOpen
  <2> QED BY <1>1, <2>1, <2>2, UnmovedIInv
<1> QED BY <1>2, <1>3

LEMMA ResultIInv ==
  ASSUME NEW c \in Users, BreakerIInv, callAt' \in [Users -> {"idle", "running", "rejected"}], UNCHANGED setBacks
  PROVE  /\ OnSuccess(c) => BreakerIInv'
         /\ OnFailure(c) => BreakerIInv'
         /\ Ignored(c) => BreakerIInv'
<1> USE BreakerAssumption
<1>1. probes \subseteq Users /\ results \in Seq({"ok", "err"}) /\ Len(results) <= FailureThreshold + SuccessThreshold
  BY DEF BreakerIInv, BreakerTypeOK
<1>2. ASSUME Ignored(c) PROVE BreakerIInv'
  BY <1>1, <1>2, UnmovedIInv DEF Ignored, breakerVars
<1>3. ASSUME TransitionToOpen PROVE BreakerIInv'
  BY <1>3, NewIInv DEF TransitionToOpen, NewPeriod
<1>4. ASSUME TransitionToClosed PROVE BreakerIInv'
  BY <1>4, NewIInv DEF TransitionToClosed, NewPeriod
<1>5. ASSUME NEW result \in {"ok", "err"}, Counted(c, result),
             failureCount' \in 0..(FailureThreshold - 1), successCount' \in 0..(SuccessThreshold - 1),
             currentState = "closed" => Trails(failureCount)',
             currentState = "half-open" => results' = [i \in 1..successCount' |-> "ok"],
             currentState # "open"
      PROVE  BreakerIInv'
  <2>1. results' = Remember(result) /\ UNCHANGED <<currentState, age>> /\ probes' \subseteq Users
    BY <1>1, <1>5 DEF Counted
  <2>2. results' \in Seq({"ok", "err"}) /\ Len(results') <= FailureThreshold + SuccessThreshold
    BY <1>1, <2>1, Remembers
  <2>3. BreakerTypeOK'
    BY <1>5, <2>1, <2>2 DEF BreakerIInv, BreakerTypeOK
  <2>4. age' >= -(setBacks' * Timeout)
    BY <2>1 DEF BreakerIInv
  <2> QED BY <1>5, <2>1, <2>2, <2>3, <2>4 DEF BreakerIInv
<1>6. ASSUME OnSuccess(c) PROVE BreakerIInv'
  <2>1. CASE currentState = "half-open" /\ successCount + 1 < SuccessThreshold
    <3>1. Counted(c, "ok") /\ successCount' = successCount + 1 /\ failureCount' = failureCount
      BY <1>6, <2>1 DEF OnSuccess, BreakerIInv, BreakerTypeOK
    <3>2. successCount \in Nat /\ results = [i \in 1..successCount |-> "ok"]
      BY <2>1 DEF BreakerIInv, BreakerTypeOK
    <3>3. Len(results) = successCount
      BY <3>2
    <3>4. results' = Append(results, "ok")
      BY <1>1, <2>1, <3>1, <3>3, Remembers DEF Counted
    <3>5. results' = [i \in 1..successCount' |-> "ok"]
      BY <3>1, <3>2, <3>3, <3>4
    <3>6. failureCount' \in 0..(FailureThreshold - 1) /\ successCount' \in 0..(SuccessThreshold - 1)
      BY <2>1, <3>1 DEF BreakerIInv, BreakerTypeOK
    <3> QED BY <1>5, <2>1, <3>1, <3>5, <3>6
  <2>2. CASE currentState = "closed"
    <3>1. Counted(c, "ok") /\ failureCount' = 0 /\ successCount' = successCount
      BY <1>6, <2>2 DEF OnSuccess
    <3>2. Trails(failureCount)'
      BY <1>1, <3>1, SuccessTrails DEF Counted
    <3>3. failureCount' \in 0..(FailureThreshold - 1) /\ successCount' \in 0..(SuccessThreshold - 1)
      BY <3>1 DEF BreakerIInv, BreakerTypeOK
    <3> QED BY <1>5, <2>2, <3>1, <3>2, <3>3
  <2>3. CASE TransitionToClosed \/ Ignored(c)
    BY <1>2, <1>4, <2>3
  <2> QED BY <1>6, <2>1, <2>2, <2>3 DEF OnSuccess
<1>7. ASSUME OnFailure(c) PROVE BreakerIInv'
  <2>1. CASE currentState = "closed" /\ failureCount + 1 < FailureThreshold
    <3>1. Counted(c, "err") /\ failureCount' = failureCount + 1 /\ successCount' = successCount
      BY <1>7, <2>1 DEF OnFailure, BreakerIInv, BreakerTypeOK
    <3>2. failureCount \in 0..(FailureThreshold - 1) /\ Trails(failureCount)
      BY <2>1 DEF BreakerIInv, BreakerTypeOK
    <3>3. Trails(failureCount)'
      BY <1>1, <2>1, <3>1, <3>2, FailureTrails DEF Counted
    <3>4. failureCount' \in 0..(FailureThreshold - 1) /\ successCount' \in 0..(SuccessThreshold - 1)
      BY <2>1, <3>1 DEF BreakerIInv, BreakerTypeOK
    <3> QED BY <1>5, <2>1, <3>1, <3>3, <3>4
  <2>2. CASE TransitionToOpen \/ Ignored(c)
    BY <1>2, <1>3, <2>2
  <2> QED BY <1>7, <2>1, <2>2 DEF OnFailure
<1> QED BY <1>2, <1>6, <1>7

LEMMA BreakerStepIInv == BreakerIInv /\ [BreakerNext]_circuitVars => BreakerIInv'
<1> USE BreakerAssumption
<1> SUFFICES ASSUME BreakerIInv, [BreakerNext]_circuitVars PROVE BreakerIInv'
  OBVIOUS
<1>1. callAt \in [Users -> {"idle", "running", "rejected"}] /\ probes \subseteq Users /\ setBacks \in 0..MaxSetBacks
  BY DEF BreakerIInv, BreakerTypeOK
<1>2. ASSUME NEW c \in Users, Run(c) PROVE BreakerIInv'
  BY <1>2, RunIInv
<1>3. ASSUME NEW c \in Users, SeeRejection(c) PROVE BreakerIInv'
  BY <1>1, <1>3, UnmovedIInv DEF SeeRejection, breakerVars
<1>4. ASSUME NEW c \in Users, Settle(c) \/ Throws(c) PROVE BreakerIInv'
  <2>1. callAt' = [callAt EXCEPT ![c] = "idle"] /\ UNCHANGED setBacks
    BY <1>4 DEF Settle, Throws
  <2>2. callAt' \in [Users -> {"idle", "running", "rejected"}]
    BY <1>1, <2>1
  <2> QED BY <1>4, <2>1, <2>2, ResultIInv DEF Settle, Throws
<1>5. CASE Reset
  BY <1>1, <1>5, NewIInv DEF Reset, TransitionToClosed, NewPeriod
<1>6. CASE Tick
  <2>1. age \in Int /\ age' \in Int /\ age' <= Timeout /\ age' >= age
    BY <1>6 DEF Tick, BreakerIInv, BreakerTypeOK
  <2>2. setBacks * Timeout \in Nat
    BY <1>1, ProductIsNat
  <2>3. age' >= -(setBacks' * Timeout)
    <3> DEFINE before == setBacks * Timeout
    <3>1. setBacks' * Timeout = before /\ before \in Nat /\ age >= -before
      BY <1>6, <2>2 DEF Tick, BreakerIInv
    <3> HIDE DEF before
    <3>2. age' >= -before
      BY <2>1, <3>1
    <3> QED BY <3>1, <3>2
  <2> QED BY <1>1, <1>6, <2>1, <2>3, KeepsIInv DEF Tick
<1>7. CASE SetBack
  <2>1. PICK behind \in 1..Timeout : age' = age - behind
    BY <1>7 DEF SetBack
  <2>2. setBacks' = setBacks + 1 /\ setBacks' \in 0..MaxSetBacks
    BY <1>1, <1>7 DEF SetBack
  <2>3. setBacks' * Timeout = setBacks * Timeout + Timeout /\ setBacks * Timeout \in Nat
    <3>1. setBacks \in Nat /\ Timeout \in Nat
      BY <1>1
    <3> QED BY <2>2, <3>1, ProductIsNat, OneMore
  <2>4. age \in Int /\ age <= Timeout /\ age >= -(setBacks * Timeout)
    BY DEF BreakerIInv, BreakerTypeOK
  <2>5. age' \in Int /\ age' <= Timeout /\ age' >= -(setBacks' * Timeout)
    <3> DEFINE before == setBacks * Timeout
    <3> DEFINE after == setBacks' * Timeout
    <3>1. after = before + Timeout /\ before \in Nat /\ age >= -before
      BY <2>3, <2>4
    <3> HIDE DEF before, after
    <3>2. age' \in Int /\ age' <= Timeout /\ age' >= -after
      BY <2>1, <2>4, <3>1
    <3> QED BY <3>2 DEF after
  <2> QED BY <1>1, <1>7, <2>2, <2>5, KeepsIInv DEF SetBack
<1>8. CASE UNCHANGED circuitVars
  <2>1. UNCHANGED breakerVars /\ UNCHANGED callAt /\ UNCHANGED probes /\ UNCHANGED results /\ UNCHANGED setBacks
    BY <1>8 DEF circuitVars
  <2> QED BY <1>1, <2>1, UnmovedIInv DEF breakerVars
<1> QED BY <1>2, <1>3, <1>4, <1>5, <1>6, <1>7, <1>8 DEF BreakerNext

-----------------------------------------------------------------------------
\* The counters are the length of the run of failures, or of successes, that is going on
\* among the results seen since the breaker last changed its state, and stay below the
\* thresholds: however many calls overlap, in whatever order they settle.
THEOREM CountsExact == BreakerSpec => []ResultsAreCounted
<1>1. BreakerIInv => ResultsAreCounted
  <2> SUFFICES ASSUME BreakerIInv PROVE ResultsAreCounted
    OBVIOUS
  <2>1. BreakerTypeOK
    BY DEF BreakerIInv
  <2>2. currentState = "closed" => failureCount = TrailingFailures
    <3>1. SUFFICES ASSUME currentState = "closed" PROVE TrailingFailures = failureCount
      OBVIOUS
    <3>2. Trails(failureCount) /\ failureCount \in Nat /\ results \in Seq({"ok", "err"})
      BY <3>1, BreakerAssumption DEF BreakerIInv, BreakerTypeOK
    <3> QED BY <3>2, TrailingIsUnique
  <2> QED BY <2>1, <2>2 DEF BreakerIInv, ResultsAreCounted, CountsAreConsecutive
<1> QED BY <1>1, BreakerInitIInv, BreakerStepIInv, PTL DEF BreakerSpec

\* What was let through before the breaker opened neither closes it nor prolongs the
\* cooldown, however late it is answered.
THEOREM LateResultsAreIgnored == BreakerSpec => OpenIgnoresResults
<1>1. ASSUME currentState = "open", NEW c \in Users, Settle(c) \/ Throws(c) PROVE UNCHANGED breakerVars
  BY <1>1 DEF Settle, Throws, OnSuccess, OnFailure, Ignored
<1>2. [BreakerNext]_circuitVars =>
        [currentState = "open" /\ (\E c \in Users : Settle(c) \/ Throws(c)) => UNCHANGED breakerVars]_circuitVars
  BY <1>1
<1> QED BY <1>2, PTL DEF BreakerSpec, OpenIgnoresResults
=============================================================================
