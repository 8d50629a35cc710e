-------------------------------- MODULE Task --------------------------------
(* async/task.ts, the policies of async/retry.ts, and delay() and deadline() of *)
(* async/timer.ts: a tree of tasks that is run, perhaps several times at once.  *)
(*                                                                              *)
(* A leaf is a user's promise: Ok, Err, an Err that is not worth another try,   *)
(* or a rejection, sooner or later or never.  Each run() of a node of the tree  *)
(* is an execution of its own; what run() does before its first await belongs   *)
(* to the step that calls it, and an await lets anything else go first.         *)
EXTENDS Integers, Sequences, FiniteSets, SequencesExt

CONSTANTS Trees,    \* the trees: sequences of nodes, the last of which is run
          MaxRuns,  \* bound on how often
          MaxExecutions \* more than there ever are

Parallel == {"zip", "all", "race", "allSettled"}
Timed == {"timeout", "deadline"}
Retried == {"retry", "policy"}
Single == {"map", "unwrapOr", "memoize", "delay"} \cup Timed \cup Retried

\* Leaves run no task, map() and the like one, and flatMap() another.
ASSUME TaskAssumption ==
  \A t \in Trees :
    /\ t \in Seq([kind : {"leaf", "flatMap"} \cup Parallel \cup Single, args : Seq(DOMAIN t), catches : BOOLEAN,
                  hangs : BOOLEAN, attempts : Int, backoff : {"fixed", "linear", "exponential"}, delay : Nat,
                  maxDelay : Nat, jitter : BOOLEAN])
    /\ t # <<>>
    /\ \A n \in DOMAIN t :
         /\ t[n].kind = "leaf" => t[n].args = <<>>
         /\ t[n].kind \in Single => Len(t[n].args) = 1
         /\ t[n].kind = "flatMap" => Len(t[n].args) = 2

VARIABLES tree,  \* node -> [kind, args, and what its kind has]
          execs, \* the executions, in the order they began
          memo   \* memoize(): node -> the execution it keeps, or 0

taskVars == <<tree, execs, memo>>

Root == Len(tree)
Pending == [tag |-> "pending", from |-> 0]
Says(tag, e) == [tag |-> tag, from |-> e]
IsErr(r) == r.tag \in {"err", "fatal", "timeout"}

\* An execution of a node, with those that it has begun and the waits between them.
Execution(node, parent) ==
  [node |-> node, parent |-> parent, phase |-> "new", result |-> Pending, kids |-> <<>>, waits |-> <<>>]
Node(e) == tree[execs[e].node]
Kids(e) == execs[e].kids
Results(e) == [i \in 1..Len(Kids(e)) |-> execs[Kids(e)[i]].result]
Settled(r) == r # Pending

TaskInit ==
  /\ tree \in Trees
  /\ execs = <<>>
  /\ memo = [n \in DOMAIN tree |-> 0]
-----------------------------------------------------------------------------
\* run() of the whole tree.
RunTree ==
  /\ Cardinality({e \in DOMAIN execs : execs[e].parent = 0}) < MaxRuns
  /\ execs' = Append(execs, Execution(Root, 0))
  /\ UNCHANGED <<tree, memo>>

\* The execution goes on to a phase, and begins others.
With(e, phase, nodes) ==
  [execs EXCEPT ![e].phase = phase, ![e].kids = @ \o [i \in 1..Len(nodes) |-> Len(execs) + i]]
    \o [i \in 1..Len(nodes) |-> Execution(nodes[i], e)]

\* memoize() has a run to share.
Kept(e) == Node(e).kind = "memoize" /\ memo[execs[e].node] # 0

\* What an execution does before its first await: zip() and the like run all of their tasks,
\* memoize() only the first time, delay() sets its timer, and the others run their task.
Begin(e) ==
  /\ execs[e].phase = "new"
  /\ execs' = CASE Node(e).kind = "delay" -> With(e, "sleeping", <<>>)
                [] Node(e).kind \in Parallel -> With(e, "waiting", Node(e).args)
                [] Kept(e) \/ Node(e).args = <<>> -> With(e, "waiting", <<>>)
                [] OTHER -> With(e, "waiting", <<Node(e).args[1]>>)
  /\ memo' = IF Node(e).kind = "memoize" /\ ~Kept(e) THEN [memo EXCEPT ![execs[e].node] = Len(execs) + 1] ELSE memo
  /\ UNCHANGED tree

Settles(e, result) ==
  /\ execs' = [execs EXCEPT ![e].phase = "settled", ![e].result = result]
  /\ UNCHANGED <<tree, memo>>

\* A promise of the user's settles.  fromPromise() makes an Err of a rejection.
LeafSettles(e) ==
  /\ execs[e].phase = "waiting" /\ Node(e).kind = "leaf"
  /\ \E tag \in {"ok", "err", "fatal", "rejected"} :
       Settles(e, Says(IF Node(e).catches /\ tag = "rejected" THEN "err" ELSE tag, e))

\* The time of a timeout() or deadline() is over, or of what sleeps.
TimerFires(e) ==
  \/ /\ execs[e].phase = "waiting" /\ Node(e).kind \in Timed
     /\ Settles(e, Says("timeout", e))
  \/ /\ execs[e].phase = "sleeping"
     /\ execs' = With(e, "waiting", <<Node(e).args[1]>>)
     /\ UNCHANGED <<tree, memo>>

\* collectResults(), and what zip() and ap() do: the first error in the order of the tasks.
Collected(e) ==
  LET bad == {i \in DOMAIN Results(e) : IsErr(Results(e)[i])}
  IN  IF bad = {} THEN Says("ok", e) ELSE Results(e)[Min(bad)]

\* Promise.all() waits for all tasks or one that rejects, and an Err is no rejection:
\* Task.all() goes on waiting.  Promise.race() waits for one.
Joins(e) ==
  /\ execs[e].phase = "waiting" /\ Node(e).kind \in Parallel
  /\ \/ /\ Node(e).kind # "race" /\ \A i \in DOMAIN Results(e) : Results(e)[i].tag \notin {"pending", "rejected"}
        /\ Settles(e, IF Node(e).kind = "allSettled" THEN Says("ok", e) ELSE Collected(e))
     \/ /\ Node(e).kind # "race"
        /\ \E i \in DOMAIN Results(e) : Results(e)[i].tag = "rejected" /\ Settles(e, Results(e)[i])
     \/ /\ Node(e).kind = "race"
        /\ \E i \in DOMAIN Results(e) : Settled(Results(e)[i]) /\ Settles(e, Results(e)[i])

\* The one task that an execution waits for: its own last, or what memoize() keeps.
Awaited(e) == IF Node(e).kind = "memoize" THEN execs[memo[execs[e].node]].result ELSE Last(Results(e))

\* map(), tap(), memoize(), delay() and the rest hand on what they get; unwrapOr() has an
\* answer to every error; a timeout() that has not fired yet is no different.
HandsOn(e) ==
  /\ execs[e].phase = "waiting"
  /\ Node(e).kind \in Single \ Retried
  /\ Settled(Awaited(e))
  /\ Settles(e, IF Node(e).kind = "unwrapOr" /\ IsErr(Awaited(e)) THEN Says("ok", e) ELSE Awaited(e))

\* flatMap(): an Ok is followed by the task it leads to.
Chains(e) ==
  /\ execs[e].phase = "waiting" /\ Node(e).kind = "flatMap"
  /\ Settled(Awaited(e))
  /\ IF Len(Kids(e)) = 1 /\ Awaited(e).tag = "ok"
     THEN execs' = With(e, "waiting", <<Node(e).args[2]>>) /\ UNCHANGED <<tree, memo>>
     ELSE Settles(e, Awaited(e))

\* computeDelay(), without the jitter.
BaseDelay(policy, attempt) ==
  LET delay == CASE policy.backoff = "exponential" -> policy.delay * 2^attempt
                 [] policy.backoff = "linear" -> policy.delay * (attempt + 1)
                 [] policy.backoff = "fixed" -> policy.delay
  IN  IF delay > policy.maxDelay THEN policy.maxDelay ELSE delay

Delays(policy, attempt) ==
  LET most == BaseDelay(policy, attempt)
  IN  IF policy.jitter /\ most > 0 THEN 0..(most - 1) ELSE {most}

\* Mutant of MayRetry: the first run is not an attempt.
MayRetryOnce(e) ==
  /\ IsErr(Awaited(e)) /\ Len(Kids(e)) <= Node(e).attempts
  /\ Node(e).kind = "policy" => Awaited(e).tag # "fatal"

\* Another attempt: there are some left, the last has failed, and shouldRetry() says so.
MayRetry(e) ==
  /\ IsErr(Awaited(e)) /\ Len(Kids(e)) < Node(e).attempts
  /\ Node(e).kind = "policy" => Awaited(e).tag # "fatal"

\* retry() and applyRetry(), when an attempt has settled.
Retries(e) ==
  /\ execs[e].phase = "waiting" /\ Node(e).kind \in Retried
  /\ Settled(Awaited(e))
  /\ IF MayRetry(e)
     THEN /\ \E wait \in Delays(Node(e), Len(Kids(e)) - 1) :
               execs' = [With(e, IF wait > 0 THEN "sleeping" ELSE "waiting", IF wait > 0 THEN <<>> ELSE <<Node(e).args[1]>>)
                           EXCEPT ![e].waits = Append(@, wait)]
          /\ UNCHANGED <<tree, memo>>
     ELSE Settles(e, Awaited(e))

\* A step that has begun goes on until its executions await something.
TaskNext ==
  \/ \E e \in DOMAIN execs : (\A other \in 1..(e - 1) : execs[other].phase # "new") /\ Begin(e)
  \/ /\ \A e \in DOMAIN execs : execs[e].phase # "new"
     /\ \/ RunTree
        \/ \E e \in DOMAIN execs :
             LeafSettles(e) \/ TimerFires(e) \/ Joins(e) \/ HandsOn(e) \/ Chains(e) \/ Retries(e)

TaskSpec == TaskInit /\ [][TaskNext]_taskVars

\* Continuations run, timers fire, and a leaf settles unless it is one that hangs.
GoesForward(e) ==
  /\ e \in DOMAIN execs
  /\ \/ Begin(e) \/ TimerFires(e) \/ Joins(e) \/ HandsOn(e) \/ Chains(e) \/ Retries(e)
     \/ ~Node(e).hangs /\ LeafSettles(e)
FairTask == TaskSpec /\ \A e \in 1..MaxExecutions : WF_taskVars(GoesForward(e))
-----------------------------------------------------------------------------
Unsettled(e) == execs[e].phase # "settled"
AtMost(policy) == IF policy.attempts > 1 THEN policy.attempts ELSE 1

\* However runs overlap, a memoized task is run once and has one answer for all; the
\* attempts of a retry come one after the other, at most as many as asked for, each after
\* a failure worth another try, and without jitter each after as long a wait as the last.
AttemptsFollow ==
  \A e \in DOMAIN execs :
    /\ Node(e).kind = "memoize" =>
         \A other \in DOMAIN execs : execs[other].node = execs[e].node =>
           /\ Len(Kids(e)) + (IF other = e THEN 0 ELSE Len(Kids(other))) <= 1
           /\ ~Unsettled(e) /\ ~Unsettled(other) => execs[e].result = execs[other].result
    /\ Node(e).kind \in Retried =>
         LET tries == Results(e)
             waits == execs[e].waits
         IN  /\ Len(tries) <= AtMost(Node(e))
             /\ \A i \in 1..(Len(tries) - 1) : IsErr(tries[i]) /\ (Node(e).kind = "policy" => tries[i].tag # "fatal")
             /\ ~Node(e).jitter => \A i \in 1..(Len(waits) - 1) : waits[i] <= waits[i + 1]
             /\ ~Unsettled(e) => execs[e].result = Last(tries)

\* An execution that has settled leaves nothing running behind it, unless it is a race,
\* a timeout that has fired, or one of several tasks was rejected.
NothingIsLeft ==
  \A e \in DOMAIN execs : Unsettled(e) /\ execs[e].parent # 0 /\ ~Unsettled(execs[e].parent) =>
    LET parent == execs[e].parent
    IN  \/ Node(parent).kind = "race"
        \/ execs[parent].result = Says("timeout", parent)
        \/ Node(parent).kind \in Parallel /\ execs[parent].result.tag = "rejected"

\* The two together.
AttemptsAreOrdered == AttemptsFollow /\ NothingIsLeft

\* "Short-circuits on first error" (task.ts:248, of all()): once one of its tasks has an
\* Err, all() does not wait for the others.
AllShortCircuits ==
  \A e \in 1..MaxExecutions :
    (e \in DOMAIN execs /\ Node(e).kind = "all" /\ Unsettled(e) /\ \E i \in DOMAIN Results(e) : IsErr(Results(e)[i]))
      ~> (e \in DOMAIN execs /\ ~Unsettled(e))

\* Whatever hangs under a timeout, and however many attempts there are: a run settles.
TaskSettles ==
  (\E e \in DOMAIN execs : execs[e].parent = 0 /\ Unsettled(e))
    ~> (\A e \in DOMAIN execs : execs[e].parent = 0 => ~Unsettled(e))
=============================================================================
