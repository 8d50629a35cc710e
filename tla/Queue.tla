------------------------------- MODULE Queue -------------------------------
(***************************************************************************)
(* src/async/queue.ts: createQueue.                                        *)
(*                                                                         *)
(* The handler and onError are called synchronously from inside the queue, *)
(* and may call the queue again before they return, or throw.  "stack" is  *)
(* the JavaScript call stack, innermost call first: frames of the queue's  *)
(* own functions go on by themselves; on top of an empty stack (a new turn *)
(* of the event loop) or of a frame of user code anybody may call push,    *)
(* drain, pause or resume.                                                 *)
(***************************************************************************)
EXTENDS Integers, Sequences, FiniteSets, SequencesExt

CONSTANTS MaxJobs,      \* bound on the number of push() calls
          Concurrency,  \* options.concurrency
          Priorities,   \* the values of the priority option
          Drains,       \* calls of drain()
          Clock         \* the values of Date.now()

ASSUME QueueAssumption ==
  /\ MaxJobs \in Nat
  /\ Concurrency \in Nat \ {0}
  /\ Priorities \subseteq Int
  /\ Clock \subseteq Int /\ Clock # {}

VARIABLES pending,      \* const pending
          activeCount,  \* let activeCount
          paused,       \* let paused
          drains,       \* what the promise of each drain() holds; drainWaiters are the waiting ones
          pushed,       \* number of push() calls so far; jobs are numbered in that order
          priority,     \* the priority and createdAt of each job
          createdAt,
          status,       \* where each job is
          stack,        \* the call stack, innermost frame first
          now,          \* Date.now()
          steppedBack,  \* history: the clock was set back
          threw         \* history: user code threw into the queue

jobVars == <<pushed, priority, createdAt>>
clockVars == <<now, steppedBack>>
vars == <<pending, activeCount, paused, drains, jobVars, status, stack, clockVars, threw>>

Jobs == 1..MaxJobs
In(s) == {j \in Jobs : status[j] = s}

Frame(f, j) == [fn |-> f, job |-> j]
Dequeue == Frame("dequeue", 0)        \* dequeue() is called
Loop == Frame("loop", 0)              \* its while loop, past the test of paused
CheckDrain == Frame("checkDrain", 0)
UserCode == {"handler", "onError"}

Top == IF stack = <<>> THEN "eventLoop" ELSE Head(stack).fn
Call(frames) == stack' = frames \o stack
Return == stack' = Tail(stack)
UserTurn == Top \in UserCode \cup {"eventLoop"}

\* The frame on top throws: the calls below end with it, down to user code.
Unwound ==
  LET catchers == {i \in 2..Len(stack) : stack[i].fn \in UserCode}
  IN  IF catchers = {} THEN <<>>
      ELSE SubSeq(stack, CHOOSE i \in catchers : \A k \in catchers : i <= k, Len(stack))

Init ==
  /\ pending = <<>> /\ activeCount = 0 /\ paused = FALSE
  /\ drains = [d \in Drains |-> "none"]
  /\ pushed = 0
  /\ priority = [j \in Jobs |-> 0] /\ createdAt = [j \in Jobs |-> 0]
  /\ status = [j \in Jobs |-> "none"]
  /\ stack = <<>>
  /\ now \in Clock /\ steppedBack = FALSE /\ threw = FALSE

-----------------------------------------------------------------------------
\* Mutant of GoesBefore: jobs of the same moment are put in front of each other.
GoesBeforeStrictly(j, p, at) ==
  priority[j] < p \/ (priority[j] = p /\ createdAt[j] < at)

\* The comparison of insertSorted, of an existing job with a new one.
GoesBefore(j, p, at) ==
  priority[j] < p \/ (priority[j] = p /\ createdAt[j] <= at)

\* The binary search of insertSorted for the place of a new job.
InsertionPoint(p, at) ==
  LET search[range \in (0..Len(pending)) \X (0..Len(pending))] ==
        LET low == range[1]
            high == range[2]
            mid == (low + high) \div 2
        IN  IF low >= high THEN low
            ELSE IF GoesBefore(pending[mid + 1], p, at) THEN search[<<mid + 1, high>>]
            ELSE search[<<low, mid>>]
  IN  search[<<0, Len(pending)>>]

\* push()
Push(p) ==
  /\ UserTurn /\ pushed < MaxJobs
  /\ LET j == pushed + 1
     IN  /\ pushed' = j
         /\ priority' = [priority EXCEPT ![j] = p]
         /\ createdAt' = [createdAt EXCEPT ![j] = now]
         /\ status' = [status EXCEPT ![j] = "pending"]
         /\ pending' = InsertAt(pending, InsertionPoint(p, now) + 1, j)
  /\ Call(<<Dequeue>>)
  /\ UNCHANGED <<activeCount, paused, drains, clockVars, threw>>

\* dequeue() begins.
EnterDequeue ==
  /\ Top = "dequeue"
  /\ stack' = (IF paused THEN <<>> ELSE <<Loop>>) \o Tail(stack)
  /\ UNCHANGED <<pending, activeCount, paused, drains, jobVars, status, clockVars, threw>>

\* The condition of the while loop.
CanStart == activeCount < Concurrency /\ pending # <<>>

\* One round of the while loop of dequeue(): processJob() takes a slot and calls
\* the handler.  Nobody looks at paused again.
StartJob ==
  /\ Top = "loop" /\ CanStart
  /\ pending' = Tail(pending)
  /\ activeCount' = activeCount + 1
  /\ status' = [status EXCEPT ![Head(pending)] = "started"]
  /\ Call(<<Frame("handler", Head(pending))>>)
  /\ UNCHANGED <<paused, drains, jobVars, clockVars, threw>>

\* The loop ends.
EndLoop ==
  /\ Top = "loop" /\ ~CanStart
  /\ Return
  /\ UNCHANGED <<pending, activeCount, paused, drains, jobVars, status, clockVars, threw>>

\* checkDrain() resolves every drain that waits, if the queue is idle.
RunCheckDrain ==
  /\ Top = "checkDrain"
  /\ drains' = IF pending = <<>> /\ activeCount = 0
               THEN [d \in Drains |-> IF drains[d] = "waiting" THEN "resolved" ELSE drains[d]]
               ELSE drains
  /\ Return
  /\ UNCHANGED <<pending, activeCount, paused, jobVars, status, clockVars, threw>>

-----------------------------------------------------------------------------
\* User code returns: a handler with the promise of its job, onError with nothing.
UserReturns ==
  /\ Top \in UserCode
  /\ status' = IF Top = "handler" THEN [status EXCEPT ![Head(stack).job] = "running"] ELSE status
  /\ Return
  /\ UNCHANGED <<pending, activeCount, paused, drains, jobVars, clockVars, threw>>

\* User code throws.  A handler that throws before it has returned a promise keeps
\* its slot: nothing in processJob() gives it back.
UserThrows ==
  /\ Top \in UserCode
  /\ threw' = TRUE
  /\ status' = IF Top = "handler" THEN [status EXCEPT ![Head(stack).job] = "lost"] ELSE status
  /\ stack' = Unwound
  /\ UNCHANGED <<pending, activeCount, paused, drains, jobVars, clockVars>>

\* Mutant of Settle: a failed job does not look whether a drain is due.
SettleUnchecked(j) ==
  /\ stack = <<>> /\ status[j] = "running"
  /\ activeCount' = activeCount - 1
  /\ status' = [status EXCEPT ![j] = "processed"]
  /\ \/ Call(<<Dequeue, CheckDrain>>)
     \/ Call(<<Frame("onError", j), Dequeue>>)
  /\ UNCHANGED <<pending, paused, drains, jobVars, clockVars, threw>>

\* Mutant of Settle: a failed job starts no other.
SettleIdly(j) ==
  /\ stack = <<>> /\ status[j] = "running"
  /\ activeCount' = activeCount - 1
  /\ status' = [status EXCEPT ![j] = "processed"]
  /\ \/ Call(<<Dequeue, CheckDrain>>)
     \/ Call(<<Frame("onError", j), CheckDrain>>)
  /\ UNCHANGED <<pending, paused, drains, jobVars, clockVars, threw>>

\* The promise of a handler settles; if it is rejected, onError comes first.
Settle(j) ==
  /\ stack = <<>> /\ status[j] = "running"
  /\ activeCount' = activeCount - 1
  /\ status' = [status EXCEPT ![j] = "processed"]
  /\ \/ Call(<<Dequeue, CheckDrain>>)
     \/ Call(<<Frame("onError", j), Dequeue, CheckDrain>>)
  /\ UNCHANGED <<pending, paused, drains, jobVars, clockVars, threw>>

-----------------------------------------------------------------------------
\* Mutant of Drain: it looks at the jobs in progress only.
DrainActive(d) ==
  /\ UserTurn /\ drains[d] = "none"
  /\ drains' = [drains EXCEPT ![d] = IF activeCount = 0 THEN "resolved" ELSE "waiting"]
  /\ UNCHANGED <<pending, activeCount, paused, jobVars, status, stack, clockVars, threw>>

\* drain()
Drain(d) ==
  /\ UserTurn /\ drains[d] = "none"
  /\ drains' = [drains EXCEPT ![d] =
                  IF pending = <<>> /\ activeCount = 0 THEN "resolved" ELSE "waiting"]
  /\ UNCHANGED <<pending, activeCount, paused, jobVars, status, stack, clockVars, threw>>

\* pause()
Pause ==
  /\ UserTurn
  /\ paused' = TRUE
  /\ UNCHANGED <<pending, activeCount, drains, jobVars, status, stack, clockVars, threw>>

\* resume()
Resume ==
  /\ UserTurn
  /\ paused' = FALSE
  /\ Call(<<Dequeue>>)
  /\ UNCHANGED <<pending, activeCount, drains, jobVars, status, clockVars, threw>>

\* The wall clock moves, and may be set back.
Tick ==
  /\ now' \in Clock \ {now}
  /\ steppedBack' = (steppedBack \/ now' < now)
  /\ UNCHANGED <<pending, activeCount, paused, drains, jobVars, status, stack, threw>>

Queued == EnterDequeue \/ StartJob \/ EndLoop \/ RunCheckDrain

Next ==
  \/ \E p \in Priorities : Push(p)
  \/ \E d \in Drains : Drain(d)
  \/ Pause \/ Resume \/ Tick
  \/ Queued
  \/ UserReturns \/ UserThrows
  \/ \E j \in Jobs : Settle(j)

Spec == Init /\ [][Next]_vars

\* The queue's own code runs, user code that is called ends, and the handlers'
\* promises settle, however often others call the queue in between.
FairSpec ==
  /\ Spec
  /\ WF_vars(Queued)
  /\ SF_vars(UserReturns \/ UserThrows)
  /\ \A j \in Jobs : SF_vars(Settle(j))
-----------------------------------------------------------------------------
TypeOK ==
  /\ pending \in Seq(Jobs)
  /\ activeCount \in 0..Concurrency
  /\ {paused, steppedBack, threw} \subseteq BOOLEAN
  /\ drains \in [Drains -> {"none", "waiting", "resolved"}]
  /\ pushed \in 0..MaxJobs
  /\ priority \in [Jobs -> Priorities \cup {0}] /\ createdAt \in [Jobs -> Clock \cup {0}]
  /\ status \in [Jobs -> {"none", "pending", "started", "running", "processed", "lost"}]
  /\ stack \in Seq([fn : {"dequeue", "loop", "checkDrain"} \cup UserCode, job : 0..MaxJobs])
  /\ now \in Clock

\* A slot is taken by every job whose handler has been called and not settled, and
\* by no other: nested calls, failures and throwing callbacks never give a slot back
\* twice.  A handler that throws synchronously takes its slot with it for good.
SlotsAreTaken == activeCount = Cardinality(In("started") \cup In("running") \cup In("lost"))

\* When the queue's code has run out no job waits beside a free slot, unless the
\* queue is paused or user code threw in the middle of it.
NoIdleSlot ==
  stack = <<>> /\ ~paused /\ ~threw => (pending = <<>> \/ activeCount = Concurrency)

\* The two together: a slot is taken when, and only when, there is a job for it.
SlotsAreUsed == TypeOK /\ SlotsAreTaken /\ NoIdleSlot

\* "Pending jobs sorted by priority (lower first), then insertion order"
\* (queue.ts:98): so they are, as long as the clock is not set back.
LineIsOrdered ==
  \A i, k \in DOMAIN pending :
    i < k => LET a == pending[i]
                 b == pending[k]
             IN  \/ priority[a] < priority[b]
                 \/ priority[a] = priority[b] /\ (steppedBack \/ a < b)

\* drain() resolves only when nothing waits and nothing runs, not even a handler
\* on the call stack.
DrainIsTrue ==
  [][\A d \in Drains :
       drains[d] # "resolved" /\ drains'[d] = "resolved" =>
         In("pending") \cup In("started") \cup In("running") = {}]_vars

\* drain() resolves in the end when the queue is not left paused and user code
\* never throws into it.
DrainResolves ==
  \A d \in Drains :
    []~threw /\ <>[]~paused => (drains[d] = "waiting" ~> drains[d] = "resolved")

-----------------------------------------------------------------------------
\* What the comments promise and the code does not do.

\* "Pause the queue. Active jobs continue, but no new jobs are dequeued."
\* (queue.ts:83)
NothingStartsWhilePaused ==
  [][paused => \A j \in Jobs : status'[j] = "started" => status[j] = "started"]_vars
=============================================================================
