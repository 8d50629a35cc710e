------------------------------ MODULE MCAsync ------------------------------
(***************************************************************************)
(* The parts of the program that run concurrently and must come to an end, *)
(* on small instances: each behaviour is one of the semaphore, of the      *)
(* channel, ... or of a server adapter.  They share nothing, so that only  *)
(* the subject moves.  The cfg files give the constants.                   *)
(***************************************************************************)
EXTENDS Semaphore, Channel, CircuitBreaker, Service, StreamPush, Task, Subprocess, ServerAdapters

CONSTANTS Subjects  \* those that are checked

VARIABLES subject

vars == <<subject, semaphoreVars, channelVars, circuitVars, programServiceVars,
          pushVars, taskVars, subprocessVars, serverVars, lambda>>
-----------------------------------------------------------------------------
\* Tasks: trees of combinators, the last node of which is run.
Leaf == [kind |-> "leaf", args |-> <<>>, catches |-> FALSE, hangs |-> FALSE, attempts |-> 3,
         backoff |-> "fixed", delay |-> 0, maxDelay |-> 5, jitter |-> FALSE]
Hang == [Leaf EXCEPT !.hangs = TRUE]
Combine(of, args) == [Leaf EXCEPT !.kind = of, !.args = args]
Try(n, b, d, j) == [Combine("policy", <<n>>) EXCEPT !.attempts = 4, !.backoff = b, !.delay = d, !.jitter = j]

SomeTrees == {
  <<Leaf, Combine("memoize", <<1>>), [Leaf EXCEPT !.catches = TRUE], Combine("zip", <<2, 3, 2>>)>>,
  <<Hang, Combine("timeout", <<1>>), Combine("retry", <<2>>), Combine("unwrapOr", <<3>>)>>,
  <<Leaf, Try(1, "exponential", 2, FALSE)>>,
  <<Leaf, Try(1, "linear", 1, TRUE), Combine("deadline", <<2>>)>>,
  <<Leaf, Combine("delay", <<1>>), [Combine("retry", <<2>>) EXCEPT !.attempts = 0], Combine("flatMap", <<3, 1>>)>>,
  <<Hang, Leaf, Combine("timeout", <<1>>), Combine("memoize", <<3>>), Combine("all", <<4, 2>>),
    Combine("map", <<5>>), Combine("race", <<6, 1>>)>>,
  <<Leaf, Leaf, Combine("allSettled", <<1, 2>>), [Combine("retry", <<1>>) EXCEPT !.attempts = 2],
    Combine("race", <<3, 4>>)>> }

\* all() of a task that hangs and one that may fail.
HangingAll == {<<Hang, Leaf, Combine("all", <<1, 2>>)>>}

\* Sources of streams, with errors among what they yield.
SomeScripts == {<<>>, <<"ok">>, <<"ok", "err", "ok">>}
-----------------------------------------------------------------------------
Init ==
  /\ subject \in Subjects
  /\ SemaphoreInit /\ ChannelInit /\ BreakerInit /\ ServiceInit
  /\ PushInit /\ (subject # "push" => kind = "merge" /\ scripts = <<>>)
  /\ TaskInit /\ (subject # "task" => tree = CHOOSE t \in Trees : TRUE)
  /\ SubprocessInit /\ (subject # "subprocess" => call = CHOOSE c \in Calls : TRUE)
  /\ ServerInit /\ (subject # "server" => served = "node")
  /\ LambdaInit

Next ==
  \/ subject = "semaphore" /\ SemaphoreNext
     /\ UNCHANGED <<subject, channelVars, circuitVars, programServiceVars, pushVars, taskVars, subprocessVars, serverVars, lambda>>
  \/ subject = "channel" /\ ChannelNext
     /\ UNCHANGED <<subject, semaphoreVars, circuitVars, programServiceVars, pushVars, taskVars, subprocessVars, serverVars, lambda>>
  \/ subject = "breaker" /\ BreakerNext
     /\ UNCHANGED <<subject, semaphoreVars, channelVars, programServiceVars, pushVars, taskVars, subprocessVars, serverVars, lambda>>
  \/ subject = "service" /\ ServiceNext
     /\ UNCHANGED <<subject, semaphoreVars, channelVars, circuitVars, pushVars, taskVars, subprocessVars, serverVars, lambda>>
  \/ subject = "push" /\ PushNext
     /\ UNCHANGED <<subject, semaphoreVars, channelVars, circuitVars, programServiceVars, taskVars, subprocessVars, serverVars, lambda>>
  \/ subject = "task" /\ TaskNext
     /\ UNCHANGED <<subject, semaphoreVars, channelVars, circuitVars, programServiceVars, pushVars, subprocessVars, serverVars, lambda>>
  \/ subject = "subprocess" /\ SubprocessNext
     /\ UNCHANGED <<subject, semaphoreVars, channelVars, circuitVars, programServiceVars, pushVars, taskVars, serverVars, lambda>>
  \/ subject = "server" /\ ServerNext
     /\ UNCHANGED <<subject, semaphoreVars, channelVars, circuitVars, programServiceVars, pushVars, taskVars, subprocessVars, lambda>>
  \* What may really stop: a service, a stream, a task, a process.
  \/ subject \in {"service", "push", "task", "subprocess", "server"} /\ UNCHANGED vars

\* What the eight modules call fair, of the one that moves.
Fairness ==
  /\ \A c \in Callers : /\ WF_semaphoreVars(subject = "semaphore" /\ Resume(c))
                        /\ WF_semaphoreVars(subject = "semaphore" /\ Release(c))
  /\ \A r \in Receivers : WF_channelVars(subject = "channel" /\ Receive(r))
  /\ WF_circuitVars(subject = "breaker" /\ Tick)
  /\ \A u \in Users : /\ WF_circuitVars(subject = "breaker" /\ Run(u))
                      /\ WF_circuitVars(subject = "breaker" /\ SeeRejection(u))
                      /\ SF_circuitVars(subject = "breaker" /\ Settle(u))
  /\ WF_programServiceVars(subject = "service" /\ Imported)
  /\ WF_programServiceVars(subject = "service" /\ Closed)
  /\ WF_programServiceVars(subject = "service" /\ Teardowns)
  /\ \A q \in Requests \ Hanging : WF_programServiceVars(subject = "service" /\ RequestStep(q))
  /\ WF_pushVars(subject = "push" /\ Flushes)
  /\ \A s \in 1..MaxStreams : WF_pushVars(subject = "push" /\ GoesOn(s))
  /\ \A e \in 1..MaxExecutions : WF_taskVars(subject = "task" /\ GoesForward(e))
  /\ WF_subprocessVars(subject = "subprocess" /\ RuntimeStep)
  /\ WF_subprocessVars(subject = "subprocess" /\ TimesOut)
  /\ WF_subprocessVars(subject = "subprocess" /\ killed /\ Exits)
  /\ WF_serverVars(subject = "server" /\ Serve)
  /\ WF_serverVars(subject = "server" /\ AllClosed)
  /\ \A q \in Exchanges : /\ WF_serverVars(subject = "server" /\ Handles(q))
                          /\ WF_serverVars(subject = "server" /\ WritesOn(q))

Spec == Init /\ [][Next]_vars
FairSpec == Spec /\ Fairness
-----------------------------------------------------------------------------
\* Whoever awaits a stream, a task, a child process or a server is answered, except as
\* the four modules say.
EveryCallSettles == AskSettles /\ TaskSettles /\ CallEnds /\ ServeEnds
=============================================================================
