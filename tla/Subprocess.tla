----------------------------- MODULE Subprocess -----------------------------
(* Command.exec() and Command.spawn() of io/subprocess.ts, over the adapters of *)
(* runtime/adapters/subprocess.ts for the three runtimes: one child, and what   *)
(* its parent hears of it.                                                      *)
(*                                                                              *)
(* The child writes up to Chunks chunks and exits, or cannot be started; what   *)
(* it writes is captured.  The events and streams of the runtimes are external: *)
(* Node tells those who listen when something happens, and throws away what     *)
(* nobody has read once the child has exited; Deno and Bun keep the answer for  *)
(* who asks later.                                                              *)
EXTENDS Integers

CONSTANTS Chunks  \* bound on what a child writes

VARIABLES call,     \* the call: runtime, method and options
          child,    \* "none", "blocked" (does not take its input yet), "running", "exited", "closed" or "failed"
          written,  \* chunks the child has written
          killed,   \* whether it was sent a signal
          childTimer, \* "off", "on" or "fired"
          reader,   \* whether anybody reads and listens
          heard,    \* chunks the reader has got
          dropped,  \* chunks nobody got
          told      \* what the Task says: "none", "pending", "ok", "timeout", "error" or "crash"

childVars == <<child, written, killed>>
subprocessVars == <<call, childVars, childTimer, reader, heard, dropped, told>>

Calls == {c \in [runtime : {"deno", "bun", "node"}, method : {"exec", "spawn"}, stdin : BOOLEAN, timeout : BOOLEAN] :
            c.method = "spawn" => ~c.stdin /\ ~c.timeout}

IsExec == call.method = "exec"
ChildAlive == child \in {"blocked", "running"}
ByExecFile == call.runtime = "node" /\ IsExec /\ ~call.stdin

SubprocessInit ==
  /\ call \in Calls
  /\ child = "none" /\ written = 0 /\ killed = FALSE
  /\ childTimer = "off" /\ reader = FALSE /\ heard = 0 /\ dropped = 0
  /\ told = "none"
-----------------------------------------------------------------------------
(* The parent.                                                                  *)

\* The child is there, or cannot be started, and who listens does so at once unless "late".
Starts(now, late) ==
  /\ child' = now
  /\ childTimer' = IF call.timeout /\ ~late /\ now # "failed" THEN "on" ELSE "off"
  /\ reader' = ~late

Started == {"running", "failed"} \cup (IF call.stdin THEN {"blocked"} ELSE {})

\* exec() up to its first wait.  Node and Bun set the timer and listen in the step that
\* starts the child; Deno first writes the input, and may wait for the child to take it.
DenoExec == call.runtime = "deno" /\ \E now \in Started : Starts(now, now = "blocked")
BunExec == call.runtime = "bun" /\ \E now \in Started : Starts(now, FALSE)
NodeExec == call.runtime = "node" /\ \E now \in Started : Starts(now, FALSE)

Exec ==
  /\ IsExec /\ child = "none"
  /\ DenoExec \/ BunExec \/ NodeExec
  /\ told' = "pending"
  /\ UNCHANGED <<call, written, killed, heard, dropped>>

\* Deno's writer.write() has returned, and raceTimeout() begins.
Taken ==
  /\ IsExec /\ call.runtime = "deno" /\ ~reader
  /\ child \notin {"none", "blocked"}
  /\ reader' = TRUE
  /\ childTimer' = IF call.timeout THEN "on" ELSE "off"
  /\ UNCHANGED <<call, childVars, heard, dropped, told>>

\* spawn() answers with a handle and listens to nothing; with Deno and Bun it throws if
\* there is no child.
Spawn ==
  /\ ~IsExec /\ child = "none"
  /\ \/ child' = "running" /\ UNCHANGED told
     \/ child' = "failed" /\ told' = IF call.runtime = "node" THEN "none" ELSE "error"
  /\ UNCHANGED <<call, written, killed, childTimer, reader, heard, dropped>>

\* wait() of the handle, at any time after spawn().
WaitHandle ==
  /\ ~IsExec /\ child # "none" /\ told = "none"
  /\ told' = "pending" /\ reader' = TRUE
  /\ UNCHANGED <<call, childVars, childTimer, heard, dropped>>

\* kill() of the handle.
KillHandle ==
  /\ ~IsExec /\ ChildAlive /\ ~killed
  /\ killed' = TRUE
  /\ UNCHANGED <<call, child, written, childTimer, reader, heard, dropped, told>>

\* Mutant of TimesOut: the caller is told and the child left alone.
TimesOutKindly ==
  /\ childTimer = "on" /\ told = "pending" /\ childTimer' = "fired"
  /\ told' = "timeout"
  /\ UNCHANGED <<call, childVars, reader, heard, dropped>>

\* The timer.  execFile() stops reading, kills and answers when the child has closed; the
\* others kill and answer at once.  With an input Deno's adapter asks the Command for the kill() that only
\* its child has, and ignores the error.
TimesOut ==
  /\ childTimer = "on" /\ told = "pending" /\ childTimer' = "fired"
  /\ told' = IF ByExecFile THEN "pending" ELSE "timeout"
  /\ killed' = (killed \/ (ChildAlive /\ ~(call.runtime = "deno" /\ call.stdin)))
  /\ UNCHANGED <<call, child, written, reader, heard, dropped>>

GivenUp == ByExecFile /\ childTimer = "fired"

\* A chunk that has been written and is still there.
Hear ==
  /\ reader /\ ~GivenUp /\ heard + dropped < written
  /\ heard' = heard + 1
  /\ UNCHANGED <<call, childVars, childTimer, reader, dropped, told>>

\* What the exit makes of a call: execFile() says of a child it killed that it was too late,
\* unless its exit code is 0.
Verdicts == IF GivenUp THEN {"timeout", "ok"} ELSE {"ok"}

\* A child that has exited and whose output has been read, or dropped, closes.  Who listens
\* is told.
Closes ==
  /\ child = "exited" /\ child' = "closed"
  /\ heard + dropped = written \/ (~reader /\ call.runtime # "node")
  /\ told' \in (IF reader /\ told = "pending" THEN Verdicts ELSE {told})
  /\ childTimer' = IF childTimer = "on" THEN "off" ELSE childTimer
  /\ UNCHANGED <<call, written, killed, reader, heard, dropped>>

\* With Deno and Bun who asks later is told all the same.
ToldLater ==
  /\ call.runtime # "node" /\ child = "closed" /\ reader /\ told = "pending"
  /\ heard = written
  /\ told' = "ok" /\ childTimer' = "off"
  /\ UNCHANGED <<call, childVars, reader, heard, dropped>>

\* What could not be started: a call that waits is told; Node's error event ends the
\* process if nobody listens to it.
Refused ==
  /\ child = "failed" /\ told \in {"none", "pending"}
  /\ told' = IF told = "pending" THEN "error" ELSE "crash"
  /\ UNCHANGED <<call, childVars, childTimer, reader, heard, dropped>>
-----------------------------------------------------------------------------
(* The child.                                                                   *)

TakesInput ==
  /\ child = "blocked" /\ child' = "running"
  /\ UNCHANGED <<call, written, killed, childTimer, reader, heard, dropped, told>>

Writes ==
  /\ child = "running" /\ written < Chunks
  /\ written' = written + 1
  /\ UNCHANGED <<call, child, killed, childTimer, reader, heard, dropped, told>>

\* By itself or because it was killed.
Exits ==
  /\ child = "running" \/ (child = "blocked" /\ killed)
  /\ child' = "exited"
  /\ UNCHANGED <<call, written, killed, childTimer, reader, heard, dropped, told>>

\* Node reads what a dead child has left behind if nobody else does, and what execFile()
\* no longer reads is lost.
Drops ==
  /\ GivenUp \/ (call.runtime = "node" /\ child = "exited" /\ ~reader)
  /\ heard + dropped < written
  /\ dropped' = dropped + 1
  /\ UNCHANGED <<call, childVars, childTimer, reader, heard, told>>

SubprocessNext ==
  \/ Exec \/ Taken \/ Spawn \/ WaitHandle \/ KillHandle \/ TimesOut \/ Hear \/ Closes \/ ToldLater \/ Refused
  \/ TakesInput \/ Writes \/ Exits \/ Drops

SubprocessSpec == SubprocessInit /\ [][SubprocessNext]_subprocessVars

\* What the runtime does by itself, and a signal kills.  No child has to write or to exit.
RuntimeStep == Taken \/ Hear \/ Closes \/ ToldLater \/ Refused \/ Drops
FairSubprocess ==
  /\ SubprocessSpec
  /\ WF_subprocessVars(RuntimeStep) /\ WF_subprocessVars(TimesOut) /\ WF_subprocessVars(killed /\ Exits)
-----------------------------------------------------------------------------
\* A call that says ok has all that its child wrote, whatever came first of its chunks, its
\* exit and the timer.  The exceptions: a wait() that Node is asked for when the child has
\* exited, and a child that execFile() kills and that exits with 0 all the same.  A call
\* that says it timed out has killed its child, unless that had exited, and unless it was
\* Deno's with an input.
CallTells ==
  /\ told = "ok" => /\ heard + dropped = written
                    /\ (IsExec /\ ~GivenUp) \/ call.runtime # "node" => dropped = 0
  /\ told = "timeout" => killed \/ ~ChildAlive \/ (call.runtime = "deno" /\ call.stdin)

\* A call that waits when its child exits is answered, and with Deno and Bun one that
\* begins to wait later; so is a call with a timeout whatever its child does, as long as
\* signals kill: but not the call with an input that Deno's child does not take.
CallEnds ==
  /\ told = "pending"
  /\ \/ child = "exited" \/ (child = "closed" /\ call.runtime # "node")
     \/ call.timeout /\ ~(call.runtime = "deno" /\ call.stdin)
  ~> told # "pending"
=============================================================================
