------------------------------ MODULE Program ------------------------------
(***************************************************************************)
(* src/program.ts: run(), the life of a process around one effect.         *)
(*                                                                         *)
(* What the effect does is left to the module that extends this one: it    *)
(* conjoins EffectSettles with the step in which its own promise settles.  *)
(* That step, the continuation of run() with its finally and the exit      *)
(* follow each other without a turn of the event loop, so that no signal   *)
(* and no timer comes in between.  The state begins where run() awaits the *)
(* effect, its signal handlers registered.                                 *)
(***************************************************************************)
EXTENDS Integers

CONSTANTS Teardown,   \* options.teardownTimeoutMs is given
          MaxSignals  \* bound on the signals sent to the process

ASSUME ProgramAssumption == Teardown \in BOOLEAN /\ MaxSignals \in Nat

VARIABLES interrupted,    \* let interrupted; ac.signal.aborted is the same
          teardownTimer,  \* let teardownTimer is set
          exitCode,       \* of the process, or Alive
          cause,          \* history: what made it exit
          signals         \* history: number of signals delivered

programVars == <<interrupted, teardownTimer, exitCode, cause, signals>>

Alive == -1
Running == exitCode = Alive

ProgramInit ==
  /\ interrupted = FALSE /\ teardownTimer = FALSE
  /\ exitCode = Alive /\ cause = "none"
  /\ signals = 0

\* process.exit: nothing happens in the process after it.
Exit(code, why) == exitCode' = code /\ cause' = why

\* Mutant of OnSignal: the teardown timer is not started.
OnSignalUntimed ==
  /\ Running /\ signals < MaxSignals
  /\ signals' = signals + 1
  /\ UNCHANGED teardownTimer
  /\ IF interrupted
     THEN Exit(130, "second signal") /\ UNCHANGED interrupted
     ELSE interrupted' = TRUE /\ UNCHANGED <<exitCode, cause>>

\* onSignal: the first signal aborts and starts the timer, a second one exits.
OnSignal ==
  /\ Running /\ signals < MaxSignals
  /\ signals' = signals + 1
  /\ IF interrupted
     THEN Exit(130, "second signal") /\ UNCHANGED <<interrupted, teardownTimer>>
     ELSE interrupted' = TRUE /\ teardownTimer' = Teardown /\ UNCHANGED <<exitCode, cause>>

\* The teardown timer fires.
TeardownFires ==
  /\ Running /\ teardownTimer
  /\ Exit(130, "teardown")
  /\ UNCHANGED <<interrupted, teardownTimer, signals>>

\* The effect's promise settles: run() goes on to its end and exits.
EffectSettles(outcome) ==
  /\ Running
  /\ teardownTimer' = FALSE
  /\ Exit(IF outcome = "threw" THEN 1
          ELSE IF interrupted THEN 130
          ELSE IF outcome = "ok" THEN 0 ELSE 1, "settled")
  /\ UNCHANGED <<interrupted, signals>>

\* An exception or a rejection that nobody handles ends the process.
Uncaught == Running /\ Exit(1, "uncaught") /\ UNCHANGED <<interrupted, teardownTimer, signals>>

ProgramTypeOK ==
  /\ interrupted \in BOOLEAN /\ teardownTimer \in BOOLEAN
  /\ exitCode \in {Alive, 0, 1, 130}
  /\ cause \in {"none", "settled", "second signal", "teardown", "uncaught"}
  /\ signals \in 0..MaxSignals
=============================================================================
