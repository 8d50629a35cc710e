------------------------------ MODULE Machine ------------------------------
(* async/state-machine.ts: StateMachine, and a caller that keeps the state    *)
(* and the context it answers with.                                           *)
(*                                                                            *)
(* The context is the list of the hooks that have run.  Guards read what is   *)
(* outside of the machine: each call finds them open or not.                  *)
EXTENDS Naturals, FiniteSets, Sequences, SequencesExt

CONSTANTS Configs,    \* the machines: [initial, onExit, onEntry, transitions]
          Names,      \* the names of states and events that callers pass
          Inherited,  \* those of them that every object inherits
          MaxHooks    \* bound on the hooks that run

Transitions(states) == [to : states] \cup [target : states, guard : BOOLEAN, action : BOOLEAN]

ASSUME MachineAssumption ==
  \A c \in Configs : \A s \in DOMAIN c.transitions : \A e \in DOMAIN c.transitions[s] :
    c.transitions[s][e] \in Transitions(c.states)

VARIABLES config, \* the machine
          at,     \* the state the caller is in, and the context it holds
          asked   \* the last call, with its answer, or what it threw

machineVars == <<config, at, asked>>

Missing == [missing |-> TRUE]
Builtin == [builtin |-> TRUE]
Nowhere == "undefined"

\* table[name] of a plain object, and of a function that it inherits.
Lookup(table, name) ==
  IF table = Missing THEN Missing
  ELSE IF table # Builtin /\ name \in DOMAIN table THEN table[name]
  ELSE IF name \in Inherited THEN Builtin
  ELSE Missing

\* A transition is given as a name, or as an object; it is kept as the latter.
Normalized(events) ==
  [event \in DOMAIN events |->
     IF "to" \in DOMAIN events[event]
     THEN [target |-> events[event].to, guard |-> FALSE, action |-> FALSE]
     ELSE events[event]]

Table(c) == [state \in DOMAIN c.transitions |-> Normalized(c.transitions[state])]

Hook(kind, name) == <<kind, name>>
Runs(has, hook, ctx) == IF has THEN Append(ctx, hook) ELSE ctx

\* Mutant of Passage: the action before the state is left.
PassageActsFirst(c, from, event, acts, to, ctx) ==
  Runs(to \in c.onEntry, Hook("entry", to),
       Runs(from \in c.onExit, Hook("exit", from), Runs(acts, Hook("action", event), ctx)))

\* "Execute hooks in order: onExit(source) -> action -> onEntry(target)".
Passage(c, from, event, acts, to, ctx) ==
  Runs(to \in c.onEntry, Hook("entry", to),
       Runs(acts, Hook("action", event), Runs(from \in c.onExit, Hook("exit", from), ctx)))

\* An inherited function is an entry with no guard, no action and no target.
Resolve(c, state, ctx, event, open) ==
  LET entry == Lookup(Lookup(Table(c), state), event)
      real == entry \notin {Missing, Builtin}
      target == IF real THEN entry.target ELSE Nowhere
  IN  IF entry = Missing \/ (real /\ entry.guard /\ ~open) THEN [ok |-> FALSE, ctx |-> ctx]
      ELSE [ok |-> TRUE, state |-> target, ctx |-> Passage(c, state, event, real /\ entry.action, target, ctx)]

EventsOf(c, state) ==
  LET table == Lookup(Table(c), state) IN IF table \in {Missing, Builtin} THEN {} ELSE DOMAIN table

\* in looks at what is inherited, too.
CanTransition(c, state, event) ==
  LET table == Lookup(Table(c), state)
  IN  table # Missing /\ Lookup(table, event) # Missing

MachineInit ==
  /\ config \in Configs
  /\ at = [state |-> config.initial, ctx |-> <<>>]
  /\ asked = [event |-> "none"]

\* send(), and transition(), which throws where send() answers with an Err.  A caller goes
\* on with what it was answered.
Send(event, open) ==
  LET answer == Resolve(config, at.state, at.ctx, event, open)
  IN  /\ Len(at.ctx) < MaxHooks
      /\ asked' = [event |-> event, from |-> at, open |-> open, threw |-> FALSE, answer |-> answer]
      /\ at' = [state |-> IF answer.ok THEN answer.state ELSE at.state, ctx |-> answer.ctx]
      /\ UNCHANGED config

\* A guard or a hook throws, and send() and transition() with it: the caller is left with the
\* state and the context it had, whatever hooks have run before.
Breaks(event) ==
  /\ LET entry == Lookup(Lookup(Table(config), at.state), event)
     IN  \/ entry \notin {Missing, Builtin} /\ entry.guard
         \/ Resolve(config, at.state, at.ctx, event, TRUE).ctx # at.ctx
  /\ asked' = [event |-> event, from |-> at, open |-> TRUE, threw |-> TRUE, answer |-> [ok |-> FALSE, ctx |-> at.ctx]]
  /\ UNCHANGED <<config, at>>

MachineNext == \E event \in Names : Breaks(event) \/ \E open \in BOOLEAN : Send(event, open)
MachineSpec == MachineInit /\ [][MachineNext]_machineVars
-----------------------------------------------------------------------------
HooksOf(kind, name) == Cardinality({i \in DOMAIN at.ctx : at.ctx[i] = Hook(kind, name)})

\* "Execute hooks in order": however the calls follow each other, refused ones among them,
\* a state that has both hooks is left as often as it was entered, but for the one the
\* caller is in and the one it began in, as far as the context it holds tells; nothing runs
\* between its entry and its exit, and no action runs before the state is left.
HooksBalance ==
  /\ \A s \in config.onEntry \cap config.onExit :
       HooksOf("entry", s) + (IF s = config.initial THEN 1 ELSE 0)
         = HooksOf("exit", s) + (IF s = at.state THEN 1 ELSE 0)
  /\ \A i \in DOMAIN at.ctx :
       /\ i > 1 /\ at.ctx[i][1] = "exit" /\ at.ctx[i][2] \in config.onEntry => at.ctx[i - 1] = Hook("entry", at.ctx[i][2])
       /\ at.ctx[i][1] = "action" /\ DOMAIN config.transitions \subseteq config.onExit
            => i > 1 /\ at.ctx[i - 1][1] = "exit"

\* "Runtime safe transition ... Use when state/event come from external input": an event
\* that is accepted is one of those the machine answers events() with, and it leads to one
\* of its states; an event that is refused is none, or its guard was shut; and a call throws
\* by what the table has for the event.
SendFollowsTheTable ==
  asked.event # "none" =>
    LET valid == asked.event \in EventsOf(config, asked.from.state)
    IN  /\ asked.answer.ok => valid /\ asked.answer.state \in config.states
        /\ ~asked.answer.ok /\ valid => ~asked.open \/ asked.threw
        /\ asked.threw => valid
        /\ CanTransition(config, asked.from.state, asked.event) <=> valid

\* A machine answers by its table, and its hooks balance.
MachineIsTrue == HooksBalance /\ SendFollowsTheTable
=============================================================================
