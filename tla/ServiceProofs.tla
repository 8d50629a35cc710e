--------------------------- MODULE ServiceProofs ---------------------------
(***************************************************************************)
(* Service.tla for any number of requests, derivers and signals, with and  *)
(* without a teardown timeout: what an exit of the process says and what   *)
(* it leaves behind.  GracefulExit is not inductive by itself: the step    *)
(* that settles the effect must be known to find no connection open, which *)
(* WhyAndHow says of the one way in that does not look at them.  The       *)
(* second part is about ServerAdapters.tla, where ServerInv follows a      *)
(* response from its first chunk to its end; the third about               *)
(* Subprocess.tla, where SubprocessInv counts what a child has written;    *)
(* then Machine.tla, where MachineIInv knows the last hook, Ports.tla and  *)
(* Crypto.tla, what a program uses of its host, Nominal.tla and Lists.tla, *)
(* what may be shared because it never changes, and Router.tla.            *)
(***************************************************************************)
EXTENDS Service, ServerAdapters, Subprocess, Machine, Ports, Crypto, Nominal, Lists, Router, FiniteSetTheorems, TLAPS

USE ServiceAssumption, ProgramAssumption

LEMMA InitIInv == ServiceInit => ServiceInv
  <1> SUFFICES ASSUME ServiceInit PROVE ServiceInv
    OBVIOUS
  <1>1. ProgramTypeOK
    <2>1. interrupted = FALSE /\ teardownTimer = FALSE /\ cause = "none"
      BY DEF ServiceInit, ProgramInit
    <2>2. exitCode = Alive /\ signals \in 0..MaxSignals
      BY DEF ServiceInit, ProgramInit
    <2>3. QED
      BY <2>1, <2>2 DEF ProgramTypeOK
  <1>2. ServiceTypeOK
    BY <1>1 DEF ServiceInit, ServiceTypeOK
  <1>3. Open = {}
    BY DEF ServiceInit, Open, Connected, InUserCode
  <1>4. GracefulExit /\ WhyAndHow /\ DeriverLeft
    BY <1>3 DEF ServiceInit, ProgramInit, Running, GracefulExit, WhyAndHow, DeriverLeft
  <1>5. QED
    BY <1>2, <1>4 DEF ServiceInv

\* An error that nobody handles ends the process and leaves the rest alone.
LEMMA UncaughtIInv ==
  ASSUME ServiceInv, Uncaught, UNCHANGED serviceVars
  PROVE  ServiceInv'
  <1> USE DEF ServiceInv, Uncaught, Exit, serviceVars, Running, Alive
  <1>1. ServiceTypeOK'
    BY DEF ServiceTypeOK, ProgramTypeOK
  <1>2. Open' = Open
    BY DEF Open
  <1>3. GracefulExit' /\ WhyAndHow' /\ DeriverLeft'
    BY <1>2 DEF GracefulExit, WhyAndHow, DeriverLeft
  <1>4. QED
    BY <1>1, <1>3

\* The effect settles after a signal, with no connection left.
LEMMA ServedIInv ==
  ASSUME ServiceInv, Served, interrupted, Open = {}, UNCHANGED <<phase, derived, answeredBy>>
  PROVE  ServiceInv'
  <1>1. adapter' = "closed" /\ teardownTimer' = FALSE /\ cause' = "settled"
        /\ UNCHANGED <<interrupted, signals>>
    BY DEF Served, EffectSettles, Exit
  <1>2. exitCode' = 130
    BY DEF Served, EffectSettles, Exit
  <1>3. Open' = {}
    BY DEF Open
  <1>4. ServiceTypeOK'
    BY <1>1, <1>2 DEF ServiceInv, ServiceTypeOK, ProgramTypeOK
  <1>5. WhyAndHow'
    <2>1. ~Running'
      BY <1>2 DEF Running, Alive
    <2>2. QED
      BY <1>1, <1>2, <2>1 DEF WhyAndHow
  <1>6. GracefulExit' /\ DeriverLeft'
    BY <1>3 DEF ServiceInv, GracefulExit, DeriverLeft
  <1>7. QED
    BY <1>4, <1>5, <1>6 DEF ServiceInv

LEMMA ImportedIInv == ServiceInv /\ Imported => ServiceInv'
  <1> SUFFICES ASSUME ServiceInv, Imported PROVE ServiceInv'
    OBVIOUS
  <1>1. CASE interrupted
    BY <1>1, ServedIInv DEF Imported, ServiceInv, WhyAndHow
  <1>2. CASE ~interrupted
    <2>1. /\ Running /\ adapter' = "listening"
          /\ UNCHANGED <<programVars, phase, derived, answeredBy>>
      BY <1>2 DEF Imported
    <2>2. ServiceTypeOK'
      BY <2>1 DEF ServiceInv, ServiceTypeOK, ProgramTypeOK, programVars
    <2>3. WhyAndHow'
      BY <1>2, <2>1 DEF ServiceInv, WhyAndHow, programVars, Running
    <2>4. GracefulExit' /\ DeriverLeft'
      BY <2>1 DEF ServiceInv, WhyAndHow, GracefulExit, DeriverLeft, programVars
    <2>5. QED
      BY <2>2, <2>3, <2>4 DEF ServiceInv
  <1>3. QED
    BY <1>1, <1>2

LEMMA ClosedIInv == ServiceInv /\ Closed => ServiceInv'
  BY ServedIInv DEF Closed, ServiceInv, WhyAndHow

LEMMA SignalIInv == ServiceInv /\ Signal => ServiceInv'
  <1> SUFFICES ASSUME ServiceInv, Signal PROVE ServiceInv'
    OBVIOUS
  <1>1. Running /\ signals' \in 0..MaxSignals /\ UNCHANGED <<phase, derived, answeredBy>>
    <2>1. /\ Running /\ signals < MaxSignals /\ signals' = signals + 1
          /\ UNCHANGED <<phase, derived, answeredBy>>
      BY DEF Signal, OnSignal
    <2>2. signals \in 0..MaxSignals
      BY DEF ServiceInv, ServiceTypeOK, ProgramTypeOK
    <2>3. QED
      BY <2>1, <2>2
  <1>2. Open' = Open
    BY <1>1 DEF Open
  <1>3. CASE interrupted
    <2>1. exitCode' = 130 /\ cause' = "second signal" /\ UNCHANGED <<interrupted, teardownTimer, adapter>>
      BY <1>3 DEF Signal, OnSignal, Exit
    <2>2. ServiceTypeOK'
      BY <1>1, <2>1 DEF ServiceInv, ServiceTypeOK, ProgramTypeOK
    <2>3. WhyAndHow'
      <3>0. exitCode' = 130
        BY <2>1
      <3>1. ~Running'
        BY <3>0 DEF Running, Alive
      <3>2. interrupted'
        BY <1>3, <2>1
      <3>3. adapter' = "importing" => Open' = {}
        BY <1>2, <2>1 DEF ServiceInv, WhyAndHow
      <3>4. QED
        BY <2>1, <3>1, <3>2, <3>3 DEF WhyAndHow
    <2>4. GracefulExit' /\ DeriverLeft'
      BY <1>1, <2>1 DEF ServiceInv, GracefulExit, DeriverLeft
    <2>5. QED
      BY <2>2, <2>3, <2>4 DEF ServiceInv
  <1>4. CASE ~interrupted
    <2>1. interrupted' = TRUE /\ teardownTimer' = Teardown /\ UNCHANGED <<exitCode, cause>>
      BY <1>4 DEF Signal, OnSignal
    <2>2. adapter' = "closing" \/ adapter' = adapter
      BY DEF Signal, CloseServer
    <2>3. ServiceTypeOK'
      BY <1>1, <2>1, <2>2 DEF ServiceInv, ServiceTypeOK, ProgramTypeOK
    <2>4. WhyAndHow'
      <3>1. cause = "none" /\ Running'
        BY <1>1, <2>1 DEF ServiceInv, WhyAndHow, Running
      <3>2. adapter' = "importing" => Open' = {}
        BY <1>2, <2>2 DEF ServiceInv, WhyAndHow
      <3>3. QED
        BY <2>1, <3>1, <3>2 DEF WhyAndHow
    <2>5. GracefulExit' /\ DeriverLeft'
      BY <1>1, <1>2, <2>1 DEF ServiceInv, GracefulExit, DeriverLeft
    <2>6. QED
      BY <2>3, <2>4, <2>5 DEF ServiceInv
  <1>5. QED
    BY <1>3, <1>4

LEMMA TeardownsIInv == ServiceInv /\ Teardowns => ServiceInv'
  <1> SUFFICES ASSUME ServiceInv, Teardowns PROVE ServiceInv'
    OBVIOUS
  <1> USE DEF ServiceInv, Teardowns, TeardownFires, Exit, serviceVars, Running, Alive
  <1>1. ServiceTypeOK'
    BY DEF ServiceTypeOK, ProgramTypeOK
  <1>2. Open' = Open
    BY DEF Open
  <1>3. GracefulExit' /\ WhyAndHow' /\ DeriverLeft'
    BY <1>2 DEF GracefulExit, WhyAndHow, DeriverLeft
  <1>4. QED
    BY <1>1, <1>3

-----------------------------------------------------------------------------
\* A step of a request, in a process that runs and goes on running.  Only a
\* listening server, or one that was told to close, has connections.
LEMMA RequestMoves ==
  ASSUME ServiceInv, NEW r \in Requests, Running, UNCHANGED <<programVars, adapter>>,
         adapter # "importing", ServiceTypeOK', DeriverLeft'
  PROVE  ServiceInv'
  BY DEF ServiceInv, GracefulExit, WhyAndHow, programVars, Running, Alive

LEMMA OpenIsServed ==
  ASSUME ServiceInv, NEW r \in Requests, phase[r] \in Connected
  PROVE  adapter # "importing"
  BY DEF ServiceInv, WhyAndHow, Open

LEMMA ConnectIInv == ASSUME NEW r \in Requests, ServiceInv, Connect(r) PROVE ServiceInv'
  <1> USE DEF Connect, Moves, programVars
  <1>1. ServiceTypeOK'
    BY DEF ServiceInv, ServiceTypeOK, ProgramTypeOK, Connected
  <1>2. DeriverLeft'
    BY DEF ServiceInv, DeriverLeft, ServiceTypeOK
  <1>3. QED
    BY <1>1, <1>2, RequestMoves

LEMMA ClientLeavesIInv == ASSUME NEW r \in Requests, ServiceInv, ClientLeaves(r) PROVE ServiceInv'
  <1> USE DEF ClientLeaves, Moves, programVars
  <1>1. ServiceTypeOK'
    BY DEF ServiceInv, ServiceTypeOK, ProgramTypeOK
  <1>2. DeriverLeft'
    BY DEF ServiceInv, DeriverLeft, ServiceTypeOK
  <1>3. QED
    BY <1>1, <1>2, RequestMoves, OpenIsServed DEF Open

LEMMA BodyEndsIInv == ASSUME NEW r \in Requests, ServiceInv, BodyEnds(r) PROVE ServiceInv'
  <1> USE DEF BodyEnds, Moves, programVars
  <1>1. ServiceTypeOK'
    BY DEF ServiceInv, ServiceTypeOK, ProgramTypeOK, Connected, InUserCode
  <1>2. DeriverLeft'
    BY DEF ServiceInv, DeriverLeft, ServiceTypeOK
  <1>3. QED
    BY <1>1, <1>2, RequestMoves, OpenIsServed DEF Connected

LEMMA WrittenIInv == ASSUME NEW r \in Requests, ServiceInv, Written(r) PROVE ServiceInv'
  <1> USE DEF Written, Moves, programVars
  <1>1. ServiceTypeOK'
    BY DEF ServiceInv, ServiceTypeOK, ProgramTypeOK
  <1>2. DeriverLeft'
    BY DEF ServiceInv, DeriverLeft, ServiceTypeOK
  <1>3. QED
    BY <1>1, <1>2, RequestMoves, OpenIsServed DEF Connected

\* The end of a request in user code, with a response or with a plain 500.
LEMMA UserCodeAnswers ==
  ASSUME NEW r \in Requests, ServiceInv, UNCHANGED <<programVars, adapter, derived>>,
         NEW from \in Errors \cup {"middleware", "handler"},
         Responds(r, from) \/ Rejects(r)
  PROVE  ServiceTypeOK' /\ DeriverLeft'
  <1> USE DEF Responds, Rejects, Moves, programVars
  <1>0. answeredBy' \in [Requests -> Errors \cup {"none", "middleware", "handler", "plain 500"}]
    BY DEF ServiceInv, ServiceTypeOK
  <1>a. phase' \in [Requests -> Connected \cup {"none", "answered", "gone"}]
    BY DEF ServiceInv, ServiceTypeOK, Connected
  <1>1. ServiceTypeOK'
    BY <1>0, <1>a DEF ServiceInv, ServiceTypeOK, ProgramTypeOK
  <1>2. DeriverLeft'
    BY DEF ServiceInv, DeriverLeft, ServiceTypeOK
  <1>3. QED
    BY <1>1, <1>2

\* The way on to the next deriver or to the handler.
LEMMA UserCodeProceeds ==
  ASSUME NEW r \in Requests, ServiceInv, UNCHANGED <<programVars, adapter>>,
         \E done \in 0..Derivers : Proceeds(r, done)
  PROVE  ServiceTypeOK' /\ DeriverLeft'
  <1>0. PICK done \in 0..Derivers : Proceeds(r, done)
    OBVIOUS
  <1> USE <1>0 DEF Proceeds, Moves, programVars
  <1>1. ServiceTypeOK'
    BY DEF ServiceInv, ServiceTypeOK, ProgramTypeOK, Connected, InUserCode
  <1>2. DeriverLeft'
    <2> SUFFICES ASSUME NEW q \in Requests, phase'[q] = "deriving" PROVE derived'[q] < Derivers
      BY DEF DeriverLeft
    <2>1. CASE q = r
      <3>1. derived'[q] = done /\ done # Derivers
        BY <2>1 DEF ServiceInv, ServiceTypeOK
      <3>2. QED
        BY <3>1
    <2>2. CASE q # r
      BY <2>2 DEF ServiceInv, ServiceTypeOK, DeriverLeft
    <2>3. QED
      BY <2>1, <2>2
  <1>3. QED
    BY <1>1, <1>2

LEMMA UserCodeSettlesIInv == ASSUME NEW r \in Requests, ServiceInv, UserCodeSettles(r) PROVE ServiceInv'
  <1>1. Running /\ UNCHANGED <<programVars, adapter>>
    BY DEF UserCodeSettles
  <1>2. adapter # "importing"
    BY OpenIsServed DEF UserCodeSettles, Middleware, Derive, Handle, Connected, InUserCode
  <1> SUFFICES ServiceTypeOK' /\ DeriverLeft'
    BY <1>1, <1>2, RequestMoves
  <1>3. CASE Middleware(r)
    <2>1. CASE UNCHANGED derived /\ \E e \in Errors \cup {"middleware"} : Responds(r, e) \/ Rejects(r)
      BY <1>1, <2>1, UserCodeAnswers
    <2>2. CASE Proceeds(r, 0)
      <3>1. \E done \in 0..Derivers : Proceeds(r, done)
        BY <2>2
      <3>2. QED
        BY <1>1, <3>1, UserCodeProceeds
    <2>3. QED
      BY <1>3, <2>1, <2>2 DEF Middleware, Fails
  <1>4. CASE Derive(r)
    <2>1. CASE UNCHANGED derived /\ (Responds(r, "HandlerError") \/ Rejects(r))
      BY <1>1, <2>1, UserCodeAnswers DEF Errors
    <2>2. CASE Proceeds(r, derived[r] + 1)
      <3>1. derived[r] \in 0..Derivers
        BY DEF ServiceInv, ServiceTypeOK
      <3>2. derived[r] < Derivers
        BY <1>4 DEF Derive, ServiceInv, DeriverLeft
      <3>3. PICK done \in 0..Derivers : done = derived[r] + 1
        BY <3>1, <3>2
      <3>4. Proceeds(r, done)
        BY <2>2, <3>3 DEF Proceeds
      <3>5. QED
        BY <1>1, <3>4, UserCodeProceeds
    <2>3. QED
      BY <1>4, <2>1, <2>2 DEF Derive, Fails
  <1>5. CASE Handle(r)
    <2>1. UNCHANGED derived /\ \E e \in {"handler", "HandlerError"} : Responds(r, e) \/ Rejects(r)
      BY <1>5 DEF Handle, Fails
    <2>2. QED
      BY <1>1, <2>1, UserCodeAnswers DEF Errors
  <1>6. QED
    BY <1>3, <1>4, <1>5 DEF UserCodeSettles

-----------------------------------------------------------------------------
LEMMA NextIInv == ServiceInv /\ [ServiceNext]_programServiceVars => ServiceInv'
  <1> SUFFICES ASSUME ServiceInv, [ServiceNext]_programServiceVars PROVE ServiceInv'
    OBVIOUS
  <1>1. CASE UNCHANGED programServiceVars
    <2>1. /\ UNCHANGED <<interrupted, teardownTimer, exitCode, signals, cause>>
          /\ UNCHANGED <<adapter, phase, derived, answeredBy>>
      BY <1>1 DEF programServiceVars, programVars, serviceVars
    <2>2. Open' = Open /\ Running' = Running
      BY <2>1 DEF Open, Running
    <2>3. ServiceTypeOK'
      BY <2>1 DEF ServiceInv, ServiceTypeOK, ProgramTypeOK
    <2>4. GracefulExit' /\ DeriverLeft'
      BY <2>1, <2>2 DEF ServiceInv, GracefulExit, DeriverLeft
    <2>5. WhyAndHow'
      BY <2>1, <2>2 DEF ServiceInv, WhyAndHow
    <2>6. QED
      BY <2>3, <2>4, <2>5 DEF ServiceInv
  <1>2. CASE Imported \/ Closed \/ Signal \/ Teardowns
    BY <1>2, ImportedIInv, ClosedIInv, SignalIInv, TeardownsIInv
  <1>3. CASE ListenFails
    BY <1>3, UncaughtIInv DEF ListenFails
  <1>4. ASSUME NEW r \in Requests,
               Connect(r) \/ ClientLeaves(r) \/ RequestStep(r) \/ Unbuildable(r) \/ ResponseFails(r)
        PROVE  ServiceInv'
    <2>1. CASE Connect(r) \/ ClientLeaves(r)
      BY <2>1, ConnectIInv, ClientLeavesIInv
    <2>2. CASE RequestStep(r)
      BY <2>2, BodyEndsIInv, UserCodeSettlesIInv, WrittenIInv DEF RequestStep
    <2>3. CASE Unbuildable(r) \/ ResponseFails(r)
      BY <2>3, UncaughtIInv DEF Unbuildable, ResponseFails
    <2>4. QED
      BY <1>4, <2>1, <2>2, <2>3
  <1>5. QED
    BY <1>1, <1>2, <1>3, <1>4 DEF ServiceNext

\* The inductive invariant holds in every reachable state.
THEOREM Invariance == ServiceSpec => []ServiceInv
  <1>1. ServiceInit => ServiceInv
    BY InitIInv
  <1>2. ServiceInv /\ [ServiceNext]_programServiceVars => ServiceInv'
    BY NextIInv
  <1>3. QED
    BY <1>1, <1>2, PTL DEF ServiceSpec

\* Every reachable state is well typed; in particular runDerivers of server.ts never
\* goes past the last deriver.
THEOREM Typing == ServiceSpec => []ServiceTypeOK
  <1>1. ServiceInv => ServiceTypeOK
    BY DEF ServiceInv
  <1>2. QED
    BY <1>1, Invariance, PTL

\* Whenever run() exits because its effect settled, nobody who got in is left
\* without an answeredBy: serve() of server.ts and run() of program.ts together.
THEOREM NobodyLeft == ServiceSpec => []GracefulExit
  <1>1. ServiceInv => GracefulExit
    BY DEF ServiceInv
  <1>2. QED
    BY <1>1, Invariance, PTL

\* The exit code tells whether the service was told to stop, whichever of the ways
\* out of run() was taken and however they raced.
THEOREM HonestExit == ServiceSpec => []ExitTells
  <1>1. ServiceInv => ExitTells
    BY DEF ServiceInv, WhyAndHow, ExitTells, ServiceTypeOK, ProgramTypeOK
  <1>2. QED
    BY <1>1, Invariance, PTL

\* The promises about the ends of a service together, with its type correctness.
THEOREM Ended == ServiceSpec => []EndsAreTold
  <1>1. ServiceTypeOK /\ GracefulExit /\ ExitTells => EndsAreTold
    BY DEF EndsAreTold
  <1>2. QED
    BY <1>1, Typing, NobodyLeft, HonestExit, PTL

-----------------------------------------------------------------------------
(* Server adapters.                                                             *)

Exchange == [at : {"none", "crashed", "handling", "writing", "unhandled", "ended"},
             body : {"none", "open", "closed", "errored"}, status : {0, 200, 500}, chunks : Nat,
             breaks : BOOLEAN, head : {0, 200, 500}, wrote : Nat, left : BOOLEAN]

LEMMA AtSet == \A e \in Exchange : \A x \in {"none", "crashed", "handling", "writing", "unhandled", "ended"} : [e EXCEPT !.at = x] \in Exchange
  BY DEF Exchange
LEMMA BodySet == \A e \in Exchange : \A x \in {"none", "open", "closed", "errored"} : [e EXCEPT !.body = x] \in Exchange
  BY DEF Exchange
LEMMA StatusSet == \A e \in Exchange : \A x \in {0, 200, 500} : [e EXCEPT !.status = x] \in Exchange
  BY DEF Exchange
LEMMA HeadSet == \A e \in Exchange : \A x \in {0, 200, 500} : [e EXCEPT !.head = x] \in Exchange
  BY DEF Exchange
LEMMA ChunksSet == \A e \in Exchange : \A x \in Nat : [e EXCEPT !.chunks = x] \in Exchange
  BY DEF Exchange
LEMMA BreaksSet == \A e \in Exchange : \A x \in BOOLEAN : [e EXCEPT !.breaks = x] \in Exchange
  BY DEF Exchange
LEMMA LeftSet == \A e \in Exchange : \A x \in BOOLEAN : [e EXCEPT !.left = x] \in Exchange
  BY DEF Exchange

\* How far an exchange has got is what it has written.
Proceeded(e) ==
  /\ e.head = e.status /\ e.wrote <= e.chunks
  /\ e.at \in {"none", "crashed", "handling"} <=> e.head = 0
  /\ e.head = 0 => e.wrote = 0 /\ e.chunks = 0 /\ ~e.breaks
  /\ e.at = "ended" => e.wrote = e.chunks /\ ~e.breaks

ServerTypeOK ==
  /\ served \in Adapters /\ aborted \in BOOLEAN
  /\ server \in {"off", "listening", "failed", "closing", "closed"}
  /\ promise \in {"pending", "resolved", "rejected"}
  /\ exchange \in [Exchanges -> Exchange]

\* A server that does not listen yet has no exchanges; serve() has returned when it is closed.
ServerInv ==
  /\ ServerTypeOK
  /\ \A r \in Exchanges : Proceeded(exchange[r])
  /\ server \in {"off", "failed"} => \A r \in Exchanges : exchange[r].at = "none"
  /\ promise = "resolved" => server = "closed"
  /\ ServeWaits

\* A step of one exchange, that becomes e and is not underway unless the server may be.
LEMMA ExchangeInv ==
  ASSUME ServerInv, NEW r \in Exchanges, NEW e \in Exchange, Becomes(r, e), Proceeded(e),
         server \in {"off", "failed"} => e.at = "none",
         server # "closed" \/ Underway(r) \/ e.at \in {"none", "ended"} \/ e.left
  PROVE  ServerInv'
<1>1. /\ exchange' \in [Exchanges -> Exchange] /\ exchange'[r] = e
      /\ \A q \in Exchanges \ {r} : exchange'[q] = exchange[q]
      /\ UNCHANGED <<served, server, aborted, promise>>
  BY DEF Becomes, ServerInv, ServerTypeOK
<1>2. ServerTypeOK'
  BY <1>1 DEF ServerInv, ServerTypeOK
<1>3. (\A q \in Exchanges : Proceeded(exchange[q]))'
  BY <1>1 DEF ServerInv, Proceeded
<1>4. (server \in {"off", "failed"} => \A q \in Exchanges : exchange[q].at = "none")'
  BY <1>1 DEF ServerInv
<1>5. ServeWaits'
  <2> SUFFICES ASSUME promise = "resolved", served # "bun", NEW q \in Exchanges
               PROVE  ~Underway(q)'
    BY <1>1 DEF ServeWaits
  <2>1. server = "closed" /\ \A p \in Exchanges : ~Underway(p)
    BY DEF ServerInv, ServeWaits
  <2> QED BY <1>1, <2>1 DEF Underway
<1> QED BY <1>1, <1>2, <1>3, <1>4, <1>5 DEF ServerInv

LEMMA StepsOfExchanges ==
  ASSUME ServerInv, NEW r \in Exchanges,
         \/ \E hasBody \in BOOLEAN : Accept(r, hasBody)
         \/ EndOfBody(r) \/ ClientGoes(r) \/ HandlerFails(r) \/ WritesOn(r)
         \/ \E chunks \in 0..MaxChunks, breaks \in BOOLEAN : HandlerAnswers(r, 200, chunks, breaks)
  PROVE  ServerInv'
<1>0. PICK was \in Exchange : was = exchange[r] /\ Proceeded(was)
  BY DEF ServerInv, ServerTypeOK
<1>a. server \in {"off", "failed"} => was.at = "none"
  BY <1>0 DEF ServerInv
<1>b. was.left \in BOOLEAN /\ was.body \in {"none", "open", "closed", "errored"}
  BY <1>0 DEF Exchange
<1>c. 0..MaxChunks \subseteq Nat
  BY ServerAssumption
<1>1. ASSUME NEW hasBody \in BOOLEAN, Accept(r, hasBody) PROVE ServerInv'
  <2>1. server = "listening" /\ was.at = "none"
    BY <1>0, <1>1 DEF Accept
  <2>2. CASE hasBody /\ NeedsDuplex
    <3>1. PICK e \in Exchange : e = [was EXCEPT !.at = "crashed"]
      <4>1. [was EXCEPT !.at = "crashed"] \in Exchange
        BY <1>0 DEF Exchange
      <4> QED BY <4>1
    <3>2. Becomes(r, e)
      BY <1>0, <1>1, <2>2, <3>1 DEF Accept
    <3>3. Proceeded(e)
      BY <1>0, <2>1, <3>1 DEF Exchange, Proceeded
    <3> QED BY <2>1, <3>2, <3>3, ExchangeInv
  <2>3. CASE ~(hasBody /\ NeedsDuplex)
    <3>1. PICK body \in {"none", "open"} : body = IF hasBody THEN "open" ELSE "none"
      OBVIOUS
    <3>2. PICK e \in Exchange : e = [was EXCEPT !.at = "handling", !.body = body]
      <4>1. PICK f \in Exchange : f = [was EXCEPT !.at = "handling"]
        BY AtSet
      <4>2. PICK g \in Exchange : g = [f EXCEPT !.body = body]
        BY BodySet
      <4>3. g = [was EXCEPT !.at = "handling", !.body = body]
        BY <4>1, <4>2 DEF Exchange
      <4> QED BY <4>3
    <3>3. Becomes(r, e)
      BY <1>0, <1>1, <2>3, <3>1, <3>2 DEF Accept
    <3>4. Proceeded(e)
      <4>1. e \in Exchange
        BY <1>0, <3>2 DEF Exchange
      <4>2. /\ e.at = "handling" /\ e.head = was.head /\ e.status = was.status /\ e.wrote = was.wrote
            /\ e.chunks = was.chunks /\ e.breaks = was.breaks
        BY <1>0, <3>2 DEF Exchange
      <4> QED BY <1>0, <2>1, <4>1, <4>2 DEF Proceeded
    <3> QED BY <2>1, <3>3, <3>4, ExchangeInv
  <2> QED BY <2>2, <2>3
<1>2. CASE EndOfBody(r)
  <2>1. PICK e \in Exchange : e = [was EXCEPT !.body = "closed"]
    <3>1. [was EXCEPT !.body = "closed"] \in Exchange
      BY <1>0 DEF Exchange
    <3> QED BY <3>1
  <2>2. Becomes(r, e)
    BY <1>0, <1>2, <2>1 DEF EndOfBody
  <2>3. Proceeded(e) /\ e.at = was.at /\ e.left = was.left
    BY <1>0, <2>1 DEF Exchange, Proceeded
  <2> QED BY <1>0, <1>a, <2>2, <2>3, ExchangeInv DEF Underway
<1>3. CASE ClientGoes(r)
  <2>1. PICK body \in {"none", "open", "closed", "errored"} : body = IF was.body = "open" THEN "errored" ELSE was.body
    BY <1>b
  <2>2. PICK e \in Exchange : e = [was EXCEPT !.left = TRUE, !.body = body]
    <3>1. PICK f \in Exchange : f = [was EXCEPT !.left = TRUE]
      BY LeftSet
    <3>2. PICK g \in Exchange : g = [f EXCEPT !.body = body]
      BY BodySet
    <3>3. g = [was EXCEPT !.left = TRUE, !.body = body]
      BY <3>1, <3>2 DEF Exchange
    <3> QED BY <3>3
  <2>3. Becomes(r, e)
    BY <1>0, <1>3, <2>1, <2>2 DEF ClientGoes
  <2>4. Proceeded(e) /\ e.at = was.at /\ e.left
    BY <1>0, <2>2 DEF Exchange, Proceeded
  <2> QED BY <1>0, <1>a, <2>3, <2>4, ExchangeInv
<1>4. CASE HandlerFails(r)
  <2>0. PICK code \in {0, 200, 500} : code = 500
    OBVIOUS
  <2>1. PICK e \in Exchange : e = [was EXCEPT !.at = "ended", !.head = code, !.status = code]
    <3>1. PICK f \in Exchange : f = [was EXCEPT !.at = "ended"]
      BY AtSet
    <3>2. [f EXCEPT !.head = code] \in Exchange
      BY DEF Exchange
    <3>3. PICK g \in Exchange : g = [f EXCEPT !.head = code]
      BY <3>2
    <3>4. [g EXCEPT !.status = code] \in Exchange
      BY DEF Exchange
    <3>5. [g EXCEPT !.status = code] = [was EXCEPT !.at = "ended", !.head = code, !.status = code]
      BY <3>1, <3>3 DEF Exchange
    <3> QED BY <3>4, <3>5
  <2>2. Becomes(r, e) /\ was.at = "handling"
    BY <1>0, <1>4, <2>0, <2>1 DEF HandlerFails
  <2>3. Proceeded(e) /\ e.at = "ended"
    BY <1>0, <2>0, <2>1, <2>2 DEF Exchange, Proceeded
  <2> QED BY <1>0, <1>a, <2>2, <2>3, ExchangeInv
<1>5. CASE WritesOn(r)
  <2>1. was.at = "writing" /\ was.head # 0
    BY <1>0, <1>5 DEF WritesOn, Proceeded
  <2>2. CASE was.wrote < was.chunks
    <3>1. PICK e \in Exchange : e = [was EXCEPT !.wrote = @ + 1]
      <4>1. [was EXCEPT !.wrote = @ + 1] \in Exchange
        BY <1>0 DEF Exchange
      <4> QED BY <4>1
    <3>2. Becomes(r, e)
      BY <1>0, <1>5, <2>2, <3>1 DEF WritesOn
    <3>3. Proceeded(e) /\ e.at = was.at /\ e.left = was.left
      BY <1>0, <2>1, <2>2, <3>1 DEF Exchange, Proceeded
    <3> QED BY <1>0, <1>a, <3>2, <3>3, ExchangeInv DEF Underway
  <2>3. CASE ~(was.wrote < was.chunks) /\ was.breaks
    <3>1. PICK e \in Exchange : e = [was EXCEPT !.at = "unhandled"]
      <4>1. [was EXCEPT !.at = "unhandled"] \in Exchange
        BY <1>0 DEF Exchange
      <4> QED BY <4>1
    <3>2. Becomes(r, e)
      BY <1>0, <1>5, <2>3, <3>1 DEF WritesOn
    <3>3. Proceeded(e) /\ e.left = was.left
      BY <1>0, <2>1, <2>3, <3>1 DEF Exchange, Proceeded
    <3> QED BY <1>0, <1>a, <2>1, <3>2, <3>3, ExchangeInv DEF Underway
  <2>4. CASE ~(was.wrote < was.chunks) /\ ~was.breaks
    <3>1. PICK e \in Exchange : e = [was EXCEPT !.at = "ended"]
      <4>1. [was EXCEPT !.at = "ended"] \in Exchange
        BY <1>0 DEF Exchange
      <4> QED BY <4>1
    <3>2. Becomes(r, e)
      BY <1>0, <1>5, <2>4, <3>1 DEF WritesOn
    <3>3. Proceeded(e) /\ e.at = "ended"
      BY <1>0, <2>1, <2>4, <3>1 DEF Exchange, Proceeded
    <3> QED BY <1>0, <1>a, <2>1, <3>2, <3>3, ExchangeInv
  <2> QED BY <2>2, <2>3, <2>4
<1>6. ASSUME NEW chunks \in 0..MaxChunks, NEW breaks \in BOOLEAN, HandlerAnswers(r, 200, chunks, breaks)
      PROVE  ServerInv'
  <2>1. PICK place \in {"ended", "writing"} : place = IF chunks = 0 /\ ~breaks THEN "ended" ELSE "writing"
    OBVIOUS
  <2>2. PICK e \in Exchange : e = [was EXCEPT !.at = place, !.head = 200, !.status = 200, !.chunks = chunks, !.breaks = breaks]
    <3>1. PICK f \in Exchange : f = [was EXCEPT !.at = place]
      BY AtSet
    <3>2. PICK g \in Exchange : g = [f EXCEPT !.head = 200]
      BY HeadSet
    <3>3. PICK h \in Exchange : h = [g EXCEPT !.status = 200]
      BY StatusSet
    <3>4. PICK i \in Exchange : i = [h EXCEPT !.chunks = chunks]
      BY <1>c, ChunksSet
    <3>5. PICK j \in Exchange : j = [i EXCEPT !.breaks = breaks]
      BY BreaksSet
    <3>6. j = [was EXCEPT !.at = place, !.head = 200, !.status = 200, !.chunks = chunks, !.breaks = breaks]
      BY <3>1, <3>2, <3>3, <3>4, <3>5 DEF Exchange
    <3> QED BY <3>6
  <2>3. Becomes(r, e) /\ was.at = "handling"
    BY <1>0, <1>6, <2>1, <2>2 DEF HandlerAnswers
  <2>4. Proceeded(e) /\ e.left = was.left
    BY <1>0, <1>6, <1>c, <2>1, <2>2, <2>3 DEF Exchange, Proceeded
  <2> QED BY <1>0, <1>a, <2>3, <2>4, ExchangeInv DEF Underway
<1> QED BY <1>0, <1>1, <1>2, <1>3, <1>4, <1>5, <1>6

LEMMA ServerInitInv == ServerInit => ServerInv
<1> SUFFICES ASSUME ServerInit PROVE ServerInv
  OBVIOUS
<1>1. Fresh \in Exchange /\ Proceeded(Fresh) /\ Fresh.at = "none"
  BY DEF Fresh, Exchange, Proceeded
<1>2. \A r \in Exchanges : exchange[r] = Fresh
  BY DEF ServerInit
<1>3. ServerTypeOK
  BY <1>1 DEF ServerInit, ServerTypeOK
<1> QED BY <1>1, <1>2, <1>3 DEF ServerInit, ServerInv, ServeWaits

LEMMA ServerNextInv ==
  ASSUME ServerInv, [ServerNext]_serverVars
  PROVE  ServerInv'
<1>1. ASSUME Serve \/ PortTaken \/ Abort PROVE ServerInv'
  <2>1. UNCHANGED <<served, exchange>>
    BY <1>1 DEF Serve, PortTaken, Abort
  <2>2. ServerTypeOK'
    BY <1>1, <2>1 DEF Serve, PortTaken, Abort, ServerInv, ServerTypeOK
  <2>3. (server \in {"off", "failed"})' => server \in {"off", "failed"}
    BY <1>1 DEF Serve, PortTaken, Abort
  <2>4. (promise = "resolved" => server = "closed")'
    BY <1>1 DEF Serve, PortTaken, Abort, ServerInv
  <2>5. promise' = "resolved" => \/ promise = "resolved" \/ server = "off" \/ served = "bun"
    BY <1>1 DEF Serve, PortTaken, Abort
  <2>6. ServeWaits'
    BY <2>1, <2>5 DEF ServerInv, ServeWaits, Underway
  <2> QED BY <2>1, <2>2, <2>3, <2>4, <2>6 DEF ServerInv
<1>2. CASE AllClosed
  BY <1>2 DEF AllClosed, ServerInv, ServerTypeOK, ServeWaits, Underway
<1>3. CASE UNCHANGED serverVars
  BY <1>3 DEF serverVars, ServerInv, ServerTypeOK, ServeWaits, Underway
<1>4. ASSUME NEW r \in Exchanges,
             \/ \E hasBody \in BOOLEAN : Accept(r, hasBody)
             \/ EndOfBody(r) \/ ClientGoes(r) \/ HandlerFails(r) \/ WritesOn(r)
             \/ \E chunks \in 0..MaxChunks, breaks \in BOOLEAN : HandlerAnswers(r, 200, chunks, breaks)
      PROVE  ServerInv'
  BY <1>4, StepsOfExchanges
<1> QED BY <1>1, <1>2, <1>3, <1>4 DEF ServerNext

\* A response that has ended is all there, with its status first, whatever clients do and
\* whenever the signal comes; and serve() of Node and Deno returns when nobody waits for
\* an answer (node.ts:112-133 and 165-194, deno.ts:83-109).
THEOREM WholeAnswers == ServerSpec => []AnswersAreWhole
<1>1. ServerInv /\ [ServerNext]_serverVars => ServerInv'
  BY ServerNextInv
<1>2. ServerInv => AnswersAreWhole
  <2> SUFFICES ASSUME ServerInv PROVE AnswersAreWhole
    OBVIOUS
  <2>1. ASSUME NEW r \in Exchanges, NEW e, e = exchange[r]
        PROVE  /\ e.head \in {0, e.status} /\ (e.wrote > 0 => e.head # 0) /\ e.wrote <= e.chunks
               /\ e.at = "ended" => e.head # 0 /\ e.wrote = e.chunks /\ ~e.breaks
    <3>1. e \in Exchange /\ Proceeded(e)
      BY <2>1 DEF ServerInv, ServerTypeOK
    <3> QED BY <3>1 DEF Exchange, Proceeded
  <2> QED BY <2>1 DEF ServerInv, AnswersAreWhole, ResponsesAreWhole
<1> QED BY <1>1, <1>2, ServerInitInv, PTL DEF ServerSpec

-----------------------------------------------------------------------------
(* Child processes.                                                             *)

SubprocessTypeOK ==
  /\ call \in Calls
  /\ child \in {"none", "blocked", "running", "exited", "closed", "failed"}
  /\ written \in Nat /\ heard \in Nat /\ dropped \in Nat /\ heard + dropped <= written
  /\ killed \in BOOLEAN /\ reader \in BOOLEAN
  /\ childTimer \in {"off", "on", "fired"}
  /\ told \in {"none", "pending", "ok", "timeout", "error", "crash"}

\* What has happened to the call by the time each thing is as it is: who says ok has seen
\* the child close, and chunks are dropped by Node only.
SubprocessInv ==
  /\ SubprocessTypeOK
  /\ child = "none" => told = "none" /\ childTimer = "off" /\ written = 0
  /\ told = "ok" => child = "closed" /\ heard + dropped = written
  /\ dropped > 0 => call.runtime = "node" /\ (IsExec => GivenUp)
  /\ call.runtime = "node" /\ IsExec /\ child # "none" => reader
  /\ told = "timeout" => killed \/ ~ChildAlive \/ (call.runtime = "deno" /\ call.stdin)
  /\ GivenUp => child # "none"

LEMMA SubprocessNextInv ==
  ASSUME SubprocessInv, [SubprocessNext]_subprocessVars
  PROVE  SubprocessInv'
<1> USE DEF SubprocessInv, SubprocessTypeOK, IsExec, GivenUp, ByExecFile, ChildAlive, childVars
<1>1. CASE Exec
  BY <1>1 DEF Exec, DenoExec, BunExec, NodeExec, Starts, Started
<1>2. CASE Taken
  BY <1>2 DEF Taken
<1>3. CASE Spawn
  BY <1>3 DEF Spawn
<1>4. CASE WaitHandle
  BY <1>4 DEF WaitHandle
<1>5. CASE KillHandle
  BY <1>5 DEF KillHandle
<1>6. CASE TimesOut
  BY <1>6 DEF TimesOut
<1>7. CASE Hear
  BY <1>7 DEF Hear
<1>8. CASE Closes
  BY <1>8 DEF Closes, Verdicts
<1>9. CASE ToldLater
  BY <1>9 DEF ToldLater
<1>10. CASE Refused
  BY <1>10 DEF Refused
<1>11. CASE TakesInput
  BY <1>11 DEF TakesInput
<1>12. CASE Writes
  BY <1>12 DEF Writes
<1>13. CASE Exits
  BY <1>13 DEF Exits
<1>14. CASE Drops
  BY <1>14 DEF Drops
<1>15. CASE UNCHANGED subprocessVars
  BY <1>15 DEF subprocessVars
<1> QED BY <1>1, <1>2, <1>3, <1>4, <1>5, <1>6, <1>7, <1>8, <1>9, <1>10, <1>11, <1>12, <1>13, <1>14, <1>15
        DEF SubprocessNext

\* However the chunks of a child, its exit and the timer follow each other: a call that says
\* ok has all its output but for the two exceptions of Node, and one that says it timed out
\* has killed what was alive but for Deno's with an input (adapters/subprocess.ts:80-391).
THEOREM ToldTrue == SubprocessSpec => []CallTells
<1>1. SubprocessInit => SubprocessInv
  <2> SUFFICES ASSUME SubprocessInit PROVE SubprocessInv
    OBVIOUS
  <2>1. SubprocessTypeOK
    <3>1. heard + dropped <= written
      BY DEF SubprocessInit
    <3> QED BY <3>1 DEF SubprocessInit, SubprocessTypeOK
  <2> QED BY <2>1 DEF SubprocessInit, SubprocessInv, GivenUp
<1>2. SubprocessInv /\ [SubprocessNext]_subprocessVars => SubprocessInv'
  BY SubprocessNextInv
<1>3. SubprocessInv => CallTells
  BY DEF SubprocessInv, SubprocessTypeOK, CallTells
<1> QED BY <1>1, <1>2, <1>3, PTL DEF SubprocessSpec

(* Machine.  HooksBalance relates the hooks that have run to one another;  *)
(* those of the next call depend on the state the caller is in, whose      *)
(* entry must be the last that ran.                                        *)

Known == Names \cup {Nowhere} \cup {c.initial : c \in Configs} \cup UNION {c.states : c \in Configs}
Hooks == {Hook(kind, name) : kind \in {"exit", "action", "entry"}, name \in Known}

\* How often a hook has run.
Count(ctx, hook) == Cardinality({i \in DOMAIN ctx : ctx[i] = hook})

\* What HooksBalance says of each hook that has run.
InPlace(ctx, i) ==
  /\ i > 1 /\ ctx[i][1] = "exit" /\ ctx[i][2] \in config.onEntry => ctx[i - 1] = Hook("entry", ctx[i][2])
  /\ ctx[i][1] = "action" /\ DOMAIN config.transitions \subseteq config.onExit => i > 1 /\ ctx[i - 1][1] = "exit"

MachineIInv ==
  /\ config \in Configs
  /\ at.state \in Known /\ at.ctx \in Seq(Hooks)
  /\ at.state \in config.onEntry /\ at.ctx # <<>> => at.ctx[Len(at.ctx)] = Hook("entry", at.state)
  /\ HooksBalance

\* The three kinds of hooks are told apart, and so are two of different names.
LEMMA HooksApart ==
  ASSUME NEW kind, NEW name, NEW k, NEW n
  PROVE  Hook(kind, name)[1] = kind /\ Hook(kind, name)[2] = name
         /\ (Hook(kind, name) = Hook(k, n) <=> kind = k /\ name = n)
  BY DEF Hook

\* One more hook is counted under its own name.
LEMMA CountAppended ==
  ASSUME NEW S, NEW ctx \in Seq(S), NEW h \in S, NEW hook
  PROVE  /\ Count(ctx, hook) \in Nat
         /\ Count(Append(ctx, h), hook) = Count(ctx, hook) + (IF h = hook THEN 1 ELSE 0)
  <1> DEFINE m == Len(ctx) + 1
             K == {i \in DOMAIN ctx : ctx[i] = hook}
             L == {i \in DOMAIN Append(ctx, h) : Append(ctx, h)[i] = hook}
  <1>1. DOMAIN ctx = 1..Len(ctx) /\ Len(ctx) \in Nat /\ DOMAIN Append(ctx, h) = 1..m /\ Append(ctx, h)[m] = h
        /\ \A i \in DOMAIN ctx : Append(ctx, h)[i] = ctx[i]
    <2>1. DOMAIN ctx = 1..Len(ctx) /\ Len(ctx) \in Nat
      OBVIOUS
    <2>2. DOMAIN Append(ctx, h) = 1..m
      OBVIOUS
    <2>3. Append(ctx, h)[m] = h
      OBVIOUS
    <2>4. \A i \in DOMAIN ctx : Append(ctx, h)[i] = ctx[i]
      <3> TAKE i \in DOMAIN ctx
      <3>1. i \in 1..Len(ctx)
        OBVIOUS
      <3> QED BY <3>1
    <2> QED BY <2>1, <2>2, <2>3, <2>4
  <1>2. 1..m = (1..Len(ctx)) \cup {m} /\ m \notin 1..Len(ctx)
    BY <1>1
  <1>3. IsFiniteSet(K) /\ Cardinality(K) \in Nat /\ m \notin K
    <2>1. IsFiniteSet(1..Len(ctx))
      <3>1. Len(ctx) \in Int
        BY <1>1
      <3> HIDE DEF m, K, L
      <3> QED BY ONLY <3>1, FS_Interval
    <2>2. K \subseteq 1..Len(ctx)
      BY <1>1
    <2>3. IsFiniteSet(K)
      BY <2>1, <2>2, FS_Subset
    <2> QED BY <1>2, <2>2, <2>3, FS_CardinalityType
  <1>4. L = IF h = hook THEN K \cup {m} ELSE K
    <2> HIDE DEF m
    <2> QED BY <1>1, <1>2
  <1>5. Cardinality(K \cup {m}) = Cardinality(K) + 1
    BY <1>3, FS_AddElement
  <1>6. Count(ctx, hook) = Cardinality(K) /\ Count(Append(ctx, h), hook) = Cardinality(L)
    BY DEF Count
  <1> HIDE DEF K, L, m
  <1> QED BY <1>3, <1>4, <1>5, <1>6

\* The hooks that have run, each in its place.
InOrder(ctx) == ctx \in Seq(Hooks) /\ \A i \in DOMAIN ctx : InPlace(ctx, i)

\* A hook that may run after those of ctx, and what there is when it has, if it does.
Fits(h, ctx) ==
  /\ h[1] = "exit" /\ h[2] \in config.onEntry /\ ctx # <<>> => ctx[Len(ctx)] = Hook("entry", h[2])
  /\ h[1] = "action" /\ DOMAIN config.transitions \subseteq config.onExit => ctx # <<>> /\ ctx[Len(ctx)][1] = "exit"

HasRun(ctx, has, h, ran) ==
  /\ InOrder(ran)
  /\ has => ran # <<>> /\ Len(ran) \in Nat /\ Len(ran) > 0 /\ ran[Len(ran)] = h
  /\ \A hook : /\ Count(ctx, hook) \in Nat
               /\ Count(ran, hook) = Count(ctx, hook) + (IF has /\ h = hook THEN 1 ELSE 0)

LEMMA RunsOne ==
  ASSUME NEW ctx, InOrder(ctx), NEW has \in BOOLEAN, NEW h \in Hooks, has => Fits(h, ctx)
  PROVE  HasRun(ctx, has, h, Runs(has, h, ctx))
  <1> DEFINE ran == Runs(has, h, ctx)
             m == Len(ctx) + 1
  <1>0. ctx \in Seq(Hooks) /\ \A i \in DOMAIN ctx : InPlace(ctx, i)
    BY DEF InOrder
  <1>1. \A hook : Count(ctx, hook) \in Nat
        /\ Count(Append(ctx, h), hook) = Count(ctx, hook) + (IF h = hook THEN 1 ELSE 0)
    BY <1>0, CountAppended
  <1>2. CASE ~has
    <2>1. ran = ctx
      BY <1>2 DEF Runs
    <2> HIDE DEF ran
    <2>2. \A hook : Count(ran, hook) = Count(ctx, hook) + (IF has /\ h = hook THEN 1 ELSE 0)
      BY <1>1, <1>2, <2>1
    <2>3. HasRun(ctx, has, h, ran)
      BY <1>0, <1>1, <1>2, <2>1, <2>2 DEF HasRun, InOrder
    <2> QED BY <2>3 DEF ran
  <1>3. CASE has
    <2>1. ran = Append(ctx, h)
      BY <1>3 DEF Runs
    <2>2. DOMAIN ctx = 1..Len(ctx) /\ Len(ctx) \in Nat /\ DOMAIN Append(ctx, h) = 1..m
          /\ Append(ctx, h)[m] = h /\ Append(ctx, h) \in Seq(Hooks)
          /\ Len(Append(ctx, h)) = m /\ \A i \in DOMAIN ctx : Append(ctx, h)[i] = ctx[i]
      BY <1>0
    <2>3. ASSUME NEW i \in DOMAIN ctx PROVE InPlace(Append(ctx, h), i)
      <3>1. InPlace(ctx, i) /\ i \in Nat /\ i >= 1 /\ (i > 1 => i - 1 \in DOMAIN ctx)
        BY <1>0, <2>2
      <3>2. Append(ctx, h)[i] = ctx[i] /\ (i > 1 => Append(ctx, h)[i - 1] = ctx[i - 1])
        BY <2>2, <3>1
      <3> QED BY <3>1, <3>2 DEF InPlace
    <2>4. \A i \in DOMAIN Append(ctx, h) : InPlace(Append(ctx, h), i)
      <3>1. ASSUME NEW i \in DOMAIN Append(ctx, h) PROVE i \in DOMAIN ctx \/ i = m
        BY <2>2
      <3>2. InPlace(Append(ctx, h), m)
        <4> DEFINE ran_ == Append(ctx, h)
        <4>1. ran_[m] = h /\ (m > 1 <=> ctx # <<>>)
          BY <2>2
        <4>2. ctx # <<>> => ran_[m - 1] = ctx[Len(ctx)]
          <5>1. ctx # <<>> => m - 1 = Len(ctx) /\ Len(ctx) \in DOMAIN ctx
            BY <2>2
          <5> QED BY <2>2, <5>1
        <4> HIDE DEF ran_, m
        <4>3. m > 1 /\ ran_[m][1] = "exit" /\ ran_[m][2] \in config.onEntry => ran_[m - 1] = Hook("entry", ran_[m][2])
          BY <1>3, <4>1, <4>2 DEF Fits
        <4>4. ran_[m][1] = "action" /\ DOMAIN config.transitions \subseteq config.onExit
                => m > 1 /\ ran_[m - 1][1] = "exit"
          BY <1>3, <4>1, <4>2 DEF Fits
        <4>5. InPlace(ran_, m)
          BY <4>3, <4>4 DEF InPlace
        <4> QED BY <4>5 DEF ran_
      <3> HIDE DEF m
      <3> QED BY <2>3, <3>1, <3>2
    <2>5. Append(ctx, h) # <<>> /\ m \in Nat /\ m > 0
      BY <2>2
    <2> HIDE DEF ran, m
    <2>6. \A hook : Count(ran, hook) = Count(ctx, hook) + (IF has /\ h = hook THEN 1 ELSE 0)
      BY <1>1, <1>3, <2>1
    <2>7. HasRun(ctx, has, h, ran)
      BY <1>1, <1>3, <2>1, <2>2, <2>4, <2>5, <2>6 DEF HasRun, InOrder
    <2> QED BY <2>7 DEF ran
  <1> QED BY <1>2, <1>3

LEMMA MachineInitIInv == MachineInit => MachineIInv
  <1> SUFFICES ASSUME MachineInit PROVE MachineIInv
    OBVIOUS
  <1>1. config \in Configs /\ at.state = config.initial /\ at.ctx = <<>>
    BY DEF MachineInit
  <1>2. \A kind, name : HooksOf(kind, name) = 0
    <2>1. \A kind, name : {i \in DOMAIN at.ctx : at.ctx[i] = Hook(kind, name)} = {}
      BY <1>1
    <2> QED BY <2>1, FS_EmptySet DEF HooksOf
  <1>3. HooksBalance
    BY <1>1, <1>2 DEF HooksBalance
  <1>4. config.initial \in Known
    BY <1>1 DEF Known
  <1> QED BY <1>1, <1>3, <1>4 DEF MachineIInv

\* What is answered of an event.
LEMMA Settles ==
  ASSUME config \in Configs, NEW state, NEW ctx, NEW event, NEW open
  PROVE  LET answer == Resolve(config, state, ctx, event, open)
         IN  \/ answer.ok = FALSE /\ answer.ctx = ctx
             \/ \E target \in {Nowhere} \cup config.states, acts \in BOOLEAN :
                  /\ acts => state \in DOMAIN config.transitions
                  /\ answer.ok = TRUE /\ answer.state = target
                  /\ answer.ctx = Passage(config, state, event, acts, target, ctx)
  <1> DEFINE table == Lookup(Table(config), state)
             entry == Lookup(table, event)
             real == entry \notin {Missing, Builtin}
             target == IF real THEN entry.target ELSE Nowhere
             acts == real /\ entry.action
             entered == Passage(config, state, event, acts, target, ctx)
             answer == Resolve(config, state, ctx, event, open)
  <1>1. real => /\ state \in DOMAIN config.transitions /\ event \in DOMAIN config.transitions[state]
                /\ entry = Normalized(config.transitions[state])[event]
    <2>1. real => table \notin {Missing, Builtin} /\ event \in DOMAIN table /\ entry = table[event]
      BY DEF Lookup
    <2>2. table \notin {Missing, Builtin} => state \in DOMAIN Table(config) /\ table = Table(config)[state]
      BY DEF Lookup
    <2>3. DOMAIN Table(config) = DOMAIN config.transitions
          /\ \A s \in DOMAIN config.transitions :
             Table(config)[s] = Normalized(config.transitions[s])
             /\ DOMAIN Normalized(config.transitions[s]) = DOMAIN config.transitions[s]
      BY DEF Table, Normalized
    <2> HIDE DEF table, entry
    <2> QED BY <2>1, <2>2, <2>3
  <1>2. real => entry.target \in config.states /\ entry.action \in BOOLEAN
    <2> HIDE DEF entry
    <2> SUFFICES ASSUME real PROVE entry.target \in config.states /\ entry.action \in BOOLEAN
      OBVIOUS
    <2>1. config.transitions[state][event] \in Transitions(config.states)
      BY <1>1, MachineAssumption
    <2>2. entry = IF "to" \in DOMAIN config.transitions[state][event]
                  THEN [target |-> config.transitions[state][event].to, guard |-> FALSE, action |-> FALSE]
                  ELSE config.transitions[state][event]
      BY <1>1 DEF Normalized
    <2> QED BY <2>1, <2>2 DEF Transitions
  <1>3. answer = IF entry = Missing \/ (real /\ entry.guard /\ ~open) THEN [ok |-> FALSE, ctx |-> ctx]
                 ELSE [ok |-> TRUE, state |-> target, ctx |-> entered]
    BY DEF Resolve
  <1>4. target \in {Nowhere} \cup config.states /\ acts \in BOOLEAN /\ (acts => state \in DOMAIN config.transitions)
    <2> HIDE DEF entry
    <2> QED BY <1>1, <1>2
  <1> HIDE DEF entry, target, acts, answer, entered
  <1>6. CASE entry = Missing \/ (real /\ entry.guard /\ ~open)
    BY <1>3, <1>6 DEF answer
  <1>7. CASE ~(entry = Missing \/ (real /\ entry.guard /\ ~open))
    <2>1. answer.ok = TRUE /\ answer.state = target /\ answer.ctx = entered
      BY <1>3, <1>7
    <2> QED BY <1>4, <2>1 DEF answer, entered
  <1> QED BY <1>6, <1>7

LEMMA SendMachineIInv ==
  ASSUME MachineIInv, NEW event \in Names, NEW open \in BOOLEAN, Send(event, open)
  PROVE  MachineIInv'
  <1> DEFINE answer == Resolve(config, at.state, at.ctx, event, open)
  <1>1. config' = config /\ config \in Configs /\ at'.state = (IF answer.ok THEN answer.state ELSE at.state)
        /\ at'.ctx = answer.ctx
    BY DEF MachineIInv, Send
  <1>2. at.state \in Known /\ at.ctx \in Seq(Hooks)
        /\ (at.state \in config.onEntry /\ at.ctx # <<>> => at.ctx[Len(at.ctx)] = Hook("entry", at.state))
        /\ \A i \in DOMAIN at.ctx : InPlace(at.ctx, i)
    BY DEF MachineIInv, HooksBalance, InPlace
  <1>3. \A s \in config.onEntry \cap config.onExit :
          Count(at.ctx, Hook("entry", s)) + (IF s = config.initial THEN 1 ELSE 0)
            = Count(at.ctx, Hook("exit", s)) + (IF s = at.state THEN 1 ELSE 0)
    BY DEF MachineIInv, HooksBalance, HooksOf, Count
  <1>4. CASE answer.ok = FALSE /\ answer.ctx = at.ctx
    <2>1. at'.state = at.state /\ at'.ctx = at.ctx
      BY <1>1, <1>4
    <2>2. \A kind, name : HooksOf(kind, name)' = HooksOf(kind, name)
      BY <2>1 DEF HooksOf, Hook
    <2>3. HooksBalance'
      BY <1>1, <2>1, <2>2 DEF MachineIInv, HooksBalance, Hook
    <2> QED BY <1>1, <2>1, <2>3 DEF MachineIInv, Hook
  <1>5. ASSUME NEW target \in {Nowhere} \cup config.states, NEW acts \in BOOLEAN,
               acts => at.state \in DOMAIN config.transitions,
               answer.ok = TRUE, answer.state = target,
               answer.ctx = Passage(config, at.state, event, acts, target, at.ctx)
        PROVE  MachineIInv'
    <2> DEFINE state == at.state
               ctx == at.ctx
               left == Runs(state \in config.onExit, Hook("exit", state), ctx)
               acted == Runs(acts, Hook("action", event), left)
               entered == Runs(target \in config.onEntry, Hook("entry", target), acted)
    <2>1. target \in Known /\ event \in Known /\ Hook("exit", state) \in Hooks
          /\ Hook("action", event) \in Hooks /\ Hook("entry", target) \in Hooks
      <3>1. target \in Known /\ event \in Known
        BY <1>1 DEF Known
      <3> QED BY <1>2, <3>1 DEF Hooks
    <2>2. (state \in config.onExit) \in BOOLEAN /\ (target \in config.onEntry) \in BOOLEAN
      OBVIOUS
    <2> HIDE DEF state, ctx
    <2>3. /\ left \in Seq(Hooks) /\ \A i \in DOMAIN left : InPlace(left, i)
          /\ state \in config.onExit => left # <<>> /\ Len(left) \in Nat /\ Len(left) > 0
             /\ left[Len(left)] = Hook("exit", state)
          /\ \A hook : /\ Count(ctx, hook) \in Nat
                       /\ Count(left, hook) = Count(ctx, hook)
                             + (IF state \in config.onExit /\ Hook("exit", state) = hook THEN 1 ELSE 0)
      <3> DEFINE has == state \in config.onExit
                 h == Hook("exit", state)
      <3>1. h[1] = "exit" /\ h[2] = state /\ "exit" # "action"
            /\ (state \in config.onEntry /\ ctx # <<>> => ctx[Len(ctx)] = Hook("entry", state))
        BY <1>2, HooksApart DEF state, ctx
      <3>2. has => Fits(h, ctx)
        BY <3>1 DEF Fits
      <3>3. InOrder(ctx) /\ has \in BOOLEAN /\ h \in Hooks /\ left = Runs(has, h, ctx)
        BY <1>2, <2>1, <2>2 DEF ctx, InOrder
      <3> HIDE DEF has, h, left
      <3>4. HasRun(ctx, has, h, left)
        BY <3>2, <3>3, RunsOne
      <3> QED BY <3>4 DEF HasRun, InOrder, has, h
    <2> HIDE DEF left
    <2>4. /\ acted \in Seq(Hooks) /\ \A i \in DOMAIN acted : InPlace(acted, i)
          /\ \A hook : /\ Count(left, hook) \in Nat
                       /\ Count(acted, hook) = Count(left, hook)
                             + (IF acts /\ Hook("action", event) = hook THEN 1 ELSE 0)
      <3> DEFINE has == acts
                 h == Hook("action", event)
      <3>1. h[1] = "action" /\ "action" # "exit"
            /\ (has /\ DOMAIN config.transitions \subseteq config.onExit => left # <<>> /\ left[Len(left)][1] = "exit")
        <4>1. h[1] = "action" /\ Hook("exit", state)[1] = "exit" /\ "action" # "exit"
          BY HooksApart
        <4>2. acts /\ DOMAIN config.transitions \subseteq config.onExit => state \in config.onExit
          BY <1>5 DEF state
        <4> QED BY <2>3, <4>1, <4>2
      <3>2. has => Fits(h, left)
        BY <3>1 DEF Fits
      <3>3. InOrder(left) /\ has \in BOOLEAN
            /\ h \in Hooks /\ acted = Runs(has, h, left)
        BY <1>2, <2>1, <2>2, <2>3 DEF InOrder
      <3> HIDE DEF has, h, acted
      <3>4. HasRun(left, has, h, acted)
        BY <3>2, <3>3, RunsOne
      <3> QED BY <3>4 DEF HasRun, InOrder, has, h
    <2> HIDE DEF acted
    <2>5. /\ entered \in Seq(Hooks) /\ \A i \in DOMAIN entered : InPlace(entered, i)
          /\ target \in config.onEntry => entered[Len(entered)] = Hook("entry", target)
          /\ \A hook : /\ Count(acted, hook) \in Nat
                       /\ Count(entered, hook) = Count(acted, hook)
                             + (IF target \in config.onEntry /\ Hook("entry", target) = hook THEN 1 ELSE 0)
      <3> DEFINE has == target \in config.onEntry
                 h == Hook("entry", target)
      <3>1. h[1] = "entry" /\ "entry" # "action" /\ "entry" # "exit"
        BY HooksApart
      <3>2. has => Fits(h, acted)
        BY <3>1 DEF Fits
      <3>3. InOrder(acted) /\ has \in BOOLEAN
            /\ h \in Hooks /\ entered = Runs(has, h, acted)
        BY <1>2, <2>1, <2>2, <2>4 DEF InOrder
      <3> HIDE DEF has, h, entered
      <3>4. HasRun(acted, has, h, entered)
        BY <3>2, <3>3, RunsOne
      <3> QED BY <3>4 DEF HasRun, InOrder, has, h
    <2>6. answer.ctx = entered
      BY <1>5 DEF Passage, entered, acted, left, state, ctx
    <2> HIDE DEF entered
    <2>7. at'.state = target /\ at'.ctx = entered
      BY <1>1, <1>5, <2>6
    <2>8. \A s : /\ Count(entered, Hook("entry", s)) = Count(ctx, Hook("entry", s))
                    + (IF target \in config.onEntry /\ s = target THEN 1 ELSE 0)
                 /\ Count(entered, Hook("exit", s)) = Count(ctx, Hook("exit", s))
                    + (IF state \in config.onExit /\ s = state THEN 1 ELSE 0)
                 /\ Count(ctx, Hook("entry", s)) \in Nat /\ Count(ctx, Hook("exit", s)) \in Nat
      <3> SUFFICES ASSUME NEW s
                   PROVE  /\ Count(entered, Hook("entry", s)) = Count(ctx, Hook("entry", s))
                             + (IF target \in config.onEntry /\ s = target THEN 1 ELSE 0)
                          /\ Count(entered, Hook("exit", s)) = Count(ctx, Hook("exit", s))
                             + (IF state \in config.onExit /\ s = state THEN 1 ELSE 0)
                          /\ Count(ctx, Hook("entry", s)) \in Nat /\ Count(ctx, Hook("exit", s)) \in Nat
        OBVIOUS
      <3>1. /\ Hook("exit", state) # Hook("entry", s) /\ Hook("action", event) # Hook("entry", s)
               /\ (Hook("entry", target) = Hook("entry", s) <=> s = target)
            /\ Hook("entry", target) # Hook("exit", s) /\ Hook("action", event) # Hook("exit", s)
               /\ (Hook("exit", state) = Hook("exit", s) <=> s = state)
        <4>1. "exit" # "entry" /\ "action" # "entry" /\ "action" # "exit"
          OBVIOUS
        <4> QED BY <4>1, HooksApart
      <3>2. Count(ctx, Hook("entry", s)) \in Nat /\ Count(left, Hook("entry", s)) = Count(ctx, Hook("entry", s))
        BY <2>3, <3>1
      <3>3. Count(acted, Hook("entry", s)) = Count(left, Hook("entry", s))
        BY <2>4, <3>1
      <3>4. Count(entered, Hook("entry", s)) = Count(acted, Hook("entry", s))
              + (IF target \in config.onEntry /\ s = target THEN 1 ELSE 0)
        BY <2>5, <3>1
      <3>5. Count(ctx, Hook("exit", s)) \in Nat
            /\ Count(left, Hook("exit", s)) = Count(ctx, Hook("exit", s))
                  + (IF state \in config.onExit /\ s = state THEN 1 ELSE 0)
        BY <2>3, <3>1
      <3>6. Count(acted, Hook("exit", s)) = Count(left, Hook("exit", s))
        BY <2>4, <3>1
      <3>7. Count(entered, Hook("exit", s)) = Count(acted, Hook("exit", s))
        BY <2>5, <3>1
      <3> QED BY <3>2, <3>3, <3>4, <3>5, <3>6, <3>7
    <2>9. \A s \in config.onEntry \cap config.onExit :
            Count(entered, Hook("entry", s)) + (IF s = config.initial THEN 1 ELSE 0)
              = Count(entered, Hook("exit", s)) + (IF s = target THEN 1 ELSE 0)
      <3> SUFFICES ASSUME NEW s \in config.onEntry \cap config.onExit
                   PROVE  Count(entered, Hook("entry", s)) + (IF s = config.initial THEN 1 ELSE 0)
                            = Count(entered, Hook("exit", s)) + (IF s = target THEN 1 ELSE 0)
        OBVIOUS
      <3>1. Count(ctx, Hook("entry", s)) + (IF s = config.initial THEN 1 ELSE 0)
              = Count(ctx, Hook("exit", s)) + (IF s = state THEN 1 ELSE 0)
        BY <1>3 DEF ctx, state
      <3>2. /\ Count(entered, Hook("entry", s)) = Count(ctx, Hook("entry", s))
               + (IF s = target THEN 1 ELSE 0)
            /\ Count(entered, Hook("exit", s)) = Count(ctx, Hook("exit", s))
               + (IF s = state THEN 1 ELSE 0)
            /\ Count(ctx, Hook("entry", s)) \in Nat /\ Count(ctx, Hook("exit", s)) \in Nat
        BY <2>8
      <3> QED BY <3>1, <3>2
    <2>10. HooksBalance'
      <3>1. \A kind, name : HooksOf(kind, name)' = Count(entered, Hook(kind, name))
        BY <2>7 DEF HooksOf, Count, Hook
      <3> QED BY <1>1, <2>5, <2>7, <2>9, <3>1 DEF HooksBalance, InPlace, Hook
    <2> QED BY <1>1, <2>1, <2>5, <2>7, <2>10 DEF MachineIInv, Hook
  <1>6. \/ answer.ok = FALSE /\ answer.ctx = at.ctx
        \/ \E target \in {Nowhere} \cup config.states, acts \in BOOLEAN :
             /\ acts => at.state \in DOMAIN config.transitions
             /\ answer.ok = TRUE /\ answer.state = target
             /\ answer.ctx = Passage(config, at.state, event, acts, target, at.ctx)
    BY <1>1, Settles
  <1> HIDE DEF answer
  <1> QED BY <1>4, <1>5, <1>6

\* Whatever its states, hooks, tables and guards, and whatever is sent to it, a machine
\* leaves a state as often as it enters it, and hooks run in their place.
THEOREM Balanced == MachineSpec => []HooksBalance
  <1>1. MachineInit => MachineIInv
    BY MachineInitIInv
  <1>2. MachineIInv /\ [MachineNext]_machineVars => MachineIInv'
    <2>1. ASSUME MachineIInv, NEW event \in Names, NEW open \in BOOLEAN, Send(event, open) PROVE MachineIInv'
      BY <2>1, SendMachineIInv
    <2>2. ASSUME MachineIInv, UNCHANGED machineVars \/ \E event \in Names : Breaks(event) PROVE MachineIInv'
      <3>1. at' = at /\ config' = config
        BY <2>2 DEF machineVars, Breaks
      <3>2. HooksBalance'
        <4>1. \A kind, name : HooksOf(kind, name)' = HooksOf(kind, name)
          BY <3>1 DEF HooksOf, Hook
        <4> QED BY <2>2, <3>1, <4>1 DEF MachineIInv, HooksBalance, Hook
      <3> QED BY <2>2, <3>1, <3>2 DEF MachineIInv, Hook
    <2> QED BY <2>1, <2>2 DEF MachineNext
  <1>3. MachineIInv => HooksBalance
    BY DEF MachineIInv
  <1> QED BY <1>1, <1>2, <1>3, PTL DEF MachineSpec

\* An entry of a table is neither of the two answers that stand for none.
LEMMA EntriesApart ==
  ASSUME config \in Configs, NEW state, state \in DOMAIN config.transitions, NEW event,
         event \in DOMAIN config.transitions[state]
  PROVE  LET entry == Normalized(config.transitions[state])[event]
         IN  entry # Missing /\ entry # Builtin /\ entry.target \in config.states /\ entry.guard \in BOOLEAN
  <1> DEFINE entry == Normalized(config.transitions[state])[event]
  <1>1. config.transitions[state][event] \in Transitions(config.states)
    BY MachineAssumption
  <1>2. entry = IF "to" \in DOMAIN config.transitions[state][event]
                THEN [target |-> config.transitions[state][event].to, guard |-> FALSE, action |-> FALSE]
                ELSE config.transitions[state][event]
    BY DEF Normalized
  <1> HIDE DEF entry
  <1>3. entry \in [target : config.states, guard : BOOLEAN, action : BOOLEAN]
    BY <1>1, <1>2 DEF Transitions
  <1>4. DOMAIN entry = {"target", "guard", "action"} /\ DOMAIN Missing = {"missing"} /\ DOMAIN Builtin = {"builtin"}
    BY <1>3 DEF Missing, Builtin
  <1>5. "target" # "missing" /\ "target" # "builtin"
    OBVIOUS
  <1>6. entry # Missing /\ entry # Builtin
    BY <1>4, <1>5
  <1> QED BY <1>3, <1>6 DEF entry

\* What the machine answers is what the table has.
LEMMA TableSays ==
  ASSUME config \in Configs, NEW event \in Names, event \notin Inherited, NEW open \in BOOLEAN
  PROVE  LET answer == Resolve(config, at.state, at.ctx, event, open)
             entry == Lookup(Lookup(Table(config), at.state), event)
             valid == event \in EventsOf(config, at.state)
         IN  /\ answer.ok => valid /\ answer.state \in config.states
             /\ ~answer.ok /\ valid => ~open
             /\ CanTransition(config, at.state, event) <=> valid
             /\ entry \notin {Missing, Builtin} => valid
             /\ answer.ctx # at.ctx => answer.ok
  <1> DEFINE state == at.state
             table == Lookup(Table(config), state)
             entry == Lookup(table, event)
             real == entry \notin {Missing, Builtin}
             answer == Resolve(config, state, at.ctx, event, open)
             valid == event \in EventsOf(config, state)
  <1>2. answer.ok = ~(entry = Missing \/ (real /\ entry.guard /\ ~open))
        /\ (answer.ok => answer.state = IF real THEN entry.target ELSE Nowhere)
        /\ (answer.ctx # at.ctx => answer.ok)
    <2> DEFINE refused == entry = Missing \/ (real /\ entry.guard /\ ~open)
               target == IF real THEN entry.target ELSE Nowhere
               ctx == Passage(config, state, event, real /\ entry.action, target, at.ctx)
    <2>1. answer = IF refused THEN [ok |-> FALSE, ctx |-> at.ctx] ELSE [ok |-> TRUE, state |-> target, ctx |-> ctx]
      BY DEF Resolve
    <2> HIDE DEF refused, answer, ctx, target
    <2>2. answer.ok = ~refused /\ (answer.ok => answer.state = target) /\ (answer.ctx # at.ctx => answer.ok)
      BY <2>1
    <2> QED BY <2>2 DEF refused, target
  <1>3. DOMAIN Table(config) = DOMAIN config.transitions
        /\ \A s \in DOMAIN config.transitions :
             Table(config)[s] = Normalized(config.transitions[s])
             /\ DOMAIN Normalized(config.transitions[s]) = DOMAIN config.transitions[s]
    BY DEF Table, Normalized
  <1>4. entry # Builtin /\ (entry # Missing => table \notin {Missing, Builtin} /\ event \in DOMAIN table)
    <2>1. CASE state \in DOMAIN config.transitions /\ event \in DOMAIN config.transitions[state]
      <3>1. Normalized(config.transitions[state])[event] # Builtin
        BY <2>1, EntriesApart
      <3>2. table = Missing \/ table = Builtin \/ table = Normalized(config.transitions[state])
        BY <1>3 DEF Lookup
      <3>3. Missing # Builtin
        <4>1. DOMAIN Missing = {"missing"} /\ DOMAIN Builtin = {"builtin"} /\ "missing" # "builtin"
          BY DEF Missing, Builtin
        <4> QED BY <4>1
      <3> HIDE DEF table
      <3> QED BY <1>3, <2>1, <3>1, <3>2, <3>3 DEF Lookup
    <2>2. CASE ~(state \in DOMAIN config.transitions /\ event \in DOMAIN config.transitions[state])
      <3>1. table = Missing \/ table = Builtin \/ (table = Normalized(config.transitions[state])
            /\ state \in DOMAIN config.transitions)
        BY <1>3 DEF Lookup
      <3>3. Missing # Builtin
        <4>1. DOMAIN Missing = {"missing"} /\ DOMAIN Builtin = {"builtin"} /\ "missing" # "builtin"
          BY DEF Missing, Builtin
        <4> QED BY <4>1
      <3> HIDE DEF table
      <3> QED BY <1>3, <2>2, <3>1, <3>3 DEF Lookup
    <2> QED BY <2>1, <2>2
  <1>5. ASSUME table \notin {Missing, Builtin}
        PROVE  state \in DOMAIN config.transitions /\ table = Normalized(config.transitions[state])
               /\ DOMAIN table = DOMAIN config.transitions[state]
               /\ (event \in DOMAIN table => entry = Normalized(config.transitions[state])[event])
    BY <1>3, <1>5 DEF Lookup
  <1>6. valid <=> table \notin {Missing, Builtin} /\ event \in DOMAIN table
    BY DEF EventsOf
  <1>7. CanTransition(config, state, event) <=> table # Missing /\ entry # Missing
    BY DEF CanTransition
  <1> HIDE DEF table, entry, answer, valid
  <1>8. valid => entry # Missing /\ entry # Builtin /\ entry.target \in config.states
    BY <1>5, <1>6, EntriesApart
  <1>9. valid <=> entry # Missing
    BY <1>4, <1>6, <1>8
  <1>10. answer.ok => valid /\ answer.state \in config.states
    BY <1>2, <1>4, <1>8, <1>9
  <1>11. ~answer.ok /\ valid => ~open
    BY <1>2, <1>9
  <1>12. CanTransition(config, state, event) <=> valid
    BY <1>4, <1>6, <1>7, <1>9
  <1>13. entry \notin {Missing, Builtin} => valid
    BY <1>9
  <1> QED BY <1>2, <1>10, <1>11, <1>12, <1>13 DEF answer, entry, valid, table

\* What is asked of one machine is asked of the next, which has its table.
LEMMA AskedOf ==
  ASSUME config' = config, NEW event, asked'.event = event, asked'.from = at
  PROVE  /\ EventsOf(config', asked'.from.state) = EventsOf(config, at.state)
         /\ CanTransition(config', asked'.from.state, asked'.event) = CanTransition(config, at.state, event)
         /\ config'.states = config.states
  OBVIOUS

\* A call is answered by the table, whatever came before it.
LEMMA SendByTheTable ==
  ASSUME config \in Configs, NEW event \in Names, event \notin Inherited, NEW open \in BOOLEAN, Send(event, open)
  PROVE  SendFollowsTheTable'
  <1> DEFINE answer == Resolve(config, at.state, at.ctx, event, open)
  <1>1. asked' = [event |-> event, from |-> at, open |-> open, threw |-> FALSE, answer |-> answer] /\ config' = config
    BY DEF Send
  <1>2. /\ answer.ok => event \in EventsOf(config, at.state) /\ answer.state \in config.states
        /\ ~answer.ok /\ event \in EventsOf(config, at.state) => ~open
        /\ CanTransition(config, at.state, event) <=> event \in EventsOf(config, at.state)
    BY TableSays
  <1> HIDE DEF answer
  <1>3. asked'.event = event /\ asked'.from = at /\ asked'.open = open /\ asked'.threw = FALSE /\ asked'.answer = answer
    BY <1>1
  <1> QED BY <1>1, <1>2, <1>3, AskedOf DEF SendFollowsTheTable

\* A call throws by a guard or a hook, and only a transition of the table has one.
LEMMA BreaksByTheTable ==
  ASSUME config \in Configs, NEW event \in Names, event \notin Inherited, Breaks(event)
  PROVE  SendFollowsTheTable'
  <1> DEFINE valid == event \in EventsOf(config, at.state)
  <1>1. /\ asked'.event = event /\ asked'.from = at /\ asked'.open /\ asked'.threw /\ asked'.answer.ok = FALSE
        /\ config' = config
    BY DEF Breaks
  <1>2. CanTransition(config, at.state, event) <=> valid
    BY TableSays
  <1>3. valid
    <2>1. /\ Lookup(Lookup(Table(config), at.state), event) \notin {Missing, Builtin} => valid
          /\ Resolve(config, at.state, at.ctx, event, TRUE).ctx # at.ctx => Resolve(config, at.state, at.ctx, event, TRUE).ok
          /\ Resolve(config, at.state, at.ctx, event, TRUE).ok => valid
      BY TableSays
    <2> QED BY <2>1 DEF Breaks
  <1> HIDE DEF valid
  <1> QED BY <1>1, <1>2, <1>3, AskedOf DEF SendFollowsTheTable, valid

\* A machine does what its table says, and its hooks balance, as long as no event bears a
\* name that every object inherits: those find a function where the table has no entry.
THEOREM MachineHolds == Names \cap Inherited = {} => (MachineSpec => []MachineIsTrue)
  <1> SUFFICES ASSUME Names \cap Inherited = {} PROVE MachineSpec => []MachineIsTrue
    OBVIOUS
  <1> DEFINE Inv == config \in Configs /\ SendFollowsTheTable
  <1>1. MachineInit => Inv
    BY DEF MachineInit, SendFollowsTheTable
  <1>2. Inv /\ [MachineNext]_machineVars => Inv'
    <2>1. ASSUME Inv, NEW event \in Names, NEW open \in BOOLEAN, Send(event, open) PROVE Inv'
      BY <2>1, SendByTheTable DEF Send
    <2>3. ASSUME Inv, NEW event \in Names, Breaks(event) PROVE Inv'
      BY <2>3, BreaksByTheTable DEF Breaks
    <2>2. ASSUME Inv, UNCHANGED machineVars PROVE Inv'
      BY <2>2 DEF machineVars, SendFollowsTheTable
    <2> QED BY <2>1, <2>2, <2>3 DEF MachineNext
  <1>3. MachineSpec => []Inv
    BY <1>1, <1>2, PTL DEF MachineSpec
  <1>4. MachineSpec => []HooksBalance
    BY Balanced
  <1>5. Inv /\ HooksBalance => MachineIsTrue
    BY DEF MachineIsTrue
  <1> HIDE DEF Inv
  <1> QED BY <1>3, <1>4, <1>5, PTL

-----------------------------------------------------------------------------
(* Ports.  An answer depends on the adapter that was found when a port was *)
(* first asked for, so that the invariant has to say which ones a host can *)
(* have given; the lemmas go through the methods of each.                  *)

\* The adapter that a host gives the os module, and the one it gives a port.
OsOf == IF host.deno THEN "deno" ELSE IF host.requirable THEN "node" ELSE IF host.process \/ host.navigator THEN "fallback" ELSE "none"
PortOf(port) == IF host.deno /\ port \notin host.lacks THEN "deno" ELSE IF host.importable THEN "node" ELSE "null"

\* A port that has been asked for has the adapter of the host, and what was called said so.
PortsIInv ==
  /\ host \in Hosts
  /\ required \in {"unset", IF host.requirable THEN "ready" ELSE "null"}
  /\ osAdapter \in {"unresolved", OsOf}
  /\ DOMAIN ports = {"fs", "dns"}
  /\ \A port \in {"fs", "dns"} : ports[port] \in {"unset", PortOf(port)}
  /\ PortsAnswer

\* What is there of a host.
LEMMA HostIs ==
  ASSUME host \in Hosts
  PROVE  /\ host.deno \in BOOLEAN /\ host.process \in BOOLEAN /\ host.importable \in BOOLEAN
         /\ host.requirable \in BOOLEAN /\ host.navigator \in BOOLEAN
         /\ host.requirable => host.process
         /\ host.lacks \subseteq Spared(host)
  BY PortsAssumption

\* How an adapter may have a method.
Methods == {"absent", "constant", "plain", "caught", "safe", "direct"}

\* What comes out of a call that the model allows.
LEMMA Outcomes ==
  ASSUME NEW fails \in BOOLEAN, NEW method \in Methods, fails => method \notin {"plain", "constant"}
  PROVE  /\ method = "absent" => Outcome(method, fails) = "absent"
         /\ method = "constant" => Outcome(method, fails) = "default"
         /\ method \notin {"absent", "constant"} /\ ~fails => Outcome(method, fails) = "value"
         /\ method = "caught" /\ fails => Outcome(method, fails) = "undefined"
         /\ method = "safe" /\ fails => Outcome(method, fails) = "default"
         /\ method = "direct" /\ fails => Outcome(method, fails) = "throws"
  BY DEF Outcome, Methods

\* The methods of the three adapters for the os module.
LEMMA DenoOsIs ==
  ASSUME host \in Hosts, host.deno, NEW op \in OsOps
  PROVE  /\ DenoOs(op) \in {"absent", "plain", "caught", "safe"}
         /\ DenoOs(op) = "absent" <=> op \in host.lacks \/ (op = "cpuCount" /\ ~host.navigator)
<1>1. op \in host.lacks => op \in {"uptime", "osRelease", "loadavg", "networkInterfaces"}
  BY HostIs DEF Spared, OsOps, WebOps, LaterFileOps
<1> QED
  BY <1>1 DEF DenoOs, IfThere, OsOps

LEMMA NodeOsIs ==
  ASSUME host \in Hosts, ~host.deno, NEW op \in OsOps
  PROVE  /\ op \notin host.lacks
         /\ NodeOs(op) \in {"plain", "caught", "safe"}
         /\ FallbackOs(op) \in {"absent", "constant", "plain"}
         /\ FallbackOs(op) = "plain" <=> (op = "homeDir" /\ host.process) \/ (op = "cpuCount" /\ host.navigator)
<1>1. op \notin host.lacks
  BY HostIs DEF Spared, OsOps, WebOps, LaterFileOps
<1> QED
  BY <1>1, HostIs DEF NodeOs, FallbackOs, OsOps

\* A value is answered as one, and what is not there by None or a constant.
LEMMA OsSaid ==
  ASSUME NEW op, NEW outcome \in {"absent", "default", "value", "undefined"}
  PROVE  OsAnswer(op, outcome) \in IF outcome = "value" THEN {"value"} ELSE {"None", "default"}
  BY DEF OsAnswer

LEMMA OsAnswers ==
  ASSUME PortsIInv, NEW op \in OsOps, NEW fails \in BOOLEAN, CallOs(op, fails)
  PROVE  PortsAnswer'
<1> DEFINE method == CASE osAdapter = "deno" -> DenoOs(op) [] osAdapter = "node" -> NodeOs(op)
                       [] osAdapter = "fallback" -> FallbackOs(op) [] OTHER -> "absent"
           answer == OsAnswer(op, Outcome(method, fails))
           outcome == Outcome(method, fails)
           does == Offered("os", op) /\ ~fails
<1>1. /\ host' = host /\ called' = [port |-> "os", op |-> op, fails |-> fails, answer |-> answer]
      /\ fails => method \notin {"plain", "constant"}
      /\ osAdapter = OsOf /\ host \in Hosts
  BY DEF CallOs, Call, PortsIInv
<1>2. outcome \in IF does THEN {"value"} ELSE {"absent", "default", "undefined"}
  <2>1. CASE osAdapter = "deno"
    <3>1. host.deno /\ method = DenoOs(op)
      BY <1>1, <2>1, HostIs DEF OsOf
    <3>2. Offered("os", op) <=> op \notin host.lacks /\ (op = "cpuCount" => host.navigator)
      BY <1>1, <3>1, HostIs DEF Offered
    <3>3. /\ method \in {"absent", "plain", "caught", "safe"}
          /\ method = "absent" <=> op \in host.lacks \/ (op = "cpuCount" /\ ~host.navigator)
      BY <1>1, <3>1, DenoOsIs
    <3> HIDE DEF method
    <3>4. Offered("os", op) <=> method # "absent"
      BY <3>2, <3>3
    <3> QED
      BY <1>1, <3>3, <3>4, Outcomes DEF Methods
  <2>2. CASE osAdapter = "node"
    <3>1. ~host.deno /\ host.requirable /\ host.process /\ method = NodeOs(op)
      BY <1>1, <2>2, HostIs DEF OsOf
    <3>2. Offered("os", op)
      BY <1>1, <3>1, NodeOsIs DEF Offered
    <3>3. method \in {"plain", "caught", "safe"}
      BY <1>1, <3>1, NodeOsIs
    <3> HIDE DEF method
    <3> QED
      BY <1>1, <3>2, <3>3, Outcomes DEF Methods
  <2>3. CASE osAdapter = "fallback"
    <3>1. ~host.deno /\ ~host.requirable /\ method = FallbackOs(op)
      BY <1>1, <2>3, HostIs DEF OsOf
    <3>2. Offered("os", op) <=> (op = "homeDir" /\ host.process) \/ (op = "cpuCount" /\ host.navigator)
      BY <1>1, <3>1, NodeOsIs DEF Offered
    <3>3. /\ method \in {"absent", "constant", "plain"}
          /\ method = "plain" <=> (op = "homeDir" /\ host.process) \/ (op = "cpuCount" /\ host.navigator)
      BY <1>1, <3>1, NodeOsIs
    <3> HIDE DEF method
    <3> QED
      BY <1>1, <3>2, <3>3, Outcomes DEF Methods
  <2>4. CASE osAdapter = "none"
    <3>1. ~host.deno /\ ~host.requirable /\ ~host.process /\ ~host.navigator /\ method = "absent"
      BY <1>1, <2>4, HostIs DEF OsOf
    <3>2. ~Offered("os", op)
      BY <3>1 DEF Offered
    <3> HIDE DEF method
    <3> QED
      BY <3>1, <3>2, Outcomes DEF Methods
  <2> QED
    BY <1>1, <2>1, <2>2, <2>3, <2>4 DEF OsOf
<1>3. Offered("os", op)' = Offered("os", op)
  BY <1>1 DEF Offered
<1>4. answer \in IF does THEN {"value"} ELSE {"None", "default"}
  <2> HIDE DEF method, does
  <2> QED
    BY <1>2, OsSaid
<1> HIDE DEF method, answer
<1> QED
  BY <1>1, <1>3, <1>4 DEF PortsAnswer

\* The methods of the adapters for the process, of which exit never is missing.
LEMMA ProcessIs ==
  ASSUME host \in Hosts, NEW op \in ProcessOps
  PROVE  /\ host.deno => /\ DenoProcess(op) \in Methods \ {"constant"}
                         /\ DenoProcess(op) = "absent" <=> op \in host.lacks
                         /\ op = "exit" => DenoProcess(op) = "plain"
         /\ ~host.deno => /\ NodeProcess(op) \in Methods \ {"constant"}
                          /\ NodeProcess(op) = "absent" <=> op \in host.lacks
                          /\ op = "exit" => NodeProcess(op) = "plain"
<1>1. op \in host.lacks => op \in {"uid", "gid", "ppid", "execPath", "uptime", "memoryUsage"}
  BY HostIs DEF Spared, ProcessOps, WebOps, LaterFileOps
<1>2. op \in host.lacks /\ ~host.deno => op \in {"uid", "gid", "ppid", "execPath"}
  BY HostIs DEF Spared, ProcessOps, WebOps
<1> QED
  BY <1>1, <1>2 DEF DenoProcess, NodeProcess, IfThere, ProcessOps, Methods

LEMMA ProcessAnswers ==
  ASSUME PortsIInv, NEW op \in ProcessOps, NEW fails \in BOOLEAN, CallProcess(op, fails)
  PROVE  PortsAnswer'
<1> DEFINE method == CASE ProcessAdapter = "deno" -> DenoProcess(op) [] ProcessAdapter = "node" -> NodeProcess(op)
                       [] OTHER -> "absent"
           outcome == Outcome(method, fails)
           answer == ProcessAnswer(op, outcome)
           does == Offered("process", op) /\ ~fails
<1>1. /\ host' = host /\ called' = [port |-> "process", op |-> op, fails |-> fails, answer |-> answer]
      /\ fails => method \notin {"plain", "constant"}
      /\ host \in Hosts
  BY DEF CallProcess, Call, PortsIInv
<1>2. /\ Offered("process", op) <=> op \notin host.lacks /\ (host.deno \/ host.process)
      /\ Offered("process", op)' = Offered("process", op)
  BY <1>1 DEF Offered
<1>3. /\ method \in Methods \ {"constant"}
      /\ host.deno \/ host.process => (method = "absent" <=> op \in host.lacks) /\ (op = "exit" => method = "plain")
      /\ ~host.deno /\ ~host.process => method = "absent"
  <2>1. CASE host.deno
    BY <1>1, <2>1, ProcessIs DEF ProcessAdapter
  <2>2. CASE ~host.deno /\ host.process
    BY <1>1, <2>2, ProcessIs DEF ProcessAdapter
  <2>3. CASE ~host.deno /\ ~host.process
    BY <2>3 DEF ProcessAdapter, Methods
  <2> QED
    BY <1>1, <2>1, <2>2, <2>3, HostIs
<1>4. /\ outcome \in IF does THEN {"value"} ELSE {"absent", "default", "undefined", "throws"}
      /\ op = "exit" /\ ~does => ~host.deno /\ ~host.process
  <2> HIDE DEF method
  <2> QED
    BY <1>1, <1>2, <1>3, Outcomes, HostIs DEF Methods
<1>5. /\ answer \in IF does THEN {"value", "exits"} ELSE {"None", "Err", "default", "throws"}
      /\ answer = "throws" => op = "exit" /\ ~host.deno /\ ~host.process
  <2> HIDE DEF outcome, does
  <2> QED
    BY <1>4 DEF ProcessAnswer
<1> HIDE DEF method, answer
<1> QED
  BY <1>1, <1>2, <1>5 DEF PortsAnswer

\* A port keeps what was found for it.
LEMMA PortKept ==
  ASSUME PortsIInv, NEW port \in {"fs", "dns"}
  PROVE  Resolved(port) = PortOf(port)
  BY DEF PortsIInv, Resolved, PortOf

LEMMA FileAnswers ==
  ASSUME PortsIInv, NEW op \in FileOps, NEW fails \in BOOLEAN, CallFile(op, fails)
  PROVE  PortsAnswer'
<1> DEFINE method == CASE Resolved("fs") = "deno" -> DenoFs(op) [] Resolved("fs") = "node" -> NodeFs(op) [] OTHER -> "none"
           outcome == IF method = "none" THEN "none" ELSE Outcome(method, fails)
           answer == FileAnswer(op, outcome)
           does == Offered("file", op) /\ ~fails
<1>1. /\ host' = host /\ called' = [port |-> "file", op |-> op, fails |-> fails, answer |-> answer]
      /\ host \in Hosts /\ Resolved("fs") = PortOf("fs")
  BY PortKept DEF CallFile, Call, PortsIInv
<1>2. /\ Offered("file", op) <=> op \notin host.lacks /\ ((host.deno /\ "fs" \notin host.lacks) \/ host.importable)
      /\ Offered("file", op)' = Offered("file", op)
  BY <1>1 DEF Offered
<1>3. op \in host.lacks => host.deno /\ "fs" \notin host.lacks /\ op \in LaterFileOps
  BY <1>1, HostIs DEF Spared, FileOps, WebOps
<1>4. method = IF Offered("file", op) THEN "direct" ELSE IF PortOf("fs") = "deno" THEN "absent" ELSE "none"
  BY <1>1, <1>2, <1>3, HostIs DEF PortOf, DenoFs, NodeFs, IfThere
<1>5. outcome \in IF does THEN {"value"} ELSE {"absent", "none", "throws"}
  <2> HIDE DEF method
  <2> QED
    BY <1>4, Outcomes DEF Methods
<1>6. answer \in IF does THEN {"Ok"} ELSE IF op = "exists" THEN {"Ok", "Err"} ELSE {"Err"}
  <2> HIDE DEF outcome, does
  <2> QED
    BY <1>5 DEF FileAnswer, WithFs
<1> HIDE DEF method, answer
<1> QED
  BY <1>1, <1>2, <1>6 DEF PortsAnswer

LEMMA LookupAnswers ==
  ASSUME PortsIInv, NEW a \in {"some", "empty", "throws"}, NEW aaaa \in {"some", "empty", "throws"}, CallLookup(a, aaaa)
  PROVE  PortsAnswer'
<1> DEFINE found == IF Resolved("dns") = "deno" THEN IF a = "some" \/ aaaa = "some" THEN "value" ELSE "throws"
                    ELSE IF Resolved("dns") = "null" THEN "none" ELSE Outcome("direct", a # "some")
           fails == a # "some" /\ (Resolved("dns") = "deno" => aaaa # "some")
           does == Offered("dns", "lookup") /\ ~fails
<1>1. /\ host' = host /\ called' = [port |-> "dns", op |-> "lookup", fails |-> fails, answer |-> WithFs(found)]
      /\ host \in Hosts /\ Resolved("dns") = PortOf("dns")
  BY PortKept DEF CallLookup, Call, PortsIInv
<1>2. "lookup" \notin host.lacks
  BY <1>1, HostIs DEF Spared, WebOps, LaterFileOps
<1>3. /\ Offered("dns", "lookup") <=> PortOf("dns") # "null"
      /\ Offered("dns", "lookup")' = Offered("dns", "lookup")
  BY <1>1, <1>2, HostIs DEF Offered, PortOf
<1>4. found \in IF does THEN {"value"} ELSE {"throws", "none"}
  <2>1. Outcome("direct", a # "some") = IF a = "some" THEN "value" ELSE "throws"
    BY DEF Outcome
  <2> QED
    BY <1>1, <1>3, <2>1 DEF PortOf
<1>5. WithFs(found) = IF does THEN "Ok" ELSE "Err"
  <2> HIDE DEF found, does
  <2> QED
    BY <1>4 DEF WithFs
<1> HIDE DEF found, fails
<1> QED
  BY <1>1, <1>3, <1>5 DEF PortsAnswer

\* FFI and the Web APIs, where a call that the host does not know is an exception like others.
LEMMA CaughtAnswers ==
  ASSUME PortsIInv, NEW fails \in BOOLEAN, CallOpen(fails) \/ \E op \in WebOps : CallWeb(op, fails)
  PROVE  PortsAnswer'
<1>1. PICK port \in {"ffi", "web"}, op \in {"open"} \cup WebOps :
        /\ host' = host
        /\ called' = [port |-> port, op |-> op, fails |-> fails, answer |-> WithFs(Outcome(IfThere(op, "direct"), fails))]
  <2>1. "open" \notin host.lacks
    BY HostIs DEF PortsIInv, Spared, WebOps, LaterFileOps
  <2> QED
    BY <2>1 DEF CallOpen, CallWeb, Call, IfThere
<1>2. Offered(port, op) <=> op \notin host.lacks
  BY DEF Offered
<1>3. Offered(port, op)' = Offered(port, op)
  BY <1>1 DEF Offered
<1>4. WithFs(Outcome(IfThere(op, "direct"), fails)) = IF Offered(port, op) /\ ~fails THEN "Ok" ELSE "Err"
  BY <1>2, Outcomes DEF WithFs, IfThere, Methods
<1> QED
  BY <1>1, <1>3, <1>4 DEF PortsAnswer

LEMMA PortsInitIInv == PortsInit => PortsIInv
  BY DEF PortsInit, PortsIInv, PortsAnswer

LEMMA PortsNextIInv == PortsIInv /\ [PortsNext]_portVars => PortsIInv'
<1> SUFFICES ASSUME PortsIInv, [PortsNext]_portVars PROVE PortsIInv'
  OBVIOUS
<1>1. host' = host
  BY DEF portVars, PortsNext, InitRequire, ResolveOsInfo, CallOs, CallProcess, CallFile, CallWeb, CallOpen, CallLookup
<1>2. OsOf' = OsOf /\ \A port : PortOf(port)' = PortOf(port)
  BY <1>1 DEF OsOf, PortOf
<1>3. /\ required' \in {"unset", IF host.requirable THEN "ready" ELSE "null"}
      /\ osAdapter' \in {"unresolved", OsOf}
  <2>1. CASE InitRequire
    BY <2>1 DEF InitRequire, PortsIInv
  <2>2. CASE ResolveOsInfo
    BY <2>2 DEF ResolveOsInfo, PortsIInv, NodeOsModule, OsOf
  <2>3. CASE UNCHANGED <<required, osAdapter>>
    BY <2>3 DEF PortsIInv
  <2> QED
    BY <2>1, <2>2, <2>3 DEF portVars, PortsNext, CallOs, CallProcess, CallFile, CallWeb, CallOpen, CallLookup
<1>4. /\ DOMAIN ports' = {"fs", "dns"}
      /\ \A port \in {"fs", "dns"} : ports'[port] \in {"unset", PortOf(port)}
  <2>1. CASE UNCHANGED ports
    BY <2>1 DEF PortsIInv
  <2>2. ASSUME NEW port \in {"fs", "dns"}, ports' = [ports EXCEPT ![port] = Resolved(port)] PROVE <1>4
    BY <2>2, PortKept DEF PortsIInv
  <2> QED
    BY <2>1, <2>2 DEF portVars, PortsNext, InitRequire, ResolveOsInfo, CallOs, CallProcess, CallFile, CallWeb, CallOpen,
      CallLookup
<1>5. PortsAnswer'
  <2>1. CASE UNCHANGED <<host, called>>
    BY <2>1 DEF PortsIInv, PortsAnswer, Offered
  <2>2. CASE \E fails \in BOOLEAN, op \in OsOps : CallOs(op, fails)
    BY <2>2, OsAnswers
  <2>3. CASE \E fails \in BOOLEAN, op \in ProcessOps : CallProcess(op, fails)
    BY <2>3, ProcessAnswers
  <2>4. CASE \E fails \in BOOLEAN, op \in FileOps : CallFile(op, fails)
    BY <2>4, FileAnswers
  <2>5. CASE \E fails \in BOOLEAN : CallOpen(fails) \/ \E op \in WebOps : CallWeb(op, fails)
    BY <2>5, CaughtAnswers
  <2>6. CASE \E a, aaaa \in {"some", "empty", "throws"} : CallLookup(a, aaaa)
    BY <2>6, LookupAnswers
  <2> QED
    BY <1>1, <2>1, <2>2, <2>3, <2>4, <2>5, <2>6 DEF portVars, PortsNext, InitRequire, ResolveOsInfo
<1> QED
  BY <1>1, <1>2, <1>3, <1>4, <1>5 DEF PortsIInv

\* On every host (os.ts:24 "All methods return Option or a safe default, never throw"): no call
\* throws but an exit that nothing can make, what the host offers and does is answered by a
\* value, whenever the module was loaded and whichever adapter it got, and what it does not by
\* None, an Err or a constant.
THEOREM NothingThrows == PortsSpec => []PortsAnswer
<1>1. PortsIInv => PortsAnswer
  BY DEF PortsIInv
<1> QED
  BY <1>1, PortsInitIInv, PortsNextIInv, PTL DEF PortsSpec
-----------------------------------------------------------------------------
(* Keys.  What serves now must serve with every key that is imported later: *)
(* the invariant says with which keys each thing was made, and that all the *)
(* halves of a pair stay there with the usages they were generated with.   *)

\* The kinds of keys that crypto.ts knows, and what is there of a key.
KnownFamilies == Symmetric \cup Signs \cup Encrypts \cup {"ECDH"}
Halves(family) == IF family \in Symmetric THEN {"secret"} ELSE {"public", "private"}
Usages == {"sign", "verify", "encrypt", "decrypt", "deriveBits", "wrapKey", "unwrapKey"}
AllKeys == [family : KnownFamilies, half : {"secret", "public", "private"}, of : Nat, usages : SUBSET Usages]
Generated(family, half, of) == [family |-> family, half |-> half, of |-> of, usages |-> HalfUsages(family, half)]

\* What has been made with a key, by what it is.
Encrypted(box, key) ==
  /\ key.family \in Encrypts /\ box.data \in Texts
  /\ box = [sealed |-> key.family, by |-> key.of, data |-> box.data, iv |-> box.iv, extra |-> box.extra]
Signed(box, key) ==
  /\ key.family \in Signs
  /\ box = [sealed |-> key.family, by |-> key.of, data |-> box.data, hash |-> box.hash]
  /\ key.family = "HMAC" => box.hash = "its own"
Exported(box, key) == box = ExportKey(key)
Wrapped(box, key, wrapping) == box = [wrapped |-> ExportKey(key), by |-> wrapping.of]
MadeBy(box, key) ==
  Encrypted(box, key) \/ Signed(box, key) \/ Exported(box, key) \/ \E wrapping \in KeySet : Wrapped(box, key, wrapping)

\* Wherever a key came from, all that was generated with it is there, with all its usages; and
\* what has been made was made with a key that is there.
CryptoIInv ==
  /\ keys \in Seq(AllKeys)
  /\ \A key \in KeySet : \A half \in Halves(key.family) : Generated(key.family, half, key.of) \in KeySet
  /\ \A box \in sealed : \E key \in KeySet : MadeBy(box, key)

\* The kinds are those there are, and no text is taken for one that did not come out as it went in.
CryptoHypothesis == Families \subseteq KnownFamilies /\ "garbled" \notin Texts

LEMMA UsagesAre ==
  ASSUME NEW family \in KnownFamilies
  PROVE  /\ family \in Signs => UsagesOf(family) = {"sign", "verify"}
         /\ family \in Encrypts => UsagesOf(family) = {"encrypt", "decrypt"}
         /\ family = "ECDH" => UsagesOf(family) = {"deriveBits"}
         /\ family \in Signs \/ family \in Encrypts \/ family = "ECDH"
  BY DEF KnownFamilies, Symmetric, Signs, Encrypts, UsagesOf

LEMMA HalvesAre ==
  ASSUME NEW family \in KnownFamilies
  PROVE  /\ Half(family, TRUE) \in Halves(family) /\ Half(family, FALSE) \in Halves(family)
         /\ family \in Encrypts => "decrypt" \in HalfUsages(family, Half(family, TRUE))
         /\ family \in Signs => "verify" \in HalfUsages(family, Half(family, FALSE))
         /\ \A half \in Halves(family) : HalfUsages(family, half) \subseteq Usages
  BY UsagesAre DEF Half, Halves, HalfUsages, Usages

LEMMA HalfUsagesAre ==
  ASSUME NEW family \in KnownFamilies, NEW half \in {"secret", "public", "private"}
  PROVE  HalfUsages(family, half) \in SUBSET Usages
  BY UsagesAre DEF HalfUsages, Usages

LEMMA Grown ==
  ASSUME CryptoIInv, NEW results \in Seq(AllKeys), keys' = keys \o results
  PROVE  keys' \in Seq(AllKeys) /\ KeySet' = KeySet \cup {results[i] : i \in DOMAIN results}
<1>1. /\ Len(keys) \in Nat /\ Len(results) \in Nat /\ DOMAIN keys = 1..Len(keys) /\ DOMAIN results = 1..Len(results)
      /\ keys' \in Seq(AllKeys) /\ DOMAIN keys' = 1..Len(keys) + Len(results)
      /\ \A i \in DOMAIN keys' : keys'[i] = IF i <= Len(keys) THEN keys[i] ELSE results[i - Len(keys)]
  BY DEF CryptoIInv
<1>2. ASSUME NEW i \in DOMAIN keys' PROVE keys'[i] \in KeySet \cup {results[j] : j \in DOMAIN results}
  <2>1. CASE i <= Len(keys)
    BY <1>1, <2>1 DEF KeySet
  <2>2. CASE i > Len(keys)
    <3>1. i - Len(keys) \in DOMAIN results
      BY <1>1, <2>2
    <3> QED
      BY <1>1, <2>2, <3>1
  <2> QED
    BY <1>1, <2>1, <2>2
<1>3. ASSUME NEW i \in DOMAIN keys PROVE keys[i] \in KeySet'
  BY <1>1 DEF KeySet
<1>4. ASSUME NEW j \in DOMAIN results PROVE results[j] \in KeySet'
  <2>1. Len(keys) + j \in DOMAIN keys' /\ keys'[Len(keys) + j] = results[j]
    BY <1>1
  <2> QED
    BY <2>1 DEF KeySet
<1>5. ASSUME NEW key \in KeySet' PROVE key \in KeySet \cup {results[j] : j \in DOMAIN results}
  <2>1. PICK i \in DOMAIN keys' : key = keys'[i]
    BY DEF KeySet
  <2> QED
    BY <1>2, <2>1
<1>6. KeySet \subseteq KeySet'
  BY <1>3 DEF KeySet
<1> QED
  BY <1>1, <1>4, <1>5, <1>6

\* Keys that come with their other halves, or of which these are there already.
LEMMA GainIInv ==
  ASSUME CryptoIInv, NEW results \in Seq(AllKeys), keys' = keys \o results, sealed' = sealed,
         \A i \in DOMAIN results : \A half \in Halves(results[i].family) :
           \/ Generated(results[i].family, half, results[i].of) \in KeySet
           \/ \E j \in DOMAIN results : results[j] = Generated(results[i].family, half, results[i].of)
  PROVE  CryptoIInv'
<1>1. keys' \in Seq(AllKeys) /\ KeySet' = KeySet \cup {results[i] : i \in DOMAIN results}
  BY Grown
<1>2. ASSUME NEW key \in KeySet', NEW half \in Halves(key.family) PROVE Generated(key.family, half, key.of) \in KeySet'
  <2>1. CASE key \in KeySet
    BY <1>1, <2>1 DEF CryptoIInv
  <2>2. CASE \E i \in DOMAIN results : key = results[i]
    BY <1>1, <2>2
  <2> QED
    BY <1>1, <2>1, <2>2
<1>3. ASSUME NEW box \in sealed' PROVE \E key \in KeySet' : MadeBy(box, key)'
  <2>1. PICK key \in KeySet : MadeBy(box, key)
    BY DEF CryptoIInv
  <2>2. MadeBy(box, key)'
    BY <1>1, <2>1 DEF MadeBy, Encrypted, Signed, Exported, Wrapped, ExportKey
  <2> QED
    BY <1>1, <2>1, <2>2
<1> QED
  BY <1>1, <1>2, <1>3 DEF CryptoIInv

LEMMA SealIInv ==
  ASSUME CryptoIInv, NEW result, Seal(result), NEW key \in KeySet, MadeBy(result, key)
  PROVE  CryptoIInv'
<1>1. keys' = keys /\ sealed' = sealed \cup {result} /\ KeySet' = KeySet
  BY DEF Seal, KeySet
<1>2. ASSUME NEW box \in sealed' PROVE \E k \in KeySet' : MadeBy(box, k)'
  <2>1. PICK k \in KeySet : MadeBy(box, k)
    BY <1>1 DEF CryptoIInv
  <2>2. MadeBy(box, k)'
    BY <1>1, <2>1 DEF MadeBy, Encrypted, Signed, Exported, Wrapped, ExportKey
  <2> QED
    BY <1>1, <2>1, <2>2
<1> QED
  BY <1>1, <1>2 DEF CryptoIInv

LEMMA CryptoInitIInv == CryptoInit => CryptoIInv
  BY DEF CryptoInit, CryptoIInv, KeySet

LEMMA KeyIs ==
  ASSUME CryptoIInv, NEW key \in KeySet
  PROVE  key \in AllKeys
  BY DEF CryptoIInv, KeySet

LEMMA GenerateIInv ==
  ASSUME CryptoIInv, NEW family \in KnownFamilies, Gain(GenerateKey(family))
  PROVE  CryptoIInv'
<1> DEFINE results == GenerateKey(family)
           n == IF family \in Symmetric THEN 1 ELSE 2
           half(i) == IF family \in Symmetric THEN "secret" ELSE IF i = 1 THEN "public" ELSE "private"
<1>1. Len(keys) + 1 \in Nat
  BY DEF CryptoIInv
<1>2. \A i \in 1..n : half(i) \in Halves(family) /\ half(i) \in {"secret", "public", "private"}
  BY DEF Halves
<1>3. results = [i \in 1..n |-> Generated(family, half(i), Len(keys) + 1)]
  BY DEF GenerateKey, Generated
<1>4. \A i \in 1..n : Generated(family, half(i), Len(keys) + 1) \in AllKeys
  BY <1>1, <1>2, HalvesAre DEF Generated, AllKeys
<1>5. results \in Seq(AllKeys) /\ DOMAIN results = 1..n /\ n \in {1, 2}
  BY <1>3, <1>4
<1>6. ASSUME NEW i \in DOMAIN results, NEW h \in Halves(results[i].family)
      PROVE  \E j \in DOMAIN results : results[j] = Generated(results[i].family, h, results[i].of)
  <2>1. results[i].family = family /\ results[i].of = Len(keys) + 1
    BY <1>3, <1>5 DEF Generated
  <2>2. PICK j \in 1..n : half(j) = h
    BY <2>1 DEF Halves
  <2> QED
    BY <1>3, <1>5, <2>1, <2>2
<1>7. keys' = keys \o results /\ sealed' = sealed
  BY DEF Gain
<1> HIDE DEF results
<1> QED
  BY <1>5, <1>6, <1>7, GainIInv

\* An imported key has what the key had that was exported, but for the usages.
LEMMA ImportIInv ==
  ASSUME CryptoIInv, NEW key \in KeySet, NEW usages \in SUBSET Usages, Gain(<<ImportKey(ExportKey(key), usages)>>)
  PROVE  CryptoIInv'
<1> DEFINE new == [family |-> key.family, half |-> key.half, of |-> key.of, usages |-> usages]
<1>1. ImportKey(ExportKey(key), usages) # Err /\ keys' = keys \o <<ImportKey(ExportKey(key), usages)>> /\ sealed' = sealed
  BY DEF Gain, ToSet
<1>2. ImportKey(ExportKey(key), usages) = new
  BY <1>1 DEF ImportKey, ExportKey
<1>3. new \in AllKeys
  BY KeyIs DEF AllKeys
<1>4. \A half \in Halves(new.family) : Generated(new.family, half, new.of) \in KeySet
  BY DEF CryptoIInv
<1>5. <<new>> \in Seq(AllKeys) /\ DOMAIN <<new>> = {1} /\ <<new>>[1] = new
  BY <1>3
<1> DEFINE results == <<new>>
<1>6. \A i \in DOMAIN results : \A half \in Halves(results[i].family) :
        Generated(results[i].family, half, results[i].of) \in KeySet
  BY <1>4, <1>5
<1>7. results \in Seq(AllKeys) /\ keys' = keys \o results
  BY <1>1, <1>2, <1>5
<1> HIDE DEF results
<1> QED
  BY <1>1, <1>6, <1>7, GainIInv

\* What a box with the field of one kind is.
LEMMA BoxIs ==
  ASSUME CryptoIInv, NEW box \in sealed
  PROVE  /\ "iv" \in DOMAIN box => \E key \in KeySet : Encrypted(box, key)
         /\ "hash" \in DOMAIN box => \E key \in KeySet : Signed(box, key)
         /\ "exported" \in DOMAIN box => \E key \in KeySet : Exported(box, key)
         /\ "wrapped" \in DOMAIN box => \E key, wrapping \in KeySet : Wrapped(box, key, wrapping)
<1>1. PICK key \in KeySet : MadeBy(box, key)
  BY DEF CryptoIInv
<1>2. CASE Encrypted(box, key)
  <2>1. DOMAIN box = {"sealed", "by", "data", "iv", "extra"}
    BY <1>2 DEF Encrypted
  <2> QED
    BY <1>2, <2>1
<1>3. CASE Signed(box, key)
  <2>1. DOMAIN box = {"sealed", "by", "data", "hash"}
    BY <1>3 DEF Signed
  <2> QED
    BY <1>3, <2>1
<1>4. CASE Exported(box, key)
  <2>1. DOMAIN box = {"exported", "half", "by"}
    BY <1>4 DEF Exported, ExportKey
  <2> QED
    BY <1>4, <2>1
<1>5. CASE \E wrapping \in KeySet : Wrapped(box, key, wrapping)
  <2>1. DOMAIN box = {"wrapped", "by"}
    BY <1>5 DEF Wrapped
  <2> QED
    BY <1>5, <2>1
<1> QED
  BY <1>1, <1>2, <1>3, <1>4, <1>5 DEF MadeBy

LEMMA CryptoNextIInv == CryptoHypothesis /\ CryptoIInv /\ [CryptoNext]_cryptoVars => CryptoIInv'
<1> SUFFICES ASSUME CryptoHypothesis, CryptoIInv, [CryptoNext]_cryptoVars PROVE CryptoIInv'
  OBVIOUS
<1>1. CASE \E family \in Families : Gain(GenerateKey(family))
  BY <1>1, GenerateIInv DEF CryptoHypothesis
<1>2. CASE \E key \in KeySet, family \in Families \cap Encrypts, data \in Texts, extra \in {"none", "extra"} :
             Seal(Encrypt(key, family, data, extra))
  <2>1. PICK key \in KeySet, family \in Families \cap Encrypts, data \in Texts, extra \in {"none", "extra"} :
          Seal(Encrypt(key, family, data, extra))
    BY <1>2
  <2>2. /\ Encrypt(key, family, data, extra)
             = [sealed |-> family, by |-> key.of, data |-> data, iv |-> Cardinality(sealed), extra |-> extra]
        /\ key.family = family
    BY <2>1 DEF Seal, Encrypt, Asks
  <2>3. Encrypted(Encrypt(key, family, data, extra), key)
    BY <2>1, <2>2 DEF Encrypted
  <2> QED
    BY <2>1, <2>3, SealIInv DEF MadeBy
<1>3. CASE \E key \in KeySet, family \in Families \cap Signs, data \in Texts, hash \in Hashes : Seal(Sign(key, family, data, hash))
  <2>1. PICK key \in KeySet, family \in Families \cap Signs, data \in Texts, hash \in Hashes : Seal(Sign(key, family, data, hash))
    BY <1>3
  <2>2. /\ Sign(key, family, data, hash)
             = [sealed |-> family, by |-> key.of, data |-> data, hash |-> IF family = "HMAC" THEN "its own" ELSE hash]
        /\ key.family = family
    BY <2>1 DEF Seal, Sign, Asks
  <2>3. Signed(Sign(key, family, data, hash), key)
    <3> DEFINE own == IF family = "HMAC" THEN "its own" ELSE hash
               signature == [sealed |-> family, by |-> key.of, data |-> data, hash |-> own]
    <3>1. /\ signature.data = data /\ signature.hash = own
          /\ family = "HMAC" => own = "its own"
      OBVIOUS
    <3>2. Sign(key, family, data, hash) = signature /\ family \in Signs
      BY <2>1, <2>2
    <3> HIDE DEF own
    <3> QED
      BY <2>2, <3>1, <3>2 DEF Signed
  <2> QED
    BY <2>1, <2>3, SealIInv DEF MadeBy
<1>4. CASE \E key \in KeySet : Seal(ExportKey(key))
  BY <1>4, SealIInv DEF MadeBy, Exported
<1>5. CASE \E box \in Boxes("exported") : \E usages \in {HalfUsages(box.exported, box.half), {"wrapKey", "unwrapKey"}} :
             Gain(<<ImportKey(box, usages)>>)
  <2>0. PICK box \in Boxes("exported") : \E usages \in {HalfUsages(box.exported, box.half), {"wrapKey", "unwrapKey"}} :
          Gain(<<ImportKey(box, usages)>>)
    BY <1>5
  <2>1. PICK usages \in {HalfUsages(box.exported, box.half), {"wrapKey", "unwrapKey"}} : Gain(<<ImportKey(box, usages)>>)
    BY <2>0
  <2>2. PICK key \in KeySet : box = ExportKey(key)
    BY <2>1, BoxIs DEF Boxes, Exported
  <2>3. usages \in SUBSET Usages
    BY <2>1, <2>2, KeyIs, HalfUsagesAre DEF ExportKey, AllKeys, Usages
  <2> QED
    BY <2>1, <2>2, <2>3, ImportIInv
<1>6. CASE \E key, wrapping \in KeySet : Seal(WrapKey(key, wrapping))
  <2>1. PICK key \in KeySet, wrapping \in KeySet : Seal(WrapKey(key, wrapping))
    BY <1>6
  <2>2. WrapKey(key, wrapping) = [wrapped |-> ExportKey(key), by |-> wrapping.of]
    BY <2>1 DEF Seal, WrapKey
  <2> QED
    BY <2>1, <2>2, SealIInv DEF MadeBy, Wrapped
<1>7. CASE \E box \in Boxes("wrapped"), key \in KeySet :
             Gain(<<UnwrapKey(box, key, HalfUsages(box.wrapped.exported, box.wrapped.half))>>)
  <2>1. PICK box \in Boxes("wrapped"), unwrapping \in KeySet :
          Gain(<<UnwrapKey(box, unwrapping, HalfUsages(box.wrapped.exported, box.wrapped.half))>>)
    BY <1>7
  <2>2. PICK key \in KeySet, wrapping \in KeySet : box = [wrapped |-> ExportKey(key), by |-> wrapping.of]
    BY <2>1, BoxIs DEF Boxes, Wrapped
  <2> DEFINE usages == HalfUsages(key.family, key.half)
  <2>3. box.wrapped = ExportKey(key) /\ HalfUsages(box.wrapped.exported, box.wrapped.half) = usages
    BY <2>2 DEF ExportKey
  <2>4. usages \in SUBSET Usages
    BY KeyIs, HalfUsagesAre DEF AllKeys
  <2>5. UnwrapKey(box, unwrapping, usages) = ImportKey(ExportKey(key), usages)
    <3>1. UnwrapKey(box, unwrapping, usages) # Err
      BY <2>1, <2>3 DEF Gain, ToSet
    <3> QED
      BY <2>3, <3>1 DEF UnwrapKey
  <2> QED
    BY <2>1, <2>3, <2>4, <2>5, ImportIInv
<1>8. CASE UNCHANGED cryptoVars
  <2>1. keys' = keys /\ sealed' = sealed /\ KeySet' = KeySet
    BY <1>8 DEF cryptoVars, KeySet
  <2>2. \A box, key : MadeBy(box, key)' <=> MadeBy(box, key)
    BY <2>1 DEF MadeBy, Encrypted, Signed, Exported, Wrapped, ExportKey
  <2> QED
    BY <2>1, <2>2 DEF CryptoIInv
<1> QED
  BY <1>1, <1>2, <1>3, <1>4, <1>5, <1>6, <1>7, <1>8 DEF CryptoNext

\* Each part of KeysServe, from what a box and its key are.
LEMMA BoxesOpen ==
  ASSUME CryptoHypothesis, CryptoIInv, NEW box \in Boxes("iv")
  PROVE  /\ \E key \in KeySet : Decrypt(key, box.sealed, box, box.iv, box.extra) = {[text |-> box.data]}
         /\ \A key \in KeySet : [text |-> box.data] \in Decrypt(key, box.sealed, box, box.iv, box.extra) => key.of = box.by
<1>1. PICK maker \in KeySet : Encrypted(box, maker)
  BY BoxIs DEF Boxes
<1> DEFINE family == maker.family
           half == Half(family, TRUE)
           opener == Generated(family, half, maker.of)
<1>2. box.sealed = family /\ box.by = maker.of /\ box.data \in Texts /\ family \in Encrypts /\ family \in KnownFamilies
  BY <1>1, KeyIs DEF Encrypted, AllKeys
<1>3. opener \in KeySet
  BY <1>2, HalvesAre DEF CryptoIInv
<1>4. opener.family = family /\ opener.half = half /\ opener.of = box.by /\ "decrypt" \in opener.usages
  BY <1>2, HalvesAre DEF Generated
<1>5. Decrypt(opener, box.sealed, box, box.iv, box.extra) = {[text |-> box.data]}
  <2> HIDE DEF opener
  <2> QED
    BY <1>2, <1>4 DEF Decrypt, Asks
<1>6. ASSUME NEW key \in KeySet, [text |-> box.data] \in Decrypt(key, box.sealed, box, box.iv, box.extra), key.of # box.by
      PROVE FALSE
  <2>1. Decrypt(key, box.sealed, box, box.iv, box.extra) \subseteq {Err, [text |-> "garbled"]}
    BY <1>6 DEF Decrypt
  <2>2. [text |-> box.data] # Err
    <3>1. [text |-> box.data].text = box.data /\ DOMAIN [text |-> box.data] = {"text"} /\ DOMAIN [err |-> TRUE] = {"err"}
      OBVIOUS
    <3> QED
      BY <3>1 DEF Err
  <2>3. [text |-> box.data].text = "garbled"
    BY <1>6, <2>1, <2>2
  <2> QED
    BY <1>2, <2>3 DEF CryptoHypothesis
<1> QED
  BY <1>3, <1>5, <1>6

LEMMA SignaturesHold ==
  ASSUME CryptoHypothesis, CryptoIInv, NEW box \in Boxes("hash")
  PROVE  \E key \in KeySet : \A data \in Texts, hash \in Hashes :
           Verify(key, box.sealed, box, data, hash) = [valid |-> data = box.data /\ (box.sealed = "HMAC" \/ hash = box.hash)]
<1>1. PICK maker \in KeySet : Signed(box, maker)
  BY BoxIs DEF Boxes
<1> DEFINE family == maker.family
           half == Half(family, FALSE)
           opener == Generated(family, half, maker.of)
<1>2. /\ box.sealed = family /\ box.by = maker.of /\ family \in Signs /\ family \in KnownFamilies
      /\ family = "HMAC" => box.hash = "its own"
      /\ box = [sealed |-> family, by |-> maker.of, data |-> box.data, hash |-> box.hash]
  <2>1. family \in KnownFamilies
    BY KeyIs DEF AllKeys
  <2>2. box = [sealed |-> family, by |-> maker.of, data |-> box.data, hash |-> box.hash]
    BY <1>1 DEF Signed
  <2>3. box.sealed = family /\ box.by = maker.of
    BY <2>2
  <2> QED
    BY <1>1, <2>1, <2>2, <2>3 DEF Signed
<1>3. opener \in KeySet
  BY <1>2, HalvesAre DEF CryptoIInv
<1>4. opener.family = family /\ opener.half = half /\ opener.of = maker.of /\ "verify" \in opener.usages
  BY <1>2, HalvesAre DEF Generated
<1>5. ASSUME NEW data \in Texts, NEW hash \in Hashes
      PROVE  Verify(opener, box.sealed, box, data, hash) = [valid |-> data = box.data /\ (box.sealed = "HMAC" \/ hash = box.hash)]
  <2> DEFINE own == IF family = "HMAC" THEN "its own" ELSE hash
             whole == [sealed |-> family, by |-> maker.of, data |-> data, hash |-> own]
  <2>1. (box = whole) = (data = box.data /\ own = box.hash)
    <3> HIDE DEF own
    <3>1. box = whole => data = box.data /\ own = box.hash
      OBVIOUS
    <3>2. data = box.data /\ own = box.hash => box = whole
      BY <1>2
    <3> QED
      BY <3>1, <3>2
  <2>2. (own = box.hash) = (box.sealed = "HMAC" \/ hash = box.hash)
    BY <1>2
  <2>3. Verify(opener, family, box, data, hash) = [valid |-> box = whole]
    <3> HIDE DEF opener
    <3> QED
      BY <1>4 DEF Verify, Asks
  <2> HIDE DEF own, whole, opener
  <2> QED
    BY <1>2, <2>1, <2>2, <2>3
<1> QED
  BY <1>3, <1>5

LEMMA Serving == CryptoHypothesis /\ CryptoIInv => KeysServe
<1> SUFFICES ASSUME CryptoHypothesis, CryptoIInv PROVE KeysServe
  OBVIOUS
<1>1. ASSUME NEW a \in KeySet, NEW b \in KeySet, NEW c \in KeySet, NEW d \in KeySet,
             a.of = d.of, b.of = c.of, DeriveBits(a, b) # Err, DeriveBits(c, d) # Err
      PROVE  DeriveBits(a, b) = DeriveBits(c, d)
  BY <1>1 DEF DeriveBits
<1> QED
  BY <1>1, BoxesOpen, SignaturesHold DEF KeysServe

\* crypto.ts:186-189, for any number of keys of all the families, however often they are
\* exported, wrapped and imported: each text can be read by a key that is there and by no
\* other, each signature is accepted for what it was made of, and two pairs share the same.
THEOREM KeysAlwaysServe == CryptoHypothesis => (CryptoSpec => []KeysServe)
<1> SUFFICES ASSUME CryptoHypothesis PROVE CryptoSpec => []KeysServe
  OBVIOUS
<1>1. CryptoInit => CryptoIInv
  BY CryptoInitIInv
<1>2. CryptoIInv /\ [CryptoNext]_cryptoVars => CryptoIInv'
  BY CryptoNextIInv
<1>3. CryptoIInv => KeysServe
  BY Serving
<1> QED
  BY <1>1, <1>2, <1>3, PTL DEF CryptoSpec
-----------------------------------------------------------------------------
(* Composed types.  That a composer answers with the type it made before   *)
(* rests on its cache: it has whatever was composed, once.                 *)

\* What a type can be of.
Kinds == {Scalars[i] : i \in DOMAIN Scalars} \cup Unary \cup Binary \cup {"Tuple"}

\* What a type is made of is what it was asked for with, a cache has one type for what it is
\* looked up by, and what a composer has made is in its cache.
NominalIInv ==
  /\ types \in Seq([composer : Kinds, inner : Seq(Nat)])
  /\ caches \in [Unary \cup Binary -> SUBSET [inner : Seq(Nat), type : Nat]]
  /\ \A composer \in Unary \cup Binary : \A e \in caches[composer] :
       /\ e.type \in DOMAIN types /\ types[e.type] = [composer |-> composer, inner |-> e.inner]
       /\ \A f \in caches[composer] : f.inner = e.inner => f = e
  /\ \A a \in composed :
       /\ a.type \in DOMAIN types /\ types[a.type] = [composer |-> a.composer, inner |-> a.inner]
       /\ a.composer \in Unary \cup Binary => [inner |-> a.inner, type |-> a.type] \in caches[a.composer]
       /\ a.composer \in Unary \cup Binary \cup {"Tuple"}

LEMMA NominalInitIInv == Scalars \in Seq(STRING) /\ NominalInit => NominalIInv
<1> SUFFICES ASSUME Scalars \in Seq(STRING), NominalInit PROVE NominalIInv
  OBVIOUS
<1>1. types \in Seq([composer : Kinds, inner : Seq(Nat)])
  <2>1. DOMAIN Scalars = 1..Len(Scalars) /\ Len(Scalars) \in Nat /\ \A i \in 1..Len(Scalars) : Scalars[i] \in Kinds
    BY DEF Kinds
  <2>2. \A i \in 1..Len(Scalars) : [composer |-> Scalars[i], inner |-> <<>>] \in [composer : Kinds, inner : Seq(Nat)]
    BY <2>1
  <2> QED
    BY <2>1, <2>2 DEF NominalInit
<1> QED
  BY <1>1 DEF NominalInit, NominalIInv

LEMMA CachedIs ==
  ASSUME NominalIInv, NEW c \in Unary \cup Binary, NEW e \in caches[c]
  PROVE  /\ e \in [inner : Seq(Nat), type : Nat]
         /\ e.type \in DOMAIN types /\ types[e.type] = [composer |-> c, inner |-> e.inner]
         /\ \A f \in caches[c] : f.inner = e.inner => f = e
  BY DEF NominalIInv

LEMMA ComposedIs ==
  ASSUME NominalIInv, NEW a \in composed
  PROVE  /\ a.type \in DOMAIN types /\ types[a.type] = [composer |-> a.composer, inner |-> a.inner]
         /\ a.composer \in Unary \cup Binary => [inner |-> a.inner, type |-> a.type] \in caches[a.composer]
         /\ a.composer \in Unary \cup Binary \cup {"Tuple"}
  BY DEF NominalIInv

LEMMA ComposeIInv ==
  ASSUME NominalIInv, NEW composer \in Unary \cup Binary \cup {"Tuple"}, NEW inner \in Seq(Nat), Compose(composer, inner)
  PROVE  NominalIInv'
<1>0. composer \in Kinds /\ Len(types) \in Nat /\ DOMAIN types = 1..Len(types)
  <2>1. Len(types) \in Nat /\ DOMAIN types = 1..Len(types)
    BY DEF NominalIInv
  <2> QED
    BY <2>1 DEF Kinds
<1>1. CASE composer # "Tuple" /\ Built(composer, inner) # {}
  <2>1. PICK e \in caches[composer] :
          e.inner = inner /\ composed' = composed \cup {[composer |-> composer, inner |-> inner, type |-> e.type]}
    BY <1>1 DEF Compose, Built, CacheOf
  <2>2. UNCHANGED <<types, caches>>
    BY <1>1 DEF Compose
  <2>3. e = [inner |-> inner, type |-> e.type]
    BY <1>1, <2>1 DEF NominalIInv, Unary, Binary
  <2> QED
    <3>1. ASSUME NEW a \in composed'
          PROVE  /\ a.type \in DOMAIN types /\ types[a.type] = [composer |-> a.composer, inner |-> a.inner]
                 /\ a.composer \in Unary \cup Binary => [inner |-> a.inner, type |-> a.type] \in caches[a.composer]
                 /\ a.composer \in Unary \cup Binary \cup {"Tuple"}
      <4>1. CASE a \in composed
        BY <4>1, ComposedIs
      <4>2. CASE a = [composer |-> composer, inner |-> inner, type |-> e.type]
        BY <1>1, <2>1, <2>3, <4>2, CachedIs
      <4> QED
        BY <2>1, <4>1, <4>2
    <3> QED
      BY <2>2, <3>1 DEF NominalIInv
<1>2. CASE ~(composer # "Tuple" /\ Built(composer, inner) # {})
  <2> DEFINE new == Len(types) + 1
  <2>1. /\ types' = Append(types, [composer |-> composer, inner |-> inner])
        /\ caches' = IF composer = "Tuple" THEN caches
                     ELSE [caches EXCEPT ![composer] = @ \cup {[inner |-> inner, type |-> new]}]
        /\ composed' = composed \cup {[composer |-> composer, inner |-> inner, type |-> new]}
    BY <1>2 DEF Compose, CacheOf
  <2>2. /\ types' \in Seq([composer : Kinds, inner : Seq(Nat)])
        /\ DOMAIN types' = 1..new /\ types'[new] = [composer |-> composer, inner |-> inner]
        /\ \A i \in DOMAIN types : i \in DOMAIN types' /\ types'[i] = types[i]
    BY <1>0, <2>1 DEF NominalIInv
  <2>3. composer # "Tuple" => \A e \in caches[composer] : e.inner # inner
    BY <1>2 DEF Built, CacheOf
  <2>4. new \in DOMAIN types'
    BY <1>0, <2>2
  <2> HIDE DEF new
  <2>5. ASSUME NEW c \in Unary \cup Binary, NEW e \in caches'[c]
        PROVE  /\ e.type \in DOMAIN types' /\ types'[e.type] = [composer |-> c, inner |-> e.inner]
               /\ \A f \in caches'[c] : f.inner = e.inner => f = e
    <3>1. CASE c = composer
      <4>1. caches'[c] = caches[c] \cup {[inner |-> inner, type |-> new]} /\ composer # "Tuple"
        BY <2>1, <3>1 DEF NominalIInv, Unary, Binary
      <4> QED
        <5>1. CASE e = [inner |-> inner, type |-> new]
          BY <2>2, <2>3, <2>4, <3>1, <4>1, <5>1
        <5>2. CASE e \in caches[c]
          BY <2>2, <2>3, <3>1, <4>1, <5>2 DEF NominalIInv
        <5> QED
          BY <4>1, <5>1, <5>2
    <3>2. CASE c # composer
      <4>1. caches'[c] = caches[c]
        BY <2>1, <3>2 DEF NominalIInv
      <4> QED
        BY <2>2, <4>1 DEF NominalIInv
    <3> QED
      BY <3>1, <3>2
  <2>6. \A c \in Unary \cup Binary : caches[c] \subseteq caches'[c]
    BY <2>1 DEF NominalIInv
  <2>7. composer \in Unary \cup Binary => [inner |-> inner, type |-> new] \in caches'[composer]
    BY <2>1 DEF NominalIInv, Unary, Binary
  <2>8. ASSUME NEW a \in composed'
        PROVE  /\ a.type \in DOMAIN types' /\ types'[a.type] = [composer |-> a.composer, inner |-> a.inner]
               /\ a.composer \in Unary \cup Binary => [inner |-> a.inner, type |-> a.type] \in caches'[a.composer]
               /\ a.composer \in Unary \cup Binary \cup {"Tuple"}
    <3>1. CASE a \in composed
      BY <2>2, <2>6, <3>1, ComposedIs
    <3>2. CASE a = [composer |-> composer, inner |-> inner, type |-> new]
      BY <2>2, <2>4, <2>7, <3>2
    <3> QED
      BY <2>1, <3>1, <3>2
  <2>9. caches' \in [Unary \cup Binary -> SUBSET [inner : Seq(Nat), type : Nat]]
    <3>1. [inner |-> inner, type |-> new] \in [inner : Seq(Nat), type : Nat]
      BY <1>0 DEF new
    <3> QED
      BY <2>1, <3>1 DEF NominalIInv
  <2> QED
    BY <2>2, <2>5, <2>8, <2>9 DEF NominalIInv
<1> QED
  BY <1>1, <1>2

LEMMA NominalNextIInv == NominalIInv /\ [NominalNext]_nominalVars => NominalIInv'
<1> SUFFICES ASSUME NominalIInv, [NominalNext]_nominalVars PROVE NominalIInv'
  OBVIOUS
<1>1. CASE \E composer \in Unary, t \in DOMAIN types : Compose(composer, <<t>>)
  <2>1. \A t \in DOMAIN types : <<t>> \in Seq(Nat)
    BY DEF NominalIInv
  <2> QED
    BY <1>1, <2>1, ComposeIInv
<1>2. CASE \E composer \in Binary \cup {"Tuple"}, a, b \in DOMAIN types : Compose(composer, <<a, b>>)
  <2>1. \A a, b \in DOMAIN types : <<a, b>> \in Seq(Nat)
    BY DEF NominalIInv
  <2> QED
    BY <1>2, <2>1, ComposeIInv
<1>3. CASE UNCHANGED <<types, caches, composed>>
  BY <1>3 DEF NominalIInv
<1> QED
  BY <1>1, <1>2, <1>3 DEF NominalNext, Fail, nominalVars

LEMMA OneTypeEach == NominalIInv => TypesAreOne
<1> SUFFICES ASSUME NominalIInv, NEW a \in composed, NEW b \in composed
             PROVE  /\ a.composer # "Tuple" => (a.type = b.type <=> a.composer = b.composer /\ a.inner = b.inner)
                    /\ a.type = b.type => a.composer = b.composer /\ a.inner = b.inner
  BY DEF TypesAreOne
<1>1. a.type = b.type => a.composer = b.composer /\ a.inner = b.inner
  <2>1. /\ types[a.type] = [composer |-> a.composer, inner |-> a.inner]
        /\ types[b.type] = [composer |-> b.composer, inner |-> b.inner]
    BY DEF NominalIInv
  <2> QED
    BY <2>1
<1>2. ASSUME a.composer # "Tuple", a.composer = b.composer, a.inner = b.inner PROVE a.type = b.type
  <2>1. /\ [inner |-> a.inner, type |-> a.type] \in caches[a.composer]
        /\ [inner |-> b.inner, type |-> b.type] \in caches[a.composer]
        /\ a.composer \in Unary \cup Binary
    BY <1>2 DEF NominalIInv
  <2>2. [inner |-> a.inner, type |-> a.type] = [inner |-> b.inner, type |-> b.type]
    <3> DEFINE e == [inner |-> a.inner, type |-> a.type]
               f == [inner |-> b.inner, type |-> b.type]
    <3>1. e \in caches[a.composer] /\ f \in caches[a.composer] /\ e.inner = f.inner
      BY <1>2, <2>1
    <3> HIDE DEF e, f
    <3>2. e = f
      BY <2>1, <3>1, CachedIs
    <3> QED
      BY <3>2 DEF e, f
  <2> QED
    BY <2>2
<1> QED
  BY <1>1, <1>2

\* composers.ts:24 "same inner(s) produce the same class", for any scalars and any number of
\* types: a composer but Tuple answers with one type for the types it is called with, whatever
\* was composed between two calls, and no type answers two calls that differ.
THEOREM Composed == Scalars \in Seq(STRING) => (NominalSpec => []TypesAreOne)
  BY NominalInitIInv, NominalNextIInv, OneTypeEach, PTL DEF NominalSpec
-----------------------------------------------------------------------------
(* Lists.  No operation writes to an array that is there already: all that *)
(* is written is written by callers, and to arrays that wrote then has.    *)

\* What "s" holds is left open.
IsSequence(s) == s \in Seq({s[i] : i \in DOMAIN s})

\* What a list wraps is as it was, unless a caller wrote to it.
ListIInv ==
  /\ IsSequence(arrays) /\ held \subseteq DOMAIN arrays
  /\ \A l \in lists : l.raw \in DOMAIN arrays /\ (l.raw \notin wrote => arrays[l.raw] = l.was)

LEMMA AnyLength ==
  ASSUME NEW t, NEW n \in Nat, t = [i \in 1..n |-> t[i]]
  PROVE  IsSequence(t)
<1> DEFINE S == {t[i] : i \in DOMAIN t}
<1>1. DOMAIN t = 1..n /\ \A i \in 1..n : t[i] \in S
  OBVIOUS
<1> HIDE DEF S
<1>2. t \in Seq(S)
  BY <1>1
<1> QED
  BY <1>2 DEF IsSequence, S

LEMMA Appended ==
  ASSUME NEW s, IsSequence(s), NEW e
  PROVE  /\ IsSequence(Append(s, e)) /\ Len(s) + 1 \notin DOMAIN s
         /\ DOMAIN Append(s, e) = DOMAIN s \cup {Len(s) + 1}
         /\ Append(s, e)[Len(s) + 1] = e
         /\ \A i \in DOMAIN s : Append(s, e)[i] = s[i]
<1> DEFINE S == {s[i] : i \in DOMAIN s} \cup {e}
           t == Append(s, e)
<1>1. s \in Seq(S) /\ e \in S
  <2>1. Len(s) \in Nat /\ DOMAIN s = 1..Len(s) /\ \A i \in 1..Len(s) : s[i] \in S
    BY DEF IsSequence
  <2>2. s = [i \in 1..Len(s) |-> s[i]]
    BY DEF IsSequence
  <2> QED
    BY <2>1, <2>2
<1> HIDE DEF S
<1>2. t \in Seq(S) /\ Len(t) = Len(s) + 1 /\ DOMAIN s = 1..Len(s)
  BY <1>1
<1>3. Len(s) \in Nat /\ DOMAIN t = 1..Len(s) + 1
  BY <1>1, <1>2
<1>4. t[Len(s) + 1] = e
  BY <1>1
<1>5. \A i \in DOMAIN s : t[i] = s[i]
  BY <1>1
<1> HIDE DEF t
<1>6. t = [i \in 1..Len(s) + 1 |-> t[i]]
  BY <1>2, <1>3
<1>7. IsSequence(t)
  BY <1>3, <1>6, AnyLength
<1>8. 1..Len(s) + 1 = (1..Len(s)) \cup {Len(s) + 1} /\ Len(s) + 1 \notin 1..Len(s)
  BY <1>3
<1> QED
  BY <1>2, <1>3, <1>4, <1>5, <1>7, <1>8 DEF t

LEMMA Rewritten ==
  ASSUME NEW s, IsSequence(s), NEW a, NEW e
  PROVE  IsSequence([s EXCEPT ![a] = e]) /\ DOMAIN [s EXCEPT ![a] = e] = DOMAIN s
<1> DEFINE t == [s EXCEPT ![a] = e]
<1>1. Len(s) \in Nat /\ DOMAIN s = 1..Len(s)
  BY DEF IsSequence
<1>2. DOMAIN t = 1..Len(s) /\ t = [i \in 1..Len(s) |-> t[i]]
  BY <1>1
<1> HIDE DEF t
<1>3. IsSequence(t)
  BY <1>1, <1>2, AnyLength
<1> QED
  BY <1>1, <1>2, <1>3 DEF t

LEMMA ListInitIInv == ListInit => ListIInv
<1> SUFFICES ASSUME ListInit PROVE ListIInv
  OBVIOUS
<1>1. IsSequence(<<>>)
  BY DEF IsSequence
<1> QED
  BY <1>1 DEF ListInit, ListIInv

\* A new array, with a list of it or held by a caller.
LEMMA AddedIInv ==
  ASSUME ListIInv, NEW s, arrays' = Append(arrays, s), wrote' = wrote,
         \/ held' = held /\ \E brand : lists' = lists \cup {[raw |-> Len(arrays) + 1, nonEmpty |-> brand, was |-> s]}
         \/ held' = held \cup {Len(arrays) + 1} /\ lists' = lists
  PROVE  ListIInv'
<1> DEFINE new == Len(arrays) + 1
<1>1. /\ IsSequence(arrays') /\ DOMAIN arrays' = DOMAIN arrays \cup {new}
      /\ arrays'[new] = s /\ \A i \in DOMAIN arrays : arrays'[i] = arrays[i]
  BY Appended DEF ListIInv
<1> HIDE DEF new
<1>2. \A l \in lists : l.raw \in DOMAIN arrays' /\ (l.raw \notin wrote' => arrays'[l.raw] = l.was)
  BY <1>1 DEF ListIInv
<1>3. CASE held' = held /\ \E brand : lists' = lists \cup {[raw |-> new, nonEmpty |-> brand, was |-> s]}
  <2>1. PICK brand : lists' = lists \cup {[raw |-> new, nonEmpty |-> brand, was |-> s]}
    BY <1>3
  <2>2. held' \subseteq DOMAIN arrays'
    BY <1>1, <1>3 DEF ListIInv
  <2>3. ASSUME NEW l \in lists' PROVE l.raw \in DOMAIN arrays' /\ (l.raw \notin wrote' => arrays'[l.raw] = l.was)
    <3>1. CASE l \in lists
      BY <1>2, <3>1
    <3>2. CASE l = [raw |-> new, nonEmpty |-> brand, was |-> s]
      BY <1>1, <3>2
    <3> QED
      BY <2>1, <3>1, <3>2
  <2> QED
    BY <1>1, <2>2, <2>3 DEF ListIInv
<1>4. CASE held' = held \cup {new} /\ lists' = lists
  <2>1. held' \subseteq DOMAIN arrays'
    BY <1>1, <1>4 DEF ListIInv
  <2> QED
    BY <1>1, <1>2, <1>4, <2>1 DEF ListIInv
<1> QED
  BY <1>3, <1>4 DEF new

LEMMA WrapsIInv ==
  ASSUME ListIInv, NEW op, NEW of, NEW args, NEW s, NEW brand, Wraps(op, of, args, s, brand)
  PROVE  ListIInv'
  BY AddedIInv DEF Wraps

\* A list of an array that a caller holds, and an array that a list hands out.
LEMMA SharedIInv ==
  ASSUME ListIInv, (\E a, brand : NewList(a, brand)) \/ (\E l \in lists : HandOut(l))
  PROVE  ListIInv'
<1>1. CASE \E a, brand : NewList(a, brand)
  <2>1. PICK a, brand : NewList(a, brand)
    BY <1>1
  <2>2. /\ a \in held /\ arrays' = arrays /\ held' = held /\ wrote' = wrote
        /\ lists' = lists \cup {[raw |-> a, nonEmpty |-> brand, was |-> arrays[a]]}
    BY <2>1 DEF NewList
  <2>3. ASSUME NEW l \in lists' PROVE l.raw \in DOMAIN arrays' /\ (l.raw \notin wrote' => arrays'[l.raw] = l.was)
    <3>1. CASE l \in lists
      BY <2>2, <3>1 DEF ListIInv
    <3>2. CASE l = [raw |-> a, nonEmpty |-> brand, was |-> arrays[a]]
      BY <2>2, <3>2 DEF ListIInv
    <3> QED
      BY <2>2, <3>1, <3>2
  <2> QED
    BY <2>2, <2>3 DEF ListIInv
<1>2. CASE \E l \in lists : HandOut(l)
  BY <1>2 DEF HandOut, ListIInv
<1> QED
  BY <1>1, <1>2

LEMMA CallersIInv ==
  ASSUME ListIInv, (\E s : NewArray(s)) \/ (\E a, s : CallerWrites(a, s))
  PROVE  ListIInv'
<1>1. CASE \E s : NewArray(s)
  <2>1. PICK s : NewArray(s)
    BY <1>1
  <2>2. arrays = <<>> /\ arrays' = <<s>> /\ held' = {1} /\ lists' = lists
    BY <2>1 DEF NewArray
  <2>3. lists = {}
    BY <2>2 DEF ListIInv
  <2>4. IsSequence(<<s>>) /\ DOMAIN <<s>> = {1}
    <3>1. <<s>> = [i \in 1..1 |-> <<s>>[i]]
      OBVIOUS
    <3>2. IsSequence(<<s>>)
      BY <3>1, AnyLength
    <3> QED
      BY <3>2
  <2> QED
    BY <2>2, <2>3, <2>4 DEF ListIInv
<1>2. CASE \E a, s : CallerWrites(a, s)
  <2>1. PICK a, s : CallerWrites(a, s)
    BY <1>2
  <2>2. /\ a \in held /\ arrays' = [arrays EXCEPT ![a] = s] /\ held' = held /\ lists' = lists
        /\ wrote' = wrote \cup ({a} \cap {l.raw : l \in lists})
    BY <2>1 DEF CallerWrites
  <2>3. IsSequence(arrays') /\ DOMAIN arrays' = DOMAIN arrays
    BY <2>2, Rewritten DEF ListIInv
  <2>4. ASSUME NEW l \in lists, l.raw \notin wrote' PROVE l.raw \notin wrote /\ arrays'[l.raw] = arrays[l.raw]
    BY <2>2, <2>4
  <2> QED
    BY <2>2, <2>3, <2>4 DEF ListIInv
<1> QED
  BY <1>1, <1>2

LEMMA ListNextIInv == ListIInv /\ [ListNext]_listVars => ListIInv'
<1> SUFFICES ASSUME ListIInv, [ListNext]_listVars PROVE ListIInv'
  OBVIOUS
<1>1. CASE (\E s : NewArray(s)) \/ (\E a, s : CallerWrites(a, s))
  BY <1>1, CallersIInv
<1>2. CASE (\E a : NewList(a, FALSE) \/ NonEmptyFrom(a)) \/ (\E l \in lists : HandOut(l))
  BY <1>2, SharedIInv DEF NonEmptyFrom
<1>3. CASE \E op, of, args, s, brand : Wraps(op, of, args, s, brand)
  BY <1>3, WrapsIInv
<1>4. CASE \E l \in lists : ToMutable(l)
  BY <1>4, AddedIInv DEF ToMutable
<1>5. CASE \E l \in lists : ToList(l)
  <2>1. PICK l \in lists : ToList(l)
    BY <1>5
  <2>2. lists' = lists \cup {[l EXCEPT !.nonEmpty = FALSE]} /\ arrays' = arrays /\ held' = held /\ wrote' = wrote
    BY <2>1 DEF ToList
  <2>3. [l EXCEPT !.nonEmpty = FALSE].raw = l.raw /\ [l EXCEPT !.nonEmpty = FALSE].was = l.was
    OBVIOUS
  <2> QED
    BY <2>2, <2>3 DEF ListIInv
<1>6. CASE UNCHANGED <<arrays, held, lists, wrote>>
  BY <1>6 DEF ListIInv
<1>7. ASSUME NEW l \in lists,
             \/ MapList(l) \/ FlatMapList(l) \/ UniqBy(l) \/ FilterList(l)
             \/ \E e \in Elements : ListAppend(l, e) \/ Prepend(l, e)
             \/ \E m \in lists : Concat(l, m)
             \/ \E i \in Indices, e \in Elements : SetAt(l, i, e)
             \/ \E i \in Indices : UpdateAt(l, i) \/ RemoveAtIndex(l, i)
             \/ \E i, j \in Indices : Slice(l, i, j)
             \/ \E dir \in {1, -1} : SortBy(l, dir)
      PROVE  ListIInv'
  BY <1>7, <1>3 DEF MapList, FlatMapList, UniqBy, FilterList, ListAppend, Prepend, Concat, SetAt, UpdateAt, RemoveAtIndex,
    Slice, SortBy
<1>8. CASE \E a \in held : CloneList(a)
  BY <1>3, <1>8 DEF CloneList
<1> QED
  BY <1>1, <1>2, <1>4, <1>5, <1>6, <1>7, <1>8 DEF ListNext, GroupBy, listVars

\* list.ts:6 "Immutable arrays with functional query and update methods": whatever is done with
\* lists, with copies of them and with other arrays, a list holds what it held when it was made,
\* unless a caller has written to the very array that it wraps, which it made the list of or
\* which $raw or toJSON() handed it.
THEOREM ListsAreKept == ListSpec => []ListsKeep
<1>1. ListIInv /\ [ListNext]_listVars => ListIInv'
  BY ListNextIInv
<1>2. ListIInv => ListsKeep
  BY DEF ListIInv, ListsKeep, Raw
<1> QED
  BY <1>1, <1>2, ListInitIInv, PTL DEF ListSpec
-----------------------------------------------------------------------------
(* Router.  The trie is a way to look at the routes, which TrieIs says of  *)
(* every node: whose segments lead to it and whose handlers it has.  A     *)
(* walk that goes down as far as it can (EndsAt) then ends where the       *)
(* routes end that fit the path and have nothing before them (OpenIsEnd).  *)

LEMMA LeastNumber ==
  ASSUME NEW T, T \subseteq Nat, T # {}
  PROVE  \E n \in T : \A m \in T : n <= m
<1> DEFINE W == {0..n : n \in T}
<1>1. W \subseteq FiniteSubsetsOf(Nat)
  <2>1. \A n \in T : 0..n \in SUBSET Nat
    OBVIOUS
  <2>2. ASSUME NEW n \in T PROVE IsFiniteSet(0..n)
    <3>1. 0 \in Int /\ n \in Int
      OBVIOUS
    <3> QED BY <3>1, FS_Interval
  <2> QED BY <2>1, <2>2 DEF FiniteSubsetsOf
<1>2. IsWellFoundedOn(StrictSubsetOrdering(Nat), FiniteSubsetsOf(Nat))
  BY FS_StrictSubsetOrderingWellFounded
<1>3. W # {}
  OBVIOUS
<1>4. \E x \in W : \A y \in W : <<y, x>> \notin StrictSubsetOrdering(Nat)
  <2> HIDE DEF W
  <2> QED BY <1>1, <1>2, <1>3, WFMin
<1>5. PICK n \in T : \A y \in W : <<y, 0..n>> \notin StrictSubsetOrdering(Nat)
  BY <1>4
<1>6. ASSUME NEW m \in T, m < n PROVE FALSE
  <2>1. 0..m \subseteq 0..n /\ n \in 0..n /\ n \notin 0..m
    BY <1>6
  <2>2. 0..m \in SUBSET Nat /\ 0..n \in SUBSET Nat
    OBVIOUS
  <2>3. <<0..m, 0..n>> \in StrictSubsetOrdering(Nat)
    BY <2>1, <2>2 DEF StrictSubsetOrdering
  <2> QED BY <2>3, <1>5
<1> QED BY <1>5, <1>6

Ways == {w \in Seq([kind : {"static", "param"}, name : Segments]) : \A i \in DOMAIN w : w[i].kind = "static" => w[i].name # ":"}
Edges == Segments \cup {":"}
Registered == [method : RouteMethods, pattern : Patterns]

Way(rs, q) == Leading(rs[q].pattern)

\* The routes that end at a node, and what the handlers there are then.
Ending(rs, p, wild) == {q \in DOMAIN rs : NodeOf(Way(rs, q)) = p /\ IsWild(rs[q].pattern) = wild}
HandlersAre(rs, h, ends) ==
  /\ DOMAIN h = {rs[q].method : q \in ends}
  /\ \A m \in DOMAIN h : h[m] \in ends /\ rs[h[m]].method = m

NodeIs(rs, p, node) ==
  /\ \A x \in node.param : \E q \in DOMAIN rs : x \in ParamNames(Way(rs, q), p)
  /\ \A q \in DOMAIN rs : ParamNames(Way(rs, q), p) # {} => node.param # {}
  /\ HandlersAre(rs, node.handlers, Ending(rs, p, FALSE))
  /\ HandlersAre(rs, node.wildcard, Ending(rs, p, TRUE))

\* The trie has the nodes that lead to the ends of routes, and in each what they say of it.
TrieIs(rs, t) ==
  /\ rs \in Seq(Registered)
  /\ <<>> \in DOMAIN t
  /\ \A q \in DOMAIN rs : \A i \in 0..Len(Way(rs, q)) : NodeAfter(Way(rs, q), i) \in DOMAIN t
  /\ \A p \in DOMAIN t : p = <<>> \/ \E q \in DOMAIN rs : \E i \in 0..Len(Way(rs, q)) : p = NodeAfter(Way(rs, q), i)
  /\ \A p \in DOMAIN t : NodeIs(rs, p, t[p])

LEMMA ElementIs ==
  ASSUME NEW S, NEW s \in Seq(S)
  PROVE  /\ Len(s) \in Nat /\ DOMAIN s = 1..Len(s) /\ s = [i \in 1..Len(s) |-> s[i]]
         /\ \A i \in DOMAIN s : i \in Nat /\ i >= 1 /\ i <= Len(s) /\ s[i] \in S
  OBVIOUS

LEMMA SequenceIs ==
  ASSUME NEW S, NEW n \in Nat, NEW f, f = [i \in 1..n |-> f[i]], \A i \in 1..n : f[i] \in S
  PROVE  f \in Seq(S) /\ Len(f) = n /\ DOMAIN f = 1..n
  OBVIOUS

LEMMA LeadingIs ==
  ASSUME NEW pattern \in Patterns
  PROVE  Leading(pattern) \in Ways
<1>1. pattern \in Seq([kind : {"static", "param", "wild"}, name : Segments])
      /\ \A i \in DOMAIN pattern : pattern[i].kind = "static" => pattern[i].name # ":"
  BY RouterAssumption
<1>2. Len(pattern) \in Nat /\ DOMAIN pattern = 1..Len(pattern) /\ pattern = [i \in 1..Len(pattern) |-> pattern[i]]
  BY <1>1, ElementIs
<1>3. \A i \in DOMAIN pattern : i \in Nat /\ i >= 1 /\ i <= Len(pattern)
                                /\ pattern[i] \in [kind : {"static", "param", "wild"}, name : Segments]
  BY <1>1, ElementIs
<1> DEFINE Plain == [kind : {"static", "param"}, name : Segments]
<1>4. \A i \in DOMAIN pattern : i \notin Wilds(pattern) => pattern[i] \in Plain
  BY <1>3 DEF Wilds
<1>5. CASE ~IsWild(pattern)
  <2>1. Leading(pattern) = pattern /\ \A i \in DOMAIN pattern : pattern[i] \in Plain
    BY <1>4, <1>5 DEF Leading, IsWild
  <2>2. pattern \in Seq(Plain)
    <3> HIDE DEF Plain
    <3> QED BY <1>2, <2>1, SequenceIs
  <2> QED BY <1>1, <2>1, <2>2 DEF Ways
<1>6. CASE IsWild(pattern)
  <2> DEFINE m == Min(Wilds(pattern))
  <2>1. Wilds(pattern) \subseteq Nat /\ Wilds(pattern) # {} /\ Wilds(pattern) \subseteq DOMAIN pattern
    BY <1>3, <1>6 DEF Wilds, IsWild
  <2>2. m \in Wilds(pattern) /\ \A n \in Wilds(pattern) : m <= n
    <3>1. \E n \in Wilds(pattern) : \A k \in Wilds(pattern) : n <= k
      BY <2>1, LeastNumber
    <3> QED BY <3>1 DEF Min
  <2> HIDE DEF m
  <2>3. m \in Nat /\ m - 1 \in Nat /\ m - 1 <= Len(pattern)
    BY <1>3, <2>1, <2>2
  <2> DEFINE w == SubSeq(pattern, 1, m - 1)
  <2>4. w = [i \in 1..(m - 1) |-> pattern[i]]
    BY <1>1, <1>2, <2>3
  <2>5. \A i \in 1..(m - 1) : i \in DOMAIN pattern /\ pattern[i] \in Plain
    <3> TAKE i \in 1..(m - 1)
    <3>1. i \in DOMAIN pattern /\ i \notin Wilds(pattern)
      BY <1>2, <2>2, <2>3
    <3> QED BY <1>4, <3>1
  <2> HIDE DEF w
  <2>6. w \in Seq(Plain) /\ DOMAIN w = 1..(m - 1) /\ \A i \in DOMAIN w : w[i] = pattern[i]
    BY <2>3, <2>4, <2>5
  <2>7. w \in Ways
    BY <1>1, <2>5, <2>6 DEF Ways
  <2> QED BY <1>6, <2>7 DEF Leading, m, w
<1> QED BY <1>5, <1>6

LEMMA WayIs ==
  ASSUME NEW w \in Ways
  PROVE  /\ Len(w) \in Nat /\ DOMAIN w = 1..Len(w)
         /\ \A i \in DOMAIN w : /\ i \in Nat /\ i >= 1 /\ w[i].kind \in {"static", "param"} /\ w[i].name \in Segments
                                /\ Edge(w[i]) \in Edges /\ (Edge(w[i]) = ":" <=> w[i].kind = "param")
                                /\ w[i].kind = "static" => Edge(w[i]) = w[i].name
<1>1. w \in Seq([kind : {"static", "param"}, name : Segments]) /\ \A i \in DOMAIN w : w[i].kind = "static" => w[i].name # ":"
  BY DEF Ways
<1>2. Len(w) \in Nat /\ DOMAIN w = 1..Len(w)
  BY <1>1, ElementIs
<1>3. \A i \in DOMAIN w : i \in Nat /\ i >= 1 /\ w[i] \in [kind : {"static", "param"}, name : Segments]
  BY <1>1, ElementIs
<1> QED BY <1>1, <1>2, <1>3 DEF Edge, Edges

LEMMA NodesOfWay ==
  ASSUME NEW w \in Ways, NEW i \in 0..Len(w)
  PROVE  /\ NodeAfter(w, i) \in Seq(Edges) /\ Len(NodeAfter(w, i)) = i /\ DOMAIN NodeAfter(w, i) = 1..i
         /\ \A j \in 1..i : NodeAfter(w, i)[j] = Edge(w[j])
         /\ \A j \in 0..i : UpTo(NodeAfter(w, i), j) = NodeAfter(w, j)
<1>1. i \in Nat /\ \A j \in 1..i : j \in DOMAIN w /\ Edge(w[j]) \in Edges
  BY WayIs
<1>2. NodeAfter(w, i) = [j \in 1..i |-> Edge(w[j])]
  BY DEF NodeAfter
<1>3. NodeAfter(w, i) \in Seq(Edges) /\ Len(NodeAfter(w, i)) = i
  BY <1>1, <1>2
<1>4. ASSUME NEW j \in 0..i PROVE UpTo(NodeAfter(w, i), j) = NodeAfter(w, j)
  <2>1. \A k \in 1..j : NodeAfter(w, i)[k] = Edge(w[k])
    BY <1>1, <1>2
  <2> QED BY <2>1 DEF UpTo, NodeAfter
<1> QED BY <1>2, <1>3, <1>4

LEMMA SameNode ==
  ASSUME NEW p \in Seq(Edges), NEW r \in Seq(Edges), Len(p) = Len(r), \A j \in 1..Len(p) : p[j] = r[j]
  PROVE  p = r
  OBVIOUS

\* One edge further.
LEMMA BelowIs ==
  ASSUME NEW end \in Seq(Edges), NEW e \in Edges
  PROVE  /\ Append(end, e) \in Seq(Edges) /\ Len(Append(end, e)) = Len(end) + 1
         /\ Append(end, e)[Len(end) + 1] = e /\ \A j \in 1..Len(end) : Append(end, e)[j] = end[j]
         /\ \A j \in 0..Len(end) : UpTo(Append(end, e), j) = UpTo(end, j)
         /\ UpTo(end, Len(end)) = end
<1> DEFINE b == Append(end, e)
<1>1. b \in Seq(Edges) /\ Len(b) = Len(end) + 1 /\ Len(end) \in Nat
  OBVIOUS
<1>2. b[Len(end) + 1] = e
  OBVIOUS
<1>3. \A j \in 1..Len(end) : b[j] = end[j]
  OBVIOUS
<1> HIDE DEF b
<1>4. ASSUME NEW j \in 0..Len(end) PROVE UpTo(b, j) = UpTo(end, j)
  <2>1. \A k \in 1..j : b[k] = end[k]
    BY <1>1, <1>3
  <2> QED BY <2>1 DEF UpTo
<1>5. UpTo(end, Len(end)) = end
  BY DEF UpTo
<1> QED BY <1>1, <1>2, <1>3, <1>4, <1>5 DEF b

LEMMA ChildOfNode ==
  ASSUME NEW w \in Ways, NEW i \in DOMAIN w
  PROVE  NodeAfter(w, i) = Append(NodeAfter(w, i - 1), Edge(w[i]))
<1>1. i \in Nat /\ i - 1 \in 0..Len(w) /\ i \in 0..Len(w) /\ Edge(w[i]) \in Edges
  BY WayIs
<1> DEFINE p == NodeAfter(w, i - 1)
           c == NodeAfter(w, i)
<1>2. /\ p \in Seq(Edges) /\ Len(p) = i - 1 /\ \A j \in 1..(i - 1) : p[j] = Edge(w[j])
      /\ c \in Seq(Edges) /\ Len(c) = i /\ \A j \in 1..i : c[j] = Edge(w[j])
  BY <1>1, NodesOfWay
<1> HIDE DEF p, c
<1>3. /\ Append(p, Edge(w[i])) \in Seq(Edges) /\ Len(Append(p, Edge(w[i]))) = i
      /\ Append(p, Edge(w[i]))[i] = Edge(w[i]) /\ \A j \in 1..(i - 1) : Append(p, Edge(w[i]))[j] = p[j]
  BY <1>1, <1>2, BelowIs
<1>4. \A j \in 1..i : c[j] = Append(p, Edge(w[i]))[j]
  <2> TAKE j \in 1..i
  <2>1. CASE j = i
    BY <1>2, <1>3, <2>1
  <2>2. CASE j # i
    <3>1. j \in 1..(i - 1)
      BY <1>1, <2>2
    <3> QED BY <1>2, <1>3, <3>1
  <2> QED BY <2>1, <2>2
<1>5. c = Append(p, Edge(w[i]))
  BY <1>2, <1>3, <1>4, SameNode
<1> QED BY <1>5 DEF p, c

\* One route more.
LEMMA RouteAdded ==
  ASSUME NEW rs \in Seq(Registered), NEW r \in Registered
  PROVE  /\ Append(rs, r) \in Seq(Registered) /\ Len(rs) + 1 \notin DOMAIN rs
         /\ DOMAIN Append(rs, r) = DOMAIN rs \cup {Len(rs) + 1}
         /\ Append(rs, r)[Len(rs) + 1] = r /\ \A q \in DOMAIN rs : Append(rs, r)[q] = rs[q]
<1> DEFINE b == Append(rs, r)
<1>1. b \in Seq(Registered) /\ Len(b) = Len(rs) + 1 /\ Len(rs) \in Nat /\ DOMAIN rs = 1..Len(rs)
  OBVIOUS
<1>2. b[Len(rs) + 1] = r
  OBVIOUS
<1>3. \A q \in 1..Len(rs) : b[q] = rs[q]
  OBVIOUS
<1>4. DOMAIN b = 1..(Len(rs) + 1)
  BY <1>1, ElementIs
<1> HIDE DEF b
<1> QED BY <1>1, <1>2, <1>3, <1>4 DEF b

LEMMA WaysOf ==
  ASSUME NEW rs \in Seq(Registered), NEW q \in DOMAIN rs
  PROVE  Way(rs, q) \in Ways /\ rs[q] \in Registered
<1>1. rs[q] \in Registered
  BY ElementIs
<1> QED BY <1>1, LeadingIs DEF Way, Registered

\* A node that is not there is as one that nothing was said of.
LEMMA OldNodeIs ==
  ASSUME NEW rs, NEW t, TrieIs(rs, t), NEW p
  PROVE  NodeIs(rs, p, IF p \in DOMAIN t THEN t[p] ELSE NoNode)
<1>1. CASE p \in DOMAIN t
  BY <1>1 DEF TrieIs
<1>2. CASE p \notin DOMAIN t
  <2>1. \A q \in DOMAIN rs : Way(rs, q) \in Ways
    BY WaysOf DEF TrieIs
  <2>2. ASSUME NEW q \in DOMAIN rs PROVE ParamNames(Way(rs, q), p) = {} /\ NodeOf(Way(rs, q)) # p
    <3>1. Len(Way(rs, q)) \in 0..Len(Way(rs, q)) /\ \A j \in DOMAIN Way(rs, q) : j - 1 \in 0..Len(Way(rs, q))
      BY <2>1, WayIs
    <3>2. \A i \in 0..Len(Way(rs, q)) : NodeAfter(Way(rs, q), i) # p
      BY <1>2 DEF TrieIs
    <3> QED BY <3>1, <3>2 DEF ParamNames, NodeOf
  <2>3. Ending(rs, p, FALSE) = {} /\ Ending(rs, p, TRUE) = {}
    BY <2>2 DEF Ending
  <2>4. NoNode.param = {} /\ DOMAIN NoNode.handlers = {} /\ DOMAIN NoNode.wildcard = {}
    BY DEF NoNode
  <2>5. NodeIs(rs, p, NoNode)
    BY <2>2, <2>3, <2>4 DEF NodeIs, HandlersAre
  <2> QED BY <1>2, <2>5
<1> QED BY <1>1, <1>2

LEMMA HandlersKept ==
  ASSUME NEW rs \in Seq(Registered), NEW r \in Registered, NEW h, NEW ends \in SUBSET DOMAIN rs, HandlersAre(rs, h, ends)
  PROVE  /\ HandlersAre(Append(rs, r), h, ends)
         /\ HandlersAre(Append(rs, r), SetHandler(h, r.method, Len(rs) + 1), ends \cup {Len(rs) + 1})
<1> DEFINE n == Len(rs) + 1
           rs2 == Append(rs, r)
           h2 == SetHandler(h, r.method, n)
<1>1. n \notin DOMAIN rs /\ rs2[n] = r /\ \A q \in DOMAIN rs : rs2[q] = rs[q]
  BY RouteAdded
<1> HIDE DEF n, rs2
<1>2. HandlersAre(rs2, h, ends)
  BY <1>1 DEF HandlersAre
<1>3. DOMAIN h2 = DOMAIN h \cup {r.method} /\ \A m \in DOMAIN h2 : h2[m] = IF m = r.method THEN n ELSE h[m]
  BY DEF SetHandler
<1> HIDE DEF h2
<1>4. HandlersAre(rs2, h2, ends \cup {n})
  <2>1. DOMAIN h2 = {rs2[q].method : q \in ends \cup {n}}
    BY <1>1, <1>2, <1>3 DEF HandlersAre
  <2>2. ASSUME NEW m \in DOMAIN h2 PROVE h2[m] \in ends \cup {n} /\ rs2[h2[m]].method = m
    BY <1>1, <1>2, <1>3, <2>2 DEF HandlersAre
  <2> QED BY <2>1, <2>2 DEF HandlersAre
<1> QED BY <1>2, <1>4 DEF n, rs2, h2

LEMMA InsertedIs ==
  ASSUME NEW rs, NEW t, TrieIs(rs, t), NEW r \in Registered
  PROVE  TrieIs(Append(rs, r), InsertRoute(t, r, Len(rs) + 1))
<1> DEFINE n == Len(rs) + 1
           rs2 == Append(rs, r)
           way == Leading(r.pattern)
           old(p) == IF p \in DOMAIN t THEN t[p] ELSE NoNode
           here(p, wild) == p = NodeOf(way) /\ IsWild(r.pattern) = wild
           t2 == InsertRoute(t, r, n)
<1>1. rs \in Seq(Registered) /\ way \in Ways
  BY LeadingIs DEF TrieIs, Registered
<1>2. /\ rs2 \in Seq(Registered) /\ n \notin DOMAIN rs /\ DOMAIN rs2 = DOMAIN rs \cup {n}
      /\ rs2[n] = r /\ \A q \in DOMAIN rs : rs2[q] = rs[q]
  BY <1>1, RouteAdded
<1>3. /\ DOMAIN t2 = DOMAIN t \cup {NodeAfter(way, i) : i \in 0..Len(way)}
      /\ \A p \in DOMAIN t2 :
           /\ t2[p].param = IF old(p).param = {} THEN ParamNames(way, p) ELSE old(p).param
           /\ t2[p].handlers = IF here(p, FALSE) THEN SetHandler(old(p).handlers, r.method, n) ELSE old(p).handlers
           /\ t2[p].wildcard = IF here(p, TRUE) THEN SetHandler(old(p).wildcard, r.method, n) ELSE old(p).wildcard
  BY DEF InsertRoute
<1> HIDE DEF t2
<1>4. Way(rs2, n) = way /\ IsWild(rs2[n].pattern) = IsWild(r.pattern)
      /\ \A q \in DOMAIN rs : Way(rs2, q) = Way(rs, q) /\ rs2[q].pattern = rs[q].pattern
  BY <1>2 DEF Way
<1>5. \A p, wild : Ending(rs2, p, wild) = IF here(p, wild) THEN Ending(rs, p, wild) \cup {n} ELSE Ending(rs, p, wild)
  <2> HIDE DEF way, rs2, n
  <2> QED BY <1>2, <1>4 DEF Ending
<1>6. ASSUME NEW p \in DOMAIN t2 PROVE NodeIs(rs2, p, t2[p])
  <2>1. NodeIs(rs, p, old(p))
    BY OldNodeIs
  <2> DEFINE o == old(p)
  <2> HIDE DEF o
  <2>2. NodeIs(rs, p, o)
    BY <2>1 DEF o
  <2>3. /\ t2[p].param = IF o.param = {} THEN ParamNames(way, p) ELSE o.param
        /\ t2[p].handlers = IF here(p, FALSE) THEN SetHandler(o.handlers, r.method, n) ELSE o.handlers
        /\ t2[p].wildcard = IF here(p, TRUE) THEN SetHandler(o.wildcard, r.method, n) ELSE o.wildcard
    BY <1>3, <1>6 DEF o
  <2> HIDE DEF old
  <2>4. \A wild : Ending(rs, p, wild) \in SUBSET DOMAIN rs
    BY DEF Ending
  <2>5. HandlersAre(rs2, t2[p].handlers, Ending(rs2, p, FALSE))
    <3>1. HandlersAre(rs, o.handlers, Ending(rs, p, FALSE))
      BY <2>2 DEF NodeIs
    <3>2. /\ HandlersAre(rs2, o.handlers, Ending(rs, p, FALSE))
          /\ HandlersAre(rs2, SetHandler(o.handlers, r.method, n), Ending(rs, p, FALSE) \cup {n})
      BY <1>1, <2>4, <3>1, HandlersKept
    <3> HIDE DEF here, rs2, n
    <3> QED BY <1>5, <2>3, <3>2
  <2>6. HandlersAre(rs2, t2[p].wildcard, Ending(rs2, p, TRUE))
    <3>1. HandlersAre(rs, o.wildcard, Ending(rs, p, TRUE))
      BY <2>2 DEF NodeIs
    <3>2. /\ HandlersAre(rs2, o.wildcard, Ending(rs, p, TRUE))
          /\ HandlersAre(rs2, SetHandler(o.wildcard, r.method, n), Ending(rs, p, TRUE) \cup {n})
      BY <1>1, <2>4, <3>1, HandlersKept
    <3> HIDE DEF here, rs2, n
    <3> QED BY <1>5, <2>3, <3>2
  <2> HIDE DEF here, rs2, n, way
  <2>7. \A x \in t2[p].param : \E q \in DOMAIN rs2 : x \in ParamNames(Way(rs2, q), p)
    BY <1>2, <1>4, <2>2, <2>3 DEF NodeIs
  <2>8. \A q \in DOMAIN rs2 : ParamNames(Way(rs2, q), p) # {} => t2[p].param # {}
    BY <1>2, <1>4, <2>2, <2>3 DEF NodeIs
  <2> QED BY <2>5, <2>6, <2>7, <2>8 DEF NodeIs
<1> HIDE DEF way, rs2, n
<1>7. <<>> \in DOMAIN t2
  BY <1>3 DEF TrieIs
<1>8. ASSUME NEW q \in DOMAIN rs2, NEW i \in 0..Len(Way(rs2, q)) PROVE NodeAfter(Way(rs2, q), i) \in DOMAIN t2
  <2>1. CASE q = n
    BY <1>3, <1>4, <1>8, <2>1
  <2>2. CASE q \in DOMAIN rs
    BY <1>3, <1>4, <1>8, <2>2 DEF TrieIs
  <2> QED BY <1>2, <1>8, <2>1, <2>2
<1>9. ASSUME NEW p \in DOMAIN t2
      PROVE  p = <<>> \/ \E q \in DOMAIN rs2 : \E i \in 0..Len(Way(rs2, q)) : p = NodeAfter(Way(rs2, q), i)
  <2>1. CASE p \in DOMAIN t
    BY <1>2, <1>4, <2>1 DEF TrieIs
  <2>2. CASE p \notin DOMAIN t
    <3>1. PICK i \in 0..Len(way) : p = NodeAfter(way, i)
      BY <1>3, <1>9, <2>2
    <3> QED BY <1>2, <1>4, <3>1
  <2> QED BY <2>1, <2>2
<1>10. TrieIs(rs2, t2)
  BY <1>2, <1>6, <1>7, <1>8, <1>9 DEF TrieIs
<1> QED BY <1>10 DEF rs2, t2, n

RouterIInv == TrieIs(routes, trie)

LEMMA RouterInitIInv == RouterInit => RouterIInv
<1> SUFFICES ASSUME RouterInit PROVE RouterIInv
  OBVIOUS
<1>1. routes = <<>> /\ DOMAIN routes = {} /\ routes \in Seq(Registered)
  BY DEF RouterInit
<1>2. DOMAIN trie = {<<>>} /\ trie[<<>>] = NoNode
  BY DEF RouterInit
<1>3. NodeIs(routes, <<>>, NoNode)
  BY <1>1 DEF NodeIs, NoNode, HandlersAre, Ending
<1> QED BY <1>1, <1>2, <1>3 DEF RouterIInv, TrieIs

LEMMA RouterNextIInv == RouterIInv /\ [RouterNext]_routerVars => RouterIInv'
<1> SUFFICES ASSUME RouterIInv, [RouterNext]_routerVars PROVE RouterIInv'
  OBVIOUS
<1>1. CASE UNCHANGED routerVars
  <2>1. routes' = routes /\ trie' = trie
    BY <1>1 DEF routerVars
  <2>2. TrieIs(routes', trie')
    BY <2>1 DEF RouterIInv
  <2> QED BY <2>2 DEF RouterIInv
<1>2. ASSUME NEW m \in RouteMethods, NEW pattern \in Patterns, Register(m, pattern) PROVE RouterIInv'
  <2> DEFINE r == [method |-> m, pattern |-> pattern]
  <2>1. r \in Registered
    BY DEF Registered
  <2>2. routes' = Append(routes, r) /\ trie' = InsertRoute(trie, r, Len(routes) + 1)
    BY <1>2 DEF Register
  <2> HIDE DEF r
  <2>3. TrieIs(Append(routes, r), InsertRoute(trie, r, Len(routes) + 1))
    BY <2>1, InsertedIs DEF RouterIInv
  <2>4. TrieIs(routes', trie')
    BY <2>2, <2>3
  <2> QED BY <2>4 DEF RouterIInv
<1> QED BY <1>1, <1>2 DEF RouterNext

\* What ends at a node got there by the segments of a route.
LEMMA SegmentOfRoute ==
  ASSUME NEW rs, NEW t, TrieIs(rs, t), NEW p \in DOMAIN t
  PROVE  /\ p \in Seq(Edges)
         /\ \A i \in DOMAIN p : \E q \in DOMAIN rs :
              i \in DOMAIN Way(rs, q) /\ NodeAfter(Way(rs, q), i - 1) = UpTo(p, i - 1) /\ Edge(Way(rs, q)[i]) = p[i]
         /\ \A i \in 0..Len(p) : UpTo(p, i) \in DOMAIN t
<1>1. CASE p = <<>>
  <2>1. p \in Seq(Edges) /\ DOMAIN p = {} /\ Len(p) = 0 /\ UpTo(p, 0) = <<>>
    BY <1>1 DEF UpTo
  <2> QED BY <2>1 DEF TrieIs
<1>2. CASE p # <<>>
  <2>1. PICK q \in DOMAIN rs : \E k \in 0..Len(Way(rs, q)) : p = NodeAfter(Way(rs, q), k)
    BY <1>2 DEF TrieIs
  <2> DEFINE w == Way(rs, q)
  <2>2. PICK k \in 0..Len(w) : p = NodeAfter(w, k)
    BY <2>1
  <2>3. w \in Ways
    BY WaysOf DEF TrieIs
  <2>4. Len(w) \in Nat /\ DOMAIN w = 1..Len(w)
    BY <2>3, WayIs
  <2>5. \A i \in 0..Len(w) : NodeAfter(w, i) \in DOMAIN t
    BY DEF TrieIs
  <2> HIDE DEF w
  <2>6. /\ p \in Seq(Edges) /\ Len(p) = k /\ DOMAIN p = 1..k
        /\ \A j \in 1..k : p[j] = Edge(w[j])
        /\ \A j \in 0..k : UpTo(p, j) = NodeAfter(w, j)
    BY <2>2, <2>3, NodesOfWay
  <2>7. \A i \in DOMAIN p : i \in DOMAIN w /\ NodeAfter(w, i - 1) = UpTo(p, i - 1) /\ Edge(w[i]) = p[i]
    BY <2>4, <2>6
  <2>8. \A i \in 0..Len(p) : UpTo(p, i) \in DOMAIN t
    BY <2>4, <2>5, <2>6
  <2> QED BY <2>6, <2>7, <2>8 DEF w
<1> QED BY <1>1, <1>2

LEMMA NodeOfRoute ==
  ASSUME NEW rs, NEW t, TrieIs(rs, t), NEW q \in DOMAIN rs, NEW i \in DOMAIN Way(rs, q)
  PROVE  /\ NodeAfter(Way(rs, q), i - 1) \in DOMAIN t
         /\ Append(NodeAfter(Way(rs, q), i - 1), Edge(Way(rs, q)[i])) \in DOMAIN t
<1>1. Way(rs, q) \in Ways
  BY WaysOf DEF TrieIs
<1>2. i - 1 \in 0..Len(Way(rs, q)) /\ i \in 0..Len(Way(rs, q))
  BY <1>1, WayIs
<1>3. NodeAfter(Way(rs, q), i) = Append(NodeAfter(Way(rs, q), i - 1), Edge(Way(rs, q)[i]))
  BY <1>1, ChildOfNode
<1> QED BY <1>2, <1>3 DEF TrieIs

\* The walk takes a segment's own node if there is one, or the parameter's, and
\* stops at the end of the path or where there is neither.
EndsAt(t, path, end) ==
  /\ end \in DOMAIN t /\ end \in Seq(Edges) /\ Len(end) <= Len(path)
  /\ \A i \in DOMAIN end : /\ end[i] \in {path[i], ":"}
                           /\ Append(UpTo(end, i - 1), path[i]) \in DOMAIN t => end[i] = path[i]
  /\ Len(end) < Len(path) => /\ Append(end, path[Len(end) + 1]) \notin DOMAIN t
                             /\ Append(end, ":") \notin DOMAIN t

LEMMA WalkEnds ==
  ASSUME NEW rs, NEW t, TrieIs(rs, t), NEW path \in Seq(Segments)
  PROVE  EndsAt(t, path, EndOfWalk(t, path))
<1> DEFINE V == Visited(t, path)
           end == EndOfWalk(t, path)
<1>1. /\ <<>> \in V
      /\ \A v \in V : v \in DOMAIN t /\ v \in Seq(Edges) /\ Len(v) \in Nat /\ Len(v) <= Len(path)
  <2>1. <<>> \in V
    BY DEF Visited, TrieIs
  <2>2. ASSUME NEW v \in V PROVE v \in DOMAIN t /\ v \in Seq(Edges) /\ Len(v) \in Nat /\ Len(v) <= Len(path)
    <3>1. v \in DOMAIN t /\ Len(v) <= Len(path)
      BY <2>2 DEF Visited
    <3>2. v \in Seq(Edges)
      BY <3>1, SegmentOfRoute
    <3> QED BY <3>1, <3>2
  <2> QED BY <2>1, <2>2
<1>2. Len(path) \in Nat
  OBVIOUS
<1> HIDE DEF V
<1>3. \E v \in V : \A other \in V : Len(other) <= Len(v)
  <2> DEFINE T == {Len(path) - Len(v) : v \in V}
  <2>1. T \subseteq Nat /\ T # {}
    BY <1>1, <1>2
  <2>2. PICK n \in T : \A m \in T : n <= m
    <3> HIDE DEF T
    <3> QED BY <2>1, LeastNumber
  <2>3. PICK v \in V : n = Len(path) - Len(v)
    OBVIOUS
  <2>4. ASSUME NEW other \in V PROVE Len(other) <= Len(v)
    <3>1. Len(path) - Len(v) <= Len(path) - Len(other)
      BY <2>2, <2>3
    <3> QED BY <1>1, <1>2, <3>1
  <2> QED BY <2>4
<1>4. end \in V /\ \A other \in V : Len(other) <= Len(end)
  BY <1>3 DEF V, EndOfWalk
<1> HIDE DEF end
<1>5. end \in DOMAIN t /\ end \in Seq(Edges) /\ Len(end) \in Nat /\ Len(end) <= Len(path)
      /\ \A i \in DOMAIN end : end[i] = Down(t, UpTo(end, i - 1), path[i])
  BY <1>1, <1>4 DEF V, Visited
<1>6. \A i \in DOMAIN end : end[i] \in {path[i], ":"} /\ (Append(UpTo(end, i - 1), path[i]) \in DOMAIN t => end[i] = path[i])
  BY <1>5 DEF Down
<1>7. ASSUME Len(end) < Len(path), NEW e, e = Down(t, end, path[Len(end) + 1]), Append(end, e) \in DOMAIN t PROVE FALSE
  <2> DEFINE c == Append(end, e)
  <2>1. Len(end) + 1 \in 1..Len(path) /\ path[Len(end) + 1] \in Segments
    BY <1>2, <1>5, <1>7
  <2>2. e \in Edges
    BY <1>7, <2>1 DEF Down, Edges
  <2>3. /\ c \in Seq(Edges) /\ Len(c) = Len(end) + 1 /\ c[Len(end) + 1] = e /\ \A j \in 1..Len(end) : c[j] = end[j]
        /\ \A j \in 0..Len(end) : UpTo(c, j) = UpTo(end, j)
        /\ UpTo(end, Len(end)) = end
    BY <1>5, <2>2, BelowIs
  <2>4. c \in DOMAIN t
    BY <1>7
  <2> HIDE DEF c
  <2>5. DOMAIN c = 1..(Len(end) + 1) /\ DOMAIN end = 1..Len(end)
    BY <1>5, <2>3, ElementIs
  <2>6. ASSUME NEW i \in DOMAIN c PROVE c[i] = Down(t, UpTo(c, i - 1), path[i])
    <3>1. CASE i = Len(end) + 1
      <4>1. i - 1 = Len(end) /\ i - 1 \in 0..Len(end)
        BY <1>5, <3>1
      <4> QED BY <1>7, <2>3, <3>1, <4>1
    <3>2. CASE i # Len(end) + 1
      <4>1. i \in DOMAIN end /\ i \in 1..Len(end) /\ i - 1 \in 0..Len(end)
        BY <1>5, <2>5, <3>2
      <4> QED BY <1>5, <2>3, <4>1
    <3> QED BY <3>1, <3>2
  <2>7. Len(c) <= Len(path)
    BY <1>2, <1>5, <1>7, <2>3
  <2>8. c \in V
    BY <2>4, <2>6, <2>7 DEF V, Visited
  <2>9. Len(c) <= Len(end)
    BY <1>4, <2>8
  <2> QED BY <1>5, <2>3, <2>9
<1>8. ASSUME Len(end) < Len(path) PROVE Append(end, path[Len(end) + 1]) \notin DOMAIN t /\ Append(end, ":") \notin DOMAIN t
  BY <1>7, <1>8 DEF Down
<1>9. EndsAt(t, path, end)
  BY <1>5, <1>6, <1>8 DEF EndsAt
<1> QED BY <1>9 DEF end

\* The two agree as far as the walk goes the way of the pattern.
LEMMA SameSoFar ==
  ASSUME NEW end \in Seq(Edges), NEW w \in Ways, NEW n \in Nat, n <= Len(end), n <= Len(w),
         \A i \in 1..n : end[i] = Edge(w[i])
  PROVE  UpTo(end, n) = NodeAfter(w, n)
BY DEF UpTo, NodeAfter

\* The routes that fit and are not shadowed are those whose way is the walk.
LEMMA OpenIsEnd ==
  ASSUME TrieIs(routes, trie), NEW path \in Seq(Segments), NEW end, EndsAt(trie, path, end), NEW r \in DOMAIN routes
  PROVE  FitsPath(routes[r].pattern, path) /\ ~Shadowed(routes[r].pattern, path)
           <=> NodeOf(Way(routes, r)) = end /\ (Len(end) = Len(path) \/ IsWild(routes[r].pattern))
<1> DEFINE w == Way(routes, r)
           pattern == routes[r].pattern
           other(q) == Way(routes, q)
<1>1. w \in Ways /\ \A q \in DOMAIN routes : other(q) \in Ways
  BY WaysOf DEF TrieIs
<1>2. Len(w) \in Nat /\ DOMAIN w = 1..Len(w) /\ Len(path) \in Nat /\ DOMAIN path = 1..Len(path)
  BY <1>1, WayIs, ElementIs
<1>3. end \in Seq(Edges) /\ Len(end) \in Nat /\ DOMAIN end = 1..Len(end) /\ Len(end) <= Len(path) /\ end \in DOMAIN trie
  <2>1. end \in Seq(Edges) /\ Len(end) <= Len(path) /\ end \in DOMAIN trie
    BY DEF EndsAt
  <2> QED BY <2>1, ElementIs
<1>4. FitsPath(pattern, path) <=> /\ Len(path) = Len(w) \/ (IsWild(pattern) /\ Len(path) > Len(w))
                                  /\ \A i \in DOMAIN w : w[i].kind = "param" \/ w[i].name = path[i]
  BY DEF FitsPath, Way
<1>5. Shadowed(pattern, path) <=>
        \E q \in DOMAIN routes : \E i \in DOMAIN path \cap DOMAIN other(q) :
          /\ i <= Len(w) + 1
          /\ NodeAfter(other(q), i - 1) = NodeAfter(w, i - 1)
          /\ i \in DOMAIN w => (w[i].kind = "param" /\ other(q)[i].kind = "static")
          /\ other(q)[i].kind = "static" => other(q)[i].name = path[i]
  BY DEF Shadowed, Way
<1>6. /\ \A i \in DOMAIN end : end[i] \in {path[i], ":"} /\ (Append(UpTo(end, i - 1), path[i]) \in DOMAIN trie => end[i] = path[i])
      /\ Len(end) < Len(path) => Append(end, path[Len(end) + 1]) \notin DOMAIN trie /\ Append(end, ":") \notin DOMAIN trie
  BY DEF EndsAt
<1>7. \A q \in DOMAIN routes : \A i \in DOMAIN other(q) :
        /\ i \in Nat /\ i >= 1
        /\ other(q)[i].kind \in {"static", "param"}
        /\ Edge(other(q)[i]) = ":" <=> other(q)[i].kind = "param"
        /\ other(q)[i].kind = "static" => Edge(other(q)[i]) = other(q)[i].name
        /\ Append(NodeAfter(other(q), i - 1), Edge(other(q)[i])) \in DOMAIN trie
  BY <1>1, WayIs, NodeOfRoute
<1>8. \A i \in 0..Len(end) : UpTo(end, i) \in DOMAIN trie
  BY <1>3, SegmentOfRoute
<1>9. \A i \in DOMAIN end : \E q \in DOMAIN routes :
         i \in DOMAIN other(q) /\ NodeAfter(other(q), i - 1) = UpTo(end, i - 1) /\ Edge(other(q)[i]) = end[i]
  BY <1>3, SegmentOfRoute
<1> HIDE DEF w, other, pattern
<1>10. \A i \in DOMAIN w : /\ i \in Nat /\ i >= 1 /\ w[i].kind \in {"static", "param"}
                           /\ Edge(w[i]) = ":" <=> w[i].kind = "param"
                           /\ w[i].kind = "static" => Edge(w[i]) = w[i].name
                           /\ Append(NodeAfter(w, i - 1), Edge(w[i])) \in DOMAIN trie
  BY <1>7 DEF w, other
<1>11. ASSUME FitsPath(pattern, path), ~Shadowed(pattern, path)
       PROVE  NodeOf(w) = end /\ (Len(end) = Len(path) \/ IsWild(pattern))
  <2>1. \A i \in 1..Len(w) : i <= Len(end) => end[i] = Edge(w[i])
    <3> DEFINE T == {i \in 1..Len(w) : i <= Len(end) /\ end[i] # Edge(w[i])}
    <3>1. SUFFICES ASSUME T # {} PROVE FALSE
      OBVIOUS
    <3>2. PICK i \in T : \A m \in T : i <= m
      <4>1. T \subseteq Nat
        BY <1>2
      <4> HIDE DEF T
      <4> QED BY <3>1, <4>1, LeastNumber
    <3>3. i \in DOMAIN w /\ i \in DOMAIN end /\ i \in DOMAIN path /\ end[i] # Edge(w[i])
      BY <1>2, <1>3
    <3>4. i \in Nat /\ i - 1 \in Nat /\ i - 1 <= Len(end) /\ i - 1 <= Len(w)
      BY <1>2, <1>3
    <3>5. \A j \in 1..(i - 1) : end[j] = Edge(w[j])
      BY <1>2, <1>3, <3>2, <3>4
    <3> HIDE DEF T
    <3>6. UpTo(end, i - 1) = NodeAfter(w, i - 1)
      BY <1>1, <1>3, <3>4, <3>5, SameSoFar DEF w
    <3>7. CASE w[i].kind = "static"
      <4>1. Edge(w[i]) = path[i]
        BY <1>4, <1>10, <1>11, <3>3, <3>7
      <4>2. Append(UpTo(end, i - 1), path[i]) \in DOMAIN trie
        BY <1>10, <3>3, <3>6, <4>1
      <4> QED BY <1>6, <3>3, <4>1, <4>2
    <3>8. CASE w[i].kind = "param"
      <4>1. end[i] # ":" /\ end[i] = path[i]
        BY <1>6, <1>10, <3>3, <3>8
      <4>2. PICK q \in DOMAIN routes : i \in DOMAIN other(q) /\ NodeAfter(other(q), i - 1) = UpTo(end, i - 1) /\ Edge(other(q)[i]) = end[i]
        BY <1>9, <3>3
      <4>3. other(q)[i].kind = "static" /\ other(q)[i].name = path[i]
        BY <1>7, <4>1, <4>2
      <4>4. i <= Len(w) + 1
        BY <1>2, <3>4
      <4> QED BY <1>5, <1>11, <3>3, <3>6, <3>8, <4>2, <4>3, <4>4
    <3> QED BY <1>10, <3>3, <3>7, <3>8
  <2>2. Len(w) <= Len(path)
    <3>1. Len(path) = Len(w) \/ Len(path) > Len(w)
      BY <1>4, <1>11
    <3>2. Len(w) \in Nat /\ Len(path) \in Nat
      BY <1>2
    <3> QED BY <3>1, <3>2
  <2>3. ASSUME Len(end) < Len(w) PROVE FALSE
    <3> DEFINE i == Len(end) + 1
    <3>1. i \in DOMAIN w /\ Len(end) < Len(path) /\ i - 1 = Len(end)
      BY <1>2, <1>3, <2>2, <2>3
    <3>2. UpTo(end, Len(end)) = NodeAfter(w, Len(end)) /\ UpTo(end, Len(end)) = end
      <4>1. \A j \in 1..Len(end) : end[j] = Edge(w[j])
        BY <1>2, <1>3, <2>1, <2>3
      <4>2. UpTo(end, Len(end)) = NodeAfter(w, Len(end))
        BY <1>1, <1>2, <1>3, <2>3, <4>1, SameSoFar DEF w
      <4>3. UpTo(end, Len(end)) = end
        BY <1>3 DEF UpTo
      <4> QED BY <4>2, <4>3
    <3>3. Append(end, Edge(w[i])) \in DOMAIN trie
      BY <1>10, <3>1, <3>2
    <3>4. Edge(w[i]) = ":" \/ Edge(w[i]) = path[i]
      BY <1>4, <1>10, <1>11, <3>1
    <3> QED BY <1>6, <3>1, <3>3, <3>4
  <2>4. ASSUME Len(w) < Len(end) PROVE FALSE
    <3> DEFINE i == Len(w) + 1
    <3>1. i \in DOMAIN end /\ i \in DOMAIN path /\ i \notin DOMAIN w /\ i - 1 = Len(w) /\ i <= Len(w) + 1
      BY <1>2, <1>3, <2>4
    <3>2. UpTo(end, i - 1) = NodeAfter(w, i - 1)
      <4>1. \A j \in 1..Len(w) : end[j] = Edge(w[j])
        BY <1>2, <1>3, <2>1, <2>4
      <4>2. UpTo(end, Len(w)) = NodeAfter(w, Len(w))
        BY <1>1, <1>2, <1>3, <2>4, <4>1, SameSoFar DEF w
      <4> QED BY <3>1, <4>2
    <3> HIDE DEF i
    <3>3. PICK q \in DOMAIN routes : i \in DOMAIN other(q) /\ NodeAfter(other(q), i - 1) = UpTo(end, i - 1) /\ Edge(other(q)[i]) = end[i]
      BY <1>9, <3>1
    <3>4. other(q)[i].kind = "static" => other(q)[i].name = path[i]
      BY <1>6, <1>7, <3>1, <3>3
    <3> QED BY <1>5, <1>11, <3>1, <3>2, <3>3, <3>4
  <2>5. Len(w) = Len(end)
    <3>1. Len(w) \in Nat /\ Len(end) \in Nat
      BY <1>2, <1>3
    <3>2. ~(Len(end) < Len(w)) /\ ~(Len(w) < Len(end))
      BY <2>3, <2>4
    <3> QED BY <3>1, <3>2
  <2>6. NodeOf(w) = end
    <3>1. \A j \in 1..Len(w) : end[j] = Edge(w[j])
      BY <2>1, <2>5, <1>2
    <3>2. UpTo(end, Len(w)) = NodeAfter(w, Len(w))
      BY <1>1, <1>2, <1>3, <2>5, <3>1, SameSoFar DEF w
    <3>3. UpTo(end, Len(end)) = end
      BY <1>3 DEF UpTo
    <3> QED BY <2>5, <3>2, <3>3 DEF NodeOf
  <2> QED BY <1>4, <1>11, <2>5, <2>6
<1>12. ASSUME NodeOf(w) = end, Len(end) = Len(path) \/ IsWild(pattern)
       PROVE  FitsPath(pattern, path) /\ ~Shadowed(pattern, path)
  <2>1. /\ Len(end) = Len(w) /\ \A i \in DOMAIN w : end[i] = Edge(w[i])
        /\ \A i \in 0..Len(w) : UpTo(end, i) = NodeAfter(w, i)
    <3>1. Len(w) \in 0..Len(w) /\ NodeAfter(w, Len(w)) = end
      BY <1>2, <1>12 DEF NodeOf
    <3> QED BY <1>1, <1>2, <3>1, NodesOfWay DEF w
  <2>2. \A i \in DOMAIN w : w[i].kind = "param" \/ w[i].name = path[i]
    <3> TAKE i \in DOMAIN w
    <3>1. i \in DOMAIN end
      BY <1>2, <1>3, <2>1
    <3> QED BY <1>6, <1>10, <2>1, <3>1
  <2>3. FitsPath(pattern, path)
    <3>1. Len(w) \in Nat /\ Len(path) \in Nat /\ Len(w) <= Len(path)
      BY <1>2, <1>3, <2>1
    <3>2. Len(path) = Len(w) \/ Len(path) > Len(w)
      BY <3>1
    <3>3. Len(path) = Len(w) \/ IsWild(pattern)
      BY <1>12, <2>1
    <3> QED BY <1>4, <2>2, <3>2, <3>3
  <2>4. ASSUME NEW q \in DOMAIN routes, NEW i \in DOMAIN path \cap DOMAIN other(q),
               i <= Len(w) + 1, NodeAfter(other(q), i - 1) = NodeAfter(w, i - 1),
               i \in DOMAIN w => (w[i].kind = "param" /\ other(q)[i].kind = "static"),
               other(q)[i].kind = "static" => other(q)[i].name = path[i]
        PROVE  FALSE
    <3>1. i \in Nat /\ i >= 1 /\ i <= Len(path) /\ i - 1 \in 0..Len(w)
      BY <1>2, <2>4
    <3>2. Append(UpTo(end, i - 1), Edge(other(q)[i])) \in DOMAIN trie
      BY <1>7, <2>1, <2>4, <3>1
    <3>3. CASE i \in DOMAIN w
      <4>1. i \in DOMAIN end /\ end[i] = ":" /\ Edge(other(q)[i]) = path[i] /\ path[i] # ":"
        BY <1>2, <1>3, <1>7, <1>10, <2>1, <2>4, <3>3
      <4> QED BY <1>6, <3>2, <4>1
    <3>4. CASE i \notin DOMAIN w
      <4>1. i = Len(end) + 1 /\ Len(end) < Len(path) /\ i - 1 = Len(end) /\ Len(end) \in 0..Len(w)
        BY <1>2, <1>3, <2>1, <2>4, <3>1, <3>4
      <4>2. UpTo(end, i - 1) = end
        BY <1>3, <4>1 DEF UpTo
      <4>3. Edge(other(q)[i]) = ":" \/ Edge(other(q)[i]) = path[i]
        BY <1>7, <2>4
      <4> QED BY <1>6, <3>2, <4>1, <4>2, <4>3
    <3> QED BY <3>3, <3>4
  <2> QED BY <1>5, <2>3, <2>4
<1> QED BY <1>11, <1>12 DEF w, pattern
\* resolveHandler() finds a handler of the method, or of all, when a route that ends there has one.
LEMMA ResolveIs ==
  ASSUME NEW rs, NEW h, NEW ends, HandlersAre(rs, h, ends), NEW method
  PROVE  /\ CanResolve(h, method) <=> \E q \in ends : rs[q].method \in {method, "ALL"}
         /\ CanResolve(h, method) => /\ ResolveHandler(h, method) \in ends
                                     /\ rs[ResolveHandler(h, method)].method \in {method, "ALL"}
         /\ DOMAIN h # {} <=> ends # {}
BY DEF HandlersAre, CanResolve, ResolveHandler

\* What a request gets, from the routes that end where the walk does.
MatchedAs(path, method, end) ==
  LET result == MatchRoute(trie, method, path)
      plain == Ending(routes, end, FALSE)
      wild == Ending(routes, end, TRUE)
      open == IF Len(end) = Len(path) THEN plain \cup wild ELSE wild
      fit == {q \in open : routes[q].method \in {method, "ALL"}}
      params == ParamsOf(trie, end, path)
  IN  /\ result.kind = "ok" <=> fit # {}
      /\ result.kind = "ok" =>
           /\ result.route \in fit
           /\ result.route \in plain => result.params = params
           /\ result.route \in wild =>
                result.params = [x \in DOMAIN params \cup {"*"} |->
                                   IF x = "*" THEN SubSeq(path, Len(end) + 1, Len(path)) ELSE params[x]]
      /\ result.kind = "MethodNotAllowed" <=> open # {} /\ fit = {}

LEMMA MatchIs ==
  ASSUME TrieIs(routes, trie), NEW path \in Seq(Segments), NEW method, NEW end, end = EndOfWalk(trie, path)
  PROVE  MatchedAs(path, method, end)
<1> DEFINE result == MatchRoute(trie, method, path)
           plain == Ending(routes, end, FALSE)
           wild == Ending(routes, end, TRUE)
           open == IF Len(end) = Len(path) THEN plain \cup wild ELSE wild
           fit == {q \in open : routes[q].method \in {method, "ALL"}}
           params == ParamsOf(trie, end, path)
           remaining == SubSeq(path, Len(end) + 1, Len(path))
           rest == [x \in DOMAIN params \cup {"*"} |-> IF x = "*" THEN remaining ELSE params[x]]
           h == trie[end].handlers
           v == trie[end].wildcard
           P == CanResolve(h, method)
           W == CanResolve(v, method)
           Good == /\ result.kind = "ok" <=> fit # {}
                   /\ result.kind = "ok" =>
                        /\ result.route \in fit
                        /\ result.route \in plain => result.params = params
                        /\ result.route \in wild => result.params = rest
                   /\ result.kind = "MethodNotAllowed" <=> open # {} /\ fit = {}
<1>1. EndsAt(trie, path, end)
  BY WalkEnds
<1>2. end \in DOMAIN trie /\ end \in Seq(Edges) /\ Len(end) \in Nat /\ Len(path) \in Nat /\ Len(end) <= Len(path)
  <2>1. end \in DOMAIN trie /\ end \in Seq(Edges) /\ Len(end) <= Len(path)
    BY <1>1 DEF EndsAt
  <2> QED BY <2>1
<1>3. HandlersAre(routes, h, plain) /\ HandlersAre(routes, v, wild)
  BY <1>2 DEF TrieIs, NodeIs
<1>4. plain \cap wild = {}
  BY DEF Ending
<1> HIDE DEF plain, wild, h, v
<1>5. /\ P <=> \E q \in plain : routes[q].method \in {method, "ALL"}
      /\ P => ResolveHandler(h, method) \in plain /\ routes[ResolveHandler(h, method)].method \in {method, "ALL"}
      /\ DOMAIN h # {} <=> plain # {}
  BY <1>3, ResolveIs
<1>6. /\ W <=> \E q \in wild : routes[q].method \in {method, "ALL"}
      /\ W => ResolveHandler(v, method) \in wild /\ routes[ResolveHandler(v, method)].method \in {method, "ALL"}
      /\ DOMAIN v # {} <=> wild # {}
  BY <1>3, ResolveIs
<1>7. Len(end) = Len(path) => remaining = <<>>
  BY <1>2
<1>8. ASSUME NEW n, NEW ps PROVE Found(n, ps).kind = "ok" /\ Found(n, ps).route = n /\ Found(n, ps).params = ps
  BY DEF Found
<1>9. NotFound("MethodNotAllowed").kind = "MethodNotAllowed" /\ NotFound("RouteNotFound").kind = "RouteNotFound"
  BY DEF NotFound
<1> HIDE DEF params
<1>10. /\ MatchWildcard(trie[end], method, params, remaining) =
            IF W THEN Found(ResolveHandler(v, method), rest) ELSE NotFound("MethodNotAllowed")
       /\ Len(end) = Len(path) =>
            MatchWildcard(trie[end], method, params, <<>>) =
              IF W THEN Found(ResolveHandler(v, method), rest) ELSE NotFound("MethodNotAllowed")
  BY <1>7 DEF MatchWildcard, v
<1> HIDE DEF rest, remaining, P, W
<1>11. result = IF Len(end) = Len(path)
                THEN IF P THEN Found(ResolveHandler(h, method), params)
                     ELSE IF DOMAIN v # {}
                     THEN IF W THEN Found(ResolveHandler(v, method), rest) ELSE NotFound("MethodNotAllowed")
                     ELSE IF DOMAIN h # {} THEN NotFound("MethodNotAllowed") ELSE NotFound("RouteNotFound")
                ELSE IF DOMAIN v # {}
                THEN IF W THEN Found(ResolveHandler(v, method), rest) ELSE NotFound("MethodNotAllowed")
                ELSE NotFound("RouteNotFound")
  <2>1. MatchLeaf(trie[end], method, params) =
          IF P THEN Found(ResolveHandler(h, method), params)
          ELSE IF DOMAIN v # {} THEN MatchWildcard(trie[end], method, params, <<>>)
          ELSE IF DOMAIN h # {} THEN NotFound("MethodNotAllowed") ELSE NotFound("RouteNotFound")
    BY DEF MatchLeaf, P, h, v
  <2>2. result = IF Len(end) = Len(path) THEN MatchLeaf(trie[end], method, params)
                 ELSE IF DOMAIN v # {} THEN MatchWildcard(trie[end], method, params, remaining)
                 ELSE NotFound("RouteNotFound")
    BY DEF MatchRoute, params, remaining, v
  <2> HIDE DEF result
  <2> QED BY <1>10, <2>1, <2>2
<1> HIDE DEF result
<1>12. ASSUME Len(end) = Len(path) /\ P PROVE Good
  <2>1. result = Found(ResolveHandler(h, method), params)
    BY <1>11, <1>12
  <2>2. result.kind = "ok" /\ result.route = ResolveHandler(h, method) /\ result.params = params
    BY <1>8, <2>1
  <2>3. result.route \in fit /\ result.route \in plain /\ result.route \notin wild
    BY <1>4, <1>5, <1>12, <2>2
  <2>4. fit # {} /\ result.kind # "MethodNotAllowed"
    BY <2>2, <2>3
  <2> HIDE DEF fit
  <2> QED BY <2>2, <2>3, <2>4
<1>13. ASSUME ~(Len(end) = Len(path) /\ P) /\ W PROVE Good
  <2>1. result = Found(ResolveHandler(v, method), rest)
    BY <1>6, <1>11, <1>13
  <2>2. result.kind = "ok" /\ result.route = ResolveHandler(v, method) /\ result.params = rest
    BY <1>8, <2>1
  <2>3. result.route \in fit /\ result.route \in wild /\ result.route \notin plain
    BY <1>4, <1>6, <1>13, <2>2
  <2>4. fit # {} /\ result.kind # "MethodNotAllowed"
    BY <2>2, <2>3
  <2> HIDE DEF fit
  <2> QED BY <2>2, <2>3, <2>4
<1>14. ASSUME ~(Len(end) = Len(path) /\ P) /\ ~W PROVE Good
  <2>1. fit = {}
    BY <1>5, <1>6, <1>14
  <2>2. open # {} => result = NotFound("MethodNotAllowed")
    BY <1>5, <1>6, <1>11, <1>14
  <2>3. open = {} => result = NotFound("RouteNotFound")
    BY <1>5, <1>6, <1>11, <1>14
  <2>4. result.kind # "ok" /\ (result.kind = "MethodNotAllowed" <=> open # {})
    <3> HIDE DEF open
    <3> QED BY <1>9, <2>2, <2>3
  <2> HIDE DEF fit
  <2> QED BY <2>1, <2>4
<1>15. Good
  BY <1>12, <1>13, <1>14
<1> QED BY <1>15 DEF MatchedAs, result, plain, wild, open, fit, params, rest, remaining

LEMMA RouterServesHere == RouterIInv => RouterServes
<1> SUFFICES ASSUME RouterIInv, NEW path \in Pathnames, NEW method \in RequestMethods
             PROVE  LET result == MatchRoute(trie, method, path)
                        open == {r \in DOMAIN routes : FitsPath(routes[r].pattern, path) /\ ~Shadowed(routes[r].pattern, path)}
                        fit == {r \in open : ServesPath(routes[r], method, path)}
                    IN  /\ result.kind = "ok" <=> fit # {}
                        /\ result.kind = "ok" => result.route \in fit
                        /\ result.kind = "MethodNotAllowed" <=> open # {} /\ fit = {}
  BY DEF RouterServes
<1> DEFINE end == EndOfWalk(trie, path)
           open == {r \in DOMAIN routes : FitsPath(routes[r].pattern, path) /\ ~Shadowed(routes[r].pattern, path)}
           fit == {r \in open : ServesPath(routes[r], method, path)}
           here == IF Len(end) = Len(path) THEN Ending(routes, end, FALSE) \cup Ending(routes, end, TRUE) ELSE Ending(routes, end, TRUE)
           serve == {q \in here : routes[q].method \in {method, "ALL"}}
           result == MatchRoute(trie, method, path)
<1>1. path \in Seq(Segments) /\ TrieIs(routes, trie)
  BY RouterAssumption DEF RouterIInv
<1>2. EndsAt(trie, path, end)
  BY <1>1, WalkEnds
<1>3. /\ result.kind = "ok" <=> serve # {}
      /\ result.kind = "ok" => result.route \in serve
      /\ result.kind = "MethodNotAllowed" <=> here # {} /\ serve = {}
  <2>1. MatchedAs(path, method, end)
    BY <1>1, MatchIs
  <2> QED BY <2>1 DEF MatchedAs
<1> HIDE DEF end, result
<1>4. \A r \in DOMAIN routes : r \in open <=> NodeOf(Way(routes, r)) = end /\ (Len(end) = Len(path) \/ IsWild(routes[r].pattern))
  BY <1>1, <1>2, OpenIsEnd
<1>5. \A r \in DOMAIN routes : IsWild(routes[r].pattern) \in BOOLEAN
  BY DEF IsWild
<1>6. open = here
  <2>1. \A r \in DOMAIN routes : r \in here <=> NodeOf(Way(routes, r)) = end /\ (Len(end) = Len(path) \/ IsWild(routes[r].pattern))
    BY <1>5 DEF Ending
  <2>2. here \subseteq DOMAIN routes /\ open \subseteq DOMAIN routes
    BY DEF Ending
  <2> HIDE DEF here, open
  <2> QED BY <1>4, <2>1, <2>2
<1>7. fit = serve
  <2>1. \A r \in open : ServesPath(routes[r], method, path) <=> routes[r].method \in {method, "ALL"}
    BY DEF ServesPath
  <2> HIDE DEF open, here
  <2> QED BY <1>6, <2>1
<1> HIDE DEF open, here, fit, serve
<1>8. /\ result.kind = "ok" <=> fit # {}
      /\ result.kind = "ok" => result.route \in fit
      /\ result.kind = "MethodNotAllowed" <=> open # {} /\ fit = {}
  BY <1>3, <1>6, <1>7
<1> QED BY <1>8 DEF result, fit, open
\* Of the routes that end there, each parameter that all call the same has what stands at its
\* place, when none uses a name twice: what a name is written later is by a route that came by.
LEMMA ParamIsInPlace ==
  ASSUME TrieIs(routes, trie), NEW path \in Seq(Segments), NEW end, EndsAt(trie, path, end),
         NEW r \in DOMAIN routes, NodeOf(Way(routes, r)) = end,
         \A q \in DOMAIN routes : ~NamesTwice(Way(routes, q)),
         NEW i \in DOMAIN Way(routes, r), Way(routes, r)[i].kind = "param", Agreed(Way(routes, r), i)
  PROVE  /\ Way(routes, r)[i].name \in DOMAIN ParamsOf(trie, end, path)
         /\ ParamsOf(trie, end, path)[Way(routes, r)[i].name] = path[i]
<1> DEFINE w == Way(routes, r)
           x == w[i].name
           taken == {j \in DOMAIN end : end[j] = ":"}
           name(j) == CHOOSE y \in trie[UpTo(end, j - 1)].param : TRUE
           other(q) == Way(routes, q)
<1>1. w \in Ways /\ \A q \in DOMAIN routes : other(q) \in Ways
  BY WaysOf DEF TrieIs
<1>2. end \in DOMAIN trie /\ end \in Seq(Edges)
  BY DEF EndsAt
<1>3. /\ Len(w) \in Nat /\ DOMAIN w = 1..Len(w) /\ Len(end) = Len(w) /\ DOMAIN end = 1..Len(w)
      /\ \A j \in 1..Len(w) : end[j] = Edge(w[j])
      /\ \A j \in 0..Len(w) : UpTo(end, j) = NodeAfter(w, j)
  <2>1. Len(w) \in Nat /\ DOMAIN w = 1..Len(w) /\ Len(w) \in 0..Len(w) /\ NodeAfter(w, Len(w)) = end
    BY <1>1, WayIs DEF NodeOf
  <2> HIDE DEF w
  <2> QED BY <1>1, <2>1, NodesOfWay DEF w
<1>4. \A j \in DOMAIN end : UpTo(end, j - 1) \in DOMAIN trie
  <2>1. \A j \in 0..Len(end) : UpTo(end, j) \in DOMAIN trie
    BY <1>2, SegmentOfRoute
  <2>2. \A j \in DOMAIN end : j - 1 \in 0..Len(end)
    BY <1>3
  <2> QED BY <2>1, <2>2
\* Each name was given by a route through that parameter.
<1>5. ASSUME NEW j \in taken
      PROVE  \E q \in DOMAIN routes : /\ j \in DOMAIN other(q) /\ other(q)[j].kind = "param" /\ other(q)[j].name = name(j)
                                      /\ NodeAfter(other(q), j) = NodeAfter(w, j)
                                      /\ \A k \in 1..j : k \in DOMAIN other(q) /\ NodeAfter(other(q), k) = NodeAfter(w, k)
  <2> DEFINE p == UpTo(end, j - 1)
  <2>1. j \in DOMAIN end /\ end[j] = ":" /\ j \in DOMAIN w /\ j \in Nat /\ j >= 1 /\ j <= Len(w) /\ p \in DOMAIN trie
    BY <1>3, <1>4
  <2>2. w[j].kind = "param" /\ NodeAfter(w, j - 1) = p
    <3>1. Edge(w[j]) = ":" /\ j - 1 \in 0..Len(w)
      BY <1>3, <2>1
    <3> QED BY <1>1, <1>3, <2>1, <3>1, WayIs
  <2>3. ParamNames(w, p) # {}
    BY <2>1, <2>2 DEF ParamNames
  <2>4. trie[p].param # {}
    BY <2>1, <2>3 DEF TrieIs, NodeIs
  <2>5. name(j) \in trie[p].param
    BY <2>4
  <2> HIDE DEF name, p
  <2>6. PICK q \in DOMAIN routes : name(j) \in ParamNames(other(q), p)
    BY <2>1, <2>5 DEF TrieIs, NodeIs
  <2>7. PICK k \in DOMAIN other(q) : other(q)[k].kind = "param" /\ NodeAfter(other(q), k - 1) = p /\ other(q)[k].name = name(j)
    BY <2>6 DEF ParamNames
  <2>8. other(q) \in Ways /\ Len(other(q)) \in Nat /\ DOMAIN other(q) = 1..Len(other(q))
    BY <1>1, WayIs
  <2> HIDE DEF other, w
  <2>9. k = j
    <3>1. k - 1 \in 0..Len(other(q)) /\ j - 1 \in 0..Len(w)
      BY <1>3, <2>1, <2>8
    <3>2. Len(NodeAfter(other(q), k - 1)) = k - 1 /\ Len(NodeAfter(w, j - 1)) = j - 1
      BY <1>1, <2>8, <3>1, NodesOfWay DEF w
    <3>3. k - 1 = j - 1
      BY <2>2, <2>7, <3>2
    <3> QED BY <2>1, <2>8, <3>3
  <2>10. NodeAfter(other(q), j) = NodeAfter(w, j)
    <3>1. /\ NodeAfter(other(q), j) = Append(NodeAfter(other(q), j - 1), Edge(other(q)[j]))
          /\ NodeAfter(w, j) = Append(NodeAfter(w, j - 1), Edge(w[j]))
      BY <1>1, <2>1, <2>7, <2>8, <2>9, ChildOfNode DEF w
    <3>2. Edge(other(q)[j]) = ":" /\ Edge(w[j]) = ":"
      BY <2>2, <2>7, <2>9 DEF Edge
    <3> QED BY <2>2, <2>7, <2>9, <3>1, <3>2
  <2>11. ASSUME NEW k2 \in 1..j PROVE k2 \in DOMAIN other(q) /\ NodeAfter(other(q), k2) = NodeAfter(w, k2)
    <3>1. j \in 0..Len(other(q)) /\ j \in 0..Len(w) /\ k2 \in 0..j /\ k2 \in DOMAIN other(q)
      BY <2>1, <2>7, <2>8, <2>9, <2>11
    <3>2. UpTo(NodeAfter(other(q), j), k2) = NodeAfter(other(q), k2) /\ UpTo(NodeAfter(w, j), k2) = NodeAfter(w, k2)
      BY <1>1, <2>8, <3>1, NodesOfWay DEF w
    <3> QED BY <2>10, <3>1, <3>2
  <2> QED BY <2>7, <2>9, <2>10, <2>11
<1>6. i \in taken /\ i \in Nat
  <2>1. Edge(w[i]) = ":" /\ i \in DOMAIN w
    BY DEF Edge
  <2> QED BY <1>3, <2>1
<1>7. \A q \in DOMAIN routes : i \in DOMAIN other(q) /\ NodeAfter(other(q), i) = NodeAfter(w, i) => other(q)[i].name = x
  BY DEF Agreed, Way
<1>8. \A j \in taken : j \in Nat /\ j >= 1
  BY <1>3
<1> HIDE DEF name, other, w, x, taken
<1>9. name(i) = x
  BY <1>5, <1>6, <1>7
<1>10. ASSUME NEW j \in taken, name(j) = x PROVE j <= i
  <2>1. SUFFICES ASSUME i < j PROVE FALSE
    BY <1>6, <1>8
  <2>2. PICK q \in DOMAIN routes : /\ j \in DOMAIN other(q) /\ other(q)[j].kind = "param" /\ other(q)[j].name = name(j)
                                   /\ \A k \in 1..j : k \in DOMAIN other(q) /\ NodeAfter(other(q), k) = NodeAfter(w, k)
    BY <1>5
  <2>3. i \in 1..j /\ i # j
    BY <1>6, <1>8, <2>1
  <2>4. i \in DOMAIN other(q) /\ NodeAfter(other(q), i) = NodeAfter(w, i) /\ other(q)[i].name = x
    BY <1>7, <2>2, <2>3
  <2>5. other(q)[i].kind = "param"
    <3>1. i \in 0..Len(other(q)) /\ i \in 0..Len(w) /\ i \in 1..i
      <4>1. other(q) \in Ways /\ w \in Ways
        BY <1>1
      <4>2. DOMAIN other(q) = 1..Len(other(q)) /\ i \in DOMAIN w
        BY <4>1, WayIs DEF w
      <4> QED BY <1>3, <1>6, <2>3, <2>4, <4>2
    <3>2. NodeAfter(other(q), i)[i] = Edge(other(q)[i]) /\ NodeAfter(w, i)[i] = Edge(w[i])
      BY <3>1 DEF NodeAfter
    <3>3. Edge(w[i]) = ":"
      BY DEF Edge, w
    <3>4. Edge(other(q)[i]) = ":"
      BY <2>4, <3>2, <3>3
    <3> QED BY <1>1, <2>4, <3>4, WayIs
  <2>6. NamesTwice(other(q))
    BY <1>10, <2>2, <2>3, <2>4, <2>5 DEF NamesTwice
  <2> QED BY <2>6 DEF other
<1> DEFINE latest == CHOOSE k \in taken : name(k) = x /\ \A j \in taken : name(j) = x => j <= k
<1>11. latest = i
  <2>1. i \in taken /\ name(i) = x /\ \A j \in taken : name(j) = x => j <= i
    BY <1>6, <1>9, <1>10
  <2>2. latest \in taken /\ name(latest) = x /\ \A j \in taken : name(j) = x => j <= latest
    BY <2>1
  <2> HIDE DEF latest
  <2>3. latest <= i /\ i <= latest
    BY <2>1, <2>2
  <2> QED BY <1>8, <2>1, <2>2, <2>3
<1>12. ParamsOf(trie, end, path) = [y \in {name(k) : k \in taken} |->
          path[CHOOSE k \in taken : name(k) = y /\ \A j \in taken : name(j) = y => j <= k]]
  BY DEF ParamsOf, name, taken
<1>13. x \in {name(k) : k \in taken}
  BY <1>6, <1>9
<1>14. x \in DOMAIN ParamsOf(trie, end, path) /\ ParamsOf(trie, end, path)[x] = path[latest]
  BY <1>12, <1>13
<1> HIDE DEF latest
<1> QED BY <1>11, <1>14 DEF x, w

LEMMA ParamsAreInPlaceHere == RouterIInv => ParamsAreInPlace
<1> SUFFICES ASSUME RouterIInv, NEW path \in Pathnames, NEW method \in RequestMethods
             PROVE  LET result == MatchRoute(trie, method, path)
                        pattern == routes[result.route].pattern
                        way == Leading(pattern)
                    IN  result.kind = "ok" =>
                          /\ IsWild(pattern) => result.params["*"] = SubSeq(path, Len(way) + 1, Len(path))
                          /\ (\A q \in DOMAIN routes : ~NamesTwice(Leading(routes[q].pattern))) =>
                               \A i \in DOMAIN way :
                                 way[i].kind = "param" /\ way[i].name # "*" /\ Agreed(way, i) => result.params[way[i].name] = path[i]
  BY DEF ParamsAreInPlace
<1> DEFINE end == EndOfWalk(trie, path)
           plain == Ending(routes, end, FALSE)
           wild == Ending(routes, end, TRUE)
           here == IF Len(end) = Len(path) THEN plain \cup wild ELSE wild
           serve == {q \in here : routes[q].method \in {method, "ALL"}}
           result == MatchRoute(trie, method, path)
           params == ParamsOf(trie, end, path)
           r == result.route
           w == Way(routes, r)
<1>1. path \in Seq(Segments) /\ TrieIs(routes, trie)
  BY RouterAssumption DEF RouterIInv
<1>2. EndsAt(trie, path, end)
  BY <1>1, WalkEnds
<1>3. SUFFICES ASSUME result.kind = "ok"
               PROVE  /\ IsWild(routes[r].pattern) => result.params["*"] = SubSeq(path, Len(w) + 1, Len(path))
                      /\ (\A q \in DOMAIN routes : ~NamesTwice(Way(routes, q))) =>
                           \A i \in DOMAIN w :
                             w[i].kind = "param" /\ w[i].name # "*" /\ Agreed(w, i) => result.params[w[i].name] = path[i]
  BY DEF Way
<1>4. /\ result.route \in serve
      /\ result.route \in plain => result.params = params
      /\ result.route \in wild =>
           result.params = [x \in DOMAIN params \cup {"*"} |-> IF x = "*" THEN SubSeq(path, Len(end) + 1, Len(path)) ELSE params[x]]
  <2>1. result.kind = "ok" =>
          /\ result.route \in serve
          /\ result.route \in plain => result.params = params
          /\ result.route \in wild =>
               result.params = [x \in DOMAIN params \cup {"*"} |-> IF x = "*" THEN SubSeq(path, Len(end) + 1, Len(path)) ELSE params[x]]
    <3>1. MatchedAs(path, method, end)
      BY <1>1, MatchIs
    <3> QED BY <3>1 DEF MatchedAs
  <2> HIDE DEF result, serve, plain, wild, params, end
  <2> QED BY <1>3, <2>1
<1> HIDE DEF result, end, params
<1>5. r \in plain \/ r \in wild
  BY <1>4
<1>6. /\ r \in DOMAIN routes /\ NodeOf(w) = end
      /\ r \in plain => ~IsWild(routes[r].pattern)
  BY <1>5 DEF Ending
<1>7. Len(w) = Len(end)
  <2>1. w \in Ways
    BY <1>1, <1>6, WaysOf DEF TrieIs
  <2>2. Len(w) \in 0..Len(w)
    BY <2>1, WayIs
  <2> QED BY <1>6, <2>1, <2>2, NodesOfWay DEF NodeOf
<1> HIDE DEF plain, wild, r
<1>8. IsWild(routes[r].pattern) => result.params["*"] = SubSeq(path, Len(w) + 1, Len(path))
  BY <1>4, <1>5, <1>6, <1>7 DEF r
<1>9. ASSUME \A q \in DOMAIN routes : ~NamesTwice(Way(routes, q)),
             NEW i \in DOMAIN w, w[i].kind = "param", w[i].name # "*", Agreed(w, i)
      PROVE  result.params[w[i].name] = path[i]
  <2>1. w[i].name \in DOMAIN params /\ params[w[i].name] = path[i]
    BY <1>1, <1>2, <1>6, <1>9, ParamIsInPlace DEF params
  <2> QED BY <1>4, <1>5, <1>9, <2>1 DEF r
<1> QED BY <1>8, <1>9

\* A request gets to a route that is registered for it, with its parameters, however
\* many routes there are and of whatever patterns (insertRoute() and matchRoute(),
\* server.ts:256-401).
THEOREM RouterServed == RouterSpec => []RoutesAreServed
<1>1. RouterIInv => RoutesAreServed
  BY RouterServesHere, ParamsAreInPlaceHere DEF RoutesAreServed
<1> QED BY <1>1, RouterInitIInv, RouterNextIInv, PTL DEF RouterSpec
=============================================================================
