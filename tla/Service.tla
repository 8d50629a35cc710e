------------------------------ MODULE Service ------------------------------
(***************************************************************************)
(* src/server.ts: a server made with Server(...).listen(...) on the default *)
(* Node adapter, run by Program.run: requests on their way through         *)
(* middleware, router, derivers, handler, error handler and response, and  *)
(* what becomes of them when the process is told to stop.                  *)
(*                                                                         *)
(* Each user function is awaited, so that other requests and signals come  *)
(* in between.  A middleware answers, fails, rejects or passes the request *)
(* on, and hands back what it is given; a connection carries one request.  *)
(***************************************************************************)
EXTENDS Program, Sequences, FiniteSets

CONSTANTS Requests,  \* the requests clients send
          Hanging,   \* those whose user functions may never settle
          Derivers   \* number of derive() resolvers

ASSUME ServiceAssumption == Hanging \subseteq Requests /\ Derivers \in Nat

VARIABLES adapter,    \* where the adapter's serve() is
          phase,      \* where each request is
          derived,    \* the number of derivers that have run for it
          answeredBy  \* history: what produced its response

serviceVars == <<adapter, phase, derived, answeredBy>>
programServiceVars == <<programVars, serviceVars>>

Errors == {"RouteNotFound", "MethodNotAllowed", "HandlerError"}
InUserCode == {"middleware", "deriving", "handling"}
Connected == {"receiving", "writing"} \cup InUserCode
Open == {r \in Requests : phase[r] \in Connected}

ServiceInit ==
  /\ ProgramInit
  /\ adapter = "importing"
  /\ phase = [r \in Requests |-> "none"]
  /\ derived = [r \in Requests |-> 0]
  /\ answeredBy = [r \in Requests |-> "none"]

-----------------------------------------------------------------------------
(* The life of the server.                                                 *)

\* serve()'s Task is Ok when the adapter is done; run() goes on with it.
Served == adapter' = "closed" /\ EffectSettles("ok")

\* The import of node:http has settled: the server listens, unless the process was
\* told to stop meanwhile.
Imported ==
  /\ Running /\ adapter = "importing"
  /\ UNCHANGED <<phase, derived, answeredBy>>
  /\ \/ interrupted /\ Served
     \/ ~interrupted /\ adapter' = "listening" /\ UNCHANGED programVars

\* The port cannot be had: nobody listens to the server's error event.
ListenFails ==
  /\ adapter = "listening" /\ \A r \in Requests : phase[r] = "none"
  /\ Uncaught
  /\ UNCHANGED serviceVars

\* The abort listener: server.close() stops accepting.
CloseServer == adapter = "listening" /\ adapter' = "closing"

\* A signal, with the abort listeners it fires.
Signal ==
  /\ OnSignal
  /\ \/ ~interrupted /\ CloseServer
     \/ (interrupted \/ adapter # "listening") /\ UNCHANGED adapter
  /\ UNCHANGED <<phase, derived, answeredBy>>

\* The teardown timer, which looks at nothing else.
Teardowns == TeardownFires /\ UNCHANGED serviceVars

\* Mutant of Closed: the connections that are writing are not waited for.
ClosedEarly ==
  /\ adapter = "closing"
  /\ \A r \in Open : phase[r] = "writing"
  /\ Served
  /\ UNCHANGED <<phase, derived, answeredBy>>

\* server.close() calls back when no connection is left.
Closed ==
  /\ adapter = "closing"
  /\ Open = {}
  /\ Served
  /\ UNCHANGED <<phase, derived, answeredBy>>

-----------------------------------------------------------------------------
(* The life of a request.                                                  *)

Moves(r, to) == phase' = [phase EXCEPT ![r] = to]

\* A client connects while the server listens.
Connect(r) ==
  /\ Running /\ adapter = "listening" /\ phase[r] = "none"
  /\ Moves(r, "receiving")
  /\ UNCHANGED <<programVars, adapter, derived, answeredBy>>

\* The connection breaks: what still runs for the request has no one to answer.
ClientLeaves(r) ==
  /\ Running /\ r \in Open
  /\ Moves(r, "gone")
  /\ UNCHANGED <<programVars, adapter, derived, answeredBy>>

\* The body has been read: fetch() begins with the middleware.
BodyEnds(r) ==
  /\ Running /\ phase[r] = "receiving"
  /\ Moves(r, "middleware")
  /\ UNCHANGED <<programVars, adapter, derived, answeredBy>>

\* The Request constructor refuses what was received (a body it does not take, a
\* URL it cannot parse): it throws out of the listener of the "end" event.
Unbuildable(r) ==
  /\ phase[r] = "receiving"
  /\ Uncaught
  /\ UNCHANGED serviceVars

\* fetch() is rejected: the adapter answers 500 itself, onError is not asked.
Rejects(r) ==
  /\ Moves(r, "answered")
  /\ answeredBy' = [answeredBy EXCEPT ![r] = "plain 500"]

\* fetch() resolves with a response, from the handler or from onError.
Responds(r, from) ==
  /\ Moves(r, "writing")
  /\ answeredBy' = [answeredBy EXCEPT ![r] = from]

\* The Task answers Err: the error handler makes a response of it, or throws.
Fails(r, error) == Responds(r, error) \/ Rejects(r)

\* The number of derivers decides what follows the router and each deriver.
Proceeds(r, done) ==
  /\ derived' = [derived EXCEPT ![r] = done]
  /\ Moves(r, IF done = Derivers THEN "handling" ELSE "deriving")
  /\ UNCHANGED answeredBy

\* The middleware settles: it has answered, failed or rejected by itself, or passed
\* the request on to the router, which finds the route or not.
Middleware(r) ==
  /\ phase[r] = "middleware"
  /\ \/ Responds(r, "middleware") /\ UNCHANGED derived
     \/ \E e \in Errors : Fails(r, e) /\ UNCHANGED derived
     \/ Rejects(r) /\ UNCHANGED derived
     \/ Proceeds(r, 0)

\* A deriver settles; the first error ends the request.
Derive(r) ==
  /\ phase[r] = "deriving"
  /\ \/ Proceeds(r, derived[r] + 1)
     \/ Fails(r, "HandlerError") /\ UNCHANGED derived
     \/ Rejects(r) /\ UNCHANGED derived

\* The handler settles, typed middleware included; a throw is a HandlerError.
Handle(r) ==
  /\ phase[r] = "handling"
  /\ UNCHANGED derived
  /\ \/ Responds(r, "handler")
     \/ Fails(r, "HandlerError")
     \/ Rejects(r)

UserCodeSettles(r) ==
  /\ Running
  /\ Middleware(r) \/ Derive(r) \/ Handle(r)
  /\ UNCHANGED <<programVars, adapter>>

\* The response has been written to its end.
Written(r) ==
  /\ Running /\ phase[r] = "writing"
  /\ Moves(r, "answered")
  /\ UNCHANGED <<programVars, adapter, derived, answeredBy>>

\* The head or the stream of the response fails: nobody handles the rejection.
ResponseFails(r) ==
  /\ phase[r] = "writing"
  /\ Uncaught
  /\ UNCHANGED serviceVars

RequestStep(r) == BodyEnds(r) \/ UserCodeSettles(r) \/ Written(r)

ServiceNext ==
  \/ Imported \/ ListenFails \/ Signal \/ Teardowns \/ Closed
  \/ \E r \in Requests : Connect(r) \/ ClientLeaves(r) \/ RequestStep(r)
                         \/ Unbuildable(r) \/ ResponseFails(r)

ServiceSpec == ServiceInit /\ [][ServiceNext]_programServiceVars

\* Imports and callbacks settle, timers fire, and the user code of the requests
\* that do not hang settles.  Nobody has to connect or to send a signal.
FairService ==
  /\ ServiceSpec
  /\ WF_programServiceVars(Imported) /\ WF_programServiceVars(Closed) /\ WF_programServiceVars(Teardowns)
  /\ \A r \in Requests \ Hanging : WF_programServiceVars(RequestStep(r))
-----------------------------------------------------------------------------
ServiceTypeOK ==
  /\ ProgramTypeOK
  /\ adapter \in {"importing", "listening", "closing", "closed"}
  /\ phase \in [Requests -> Connected \cup {"none", "answered", "gone"}]
  /\ derived \in [Requests -> 0..Derivers]
  /\ answeredBy \in [Requests -> Errors \cup {"none", "middleware", "handler", "plain 500"}]

\* A shutdown that is not forced loses nobody: when run() exits because its effect
\* settled, every client that got in has been answered, or has left.
GracefulExit == cause = "settled" => Open = {}

\* The exit code tells how the service ended: 130 exactly when it was told to stop,
\* whatever was in flight then and whichever of the three ways out was taken first;
\* a service never ends by itself, except by an error nobody handled.
ExitTells == ~Running => \/ exitCode = 130 /\ interrupted
                         \/ exitCode = 1 /\ cause = "uncaught"

\* However a service ends, its clients and the caller of the process are told.
EndsAreTold == ServiceTypeOK /\ GracefulExit /\ ExitTells

\* What the two of them rest on: only a first signal starts the timer or makes the
\* server close, each exit has its code, and nobody connects during the import.
WhyAndHow ==
  /\ teardownTimer \/ adapter = "closing" => interrupted
  /\ Running <=> cause = "none"
  /\ cause \in {"settled", "second signal", "teardown"} => exitCode = 130 /\ interrupted
  /\ cause = "uncaught" => exitCode = 1
  /\ adapter = "importing" => Open = {}

\* A deriver runs only while one is left.
DeriverLeft == \A r \in Requests : phase[r] = "deriving" => derived[r] < Derivers

\* The inductive invariant behind the theorems of ServiceProofs.
ServiceInv == ServiceTypeOK /\ GracefulExit /\ WhyAndHow /\ DeriverLeft

\* A request that has been received is answered, whatever its middleware, derivers,
\* handler and error handler do, unless its client leaves or the process ends.
RequestEnds ==
  \A r \in Requests \ Hanging : phase[r] \in Connected ~> (r \notin Open \/ ~Running)

\* A teardown timeout makes the process end after one signal, even if a request
\* hangs for ever.
ShutdownEnds == Teardown => (interrupted ~> ~Running)

\* Everybody who waits for the service comes to an end of it.
ServiceEnds == RequestEnds /\ ShutdownEnds
=============================================================================
