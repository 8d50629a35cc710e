-------------------------- MODULE ServerAdapters --------------------------
(* runtime/adapter/node.ts, bun.ts and deno.ts: serve(), from the start of    *)
(* the server to its end, and on Node the exchanges in between, each with a   *)
(* client, a handler and the loop that writes the response.  And lambda.ts:   *)
(* what becomes of the bytes of an event and of a response.                   *)
EXTENDS Naturals, FiniteSets, Sequences, SequencesExt

CONSTANTS Exchanges,  \* the requests that clients make
          Adapters,   \* "node", "bun", "deno"
          MaxChunks,  \* bound on the chunks of a response
          NeedsDuplex, \* new Request() refuses a stream for a body, as on Node
          Bodies      \* the bodies of Lambda: sequences of "low" and "high" bytes

ASSUME ServerAssumption == MaxChunks \in Nat

VARIABLES served,   \* the adapter that serves
          server,   \* "off", "listening", "failed", "closing" or "closed"
          aborted,  \* the signal
          promise,  \* what serve() returns: "pending", "resolved" or "rejected"
          exchange, \* each request, with what its response has got to
          lambda    \* what a Lambda handler was given, or what came of its response

serverVars == <<served, server, aborted, promise, exchange>>
-----------------------------------------------------------------------------
(* The exchanges on Node.                                                       *)

Fresh == [at |-> "none", body |-> "none", status |-> 0, chunks |-> 0, breaks |-> FALSE,
          head |-> 0, wrote |-> 0, left |-> FALSE]

Becomes(r, e) == exchange' = [exchange EXCEPT ![r] = e] /\ UNCHANGED <<served, server, aborted, promise>>

\* http.createServer(): a request comes, and toRequest() makes a stream of its body.
\* The chunks of it go through as they come, and are left out.
Accept(r, hasBody) ==
  /\ served = "node" /\ server = "listening" /\ exchange[r].at = "none"
  /\ IF hasBody /\ NeedsDuplex
     THEN Becomes(r, [exchange[r] EXCEPT !.at = "crashed"])
     ELSE Becomes(r, [exchange[r] EXCEPT !.at = "handling", !.body = IF hasBody THEN "open" ELSE "none"])

\* The events end and error of the request, one of them.
EndOfBody(r) ==
  /\ exchange[r].body = "open"
  /\ Becomes(r, [exchange[r] EXCEPT !.body = "closed"])

\* The client goes away: a body that it was still sending has an error, and the
\* connection is no longer there to wait for.
ClientGoes(r) ==
  /\ exchange[r].at \in {"handling", "writing"}
  /\ ~exchange[r].left
  /\ Becomes(r, [exchange[r] EXCEPT !.left = TRUE, !.body = IF @ = "open" THEN "errored" ELSE @])

\* Mutant of HandlerAnswers: the response is ended once its head is written.
HandlerAnswersAtOnce(r, status, chunks, breaks) ==
  /\ exchange[r].at = "handling"
  /\ Becomes(r, [exchange[r] EXCEPT !.at = "ended", !.head = status, !.status = status,
                                    !.chunks = chunks, !.breaks = breaks])

\* writeResponse() up to its loop; with no body there is none.  One that breaks has an
\* error where it would end.
HandlerAnswers(r, status, chunks, breaks) ==
  /\ exchange[r].at = "handling"
  /\ Becomes(r, [exchange[r] EXCEPT !.at = IF chunks = 0 /\ ~breaks THEN "ended" ELSE "writing",
                                    !.head = status, !.status = status, !.chunks = chunks, !.breaks = breaks])

HandlerFails(r) ==
  /\ exchange[r].at = "handling"
  /\ Becomes(r, [exchange[r] EXCEPT !.at = "ended", !.head = 500, !.status = 500])

\* One turn of the loop: a chunk, the end, or an error that nobody handles.
WritesOn(r) ==
  /\ exchange[r].at = "writing"
  /\ IF exchange[r].wrote < exchange[r].chunks THEN Becomes(r, [exchange[r] EXCEPT !.wrote = @ + 1])
     ELSE IF exchange[r].breaks THEN Becomes(r, [exchange[r] EXCEPT !.at = "unhandled"])
     ELSE Becomes(r, [exchange[r] EXCEPT !.at = "ended"])

Underway(r) == exchange[r].at \notin {"none", "ended"} /\ ~exchange[r].left
-----------------------------------------------------------------------------
(* serve().                                                                     *)

\* Node looks at the signal before it listens, Bun has the server stop again, and Deno
\* gets the signal with its options.
Serve ==
  /\ server = "off" /\ promise = "pending"
  /\ IF aborted
     THEN server' = "closed" /\ promise' = "resolved"
     ELSE server' = "listening" /\ UNCHANGED promise
  /\ UNCHANGED <<served, aborted, exchange>>

\* The port is taken: Node has an event that nobody listens to, the others throw.
PortTaken ==
  /\ server = "off" /\ ~aborted
  /\ server' = "failed"
  /\ promise' = IF served = "node" THEN promise ELSE "rejected"
  /\ UNCHANGED <<served, aborted, exchange>>

\* Node closes the server, which waits for what is open; Deno does so by itself; Bun's
\* stop(true) does not wait.
Abort ==
  /\ ~aborted
  /\ aborted' = TRUE
  /\ IF server = "listening"
     THEN IF served = "bun" THEN server' = "closed" /\ promise' = "resolved"
          ELSE server' = "closing" /\ UNCHANGED promise
     ELSE IF server = "failed" /\ served = "node" THEN promise' = "rejected" /\ UNCHANGED server
     ELSE UNCHANGED <<server, promise>>
  /\ UNCHANGED <<served, exchange>>

AllClosed ==
  /\ server = "closing"
  /\ \A r \in Exchanges : ~Underway(r)
  /\ server' = "closed" /\ promise' = "resolved"
  /\ UNCHANGED <<served, aborted, exchange>>

ServerInit ==
  /\ served \in Adapters
  /\ server = "off" /\ aborted = FALSE /\ promise = "pending"
  /\ exchange = [r \in Exchanges |-> Fresh]

ServerNext ==
  \/ Serve \/ PortTaken \/ Abort \/ AllClosed
  \/ \E r \in Exchanges :
       \/ \E hasBody \in BOOLEAN : Accept(r, hasBody)
       \/ EndOfBody(r) \/ ClientGoes(r) \/ HandlerFails(r) \/ WritesOn(r)
       \/ \E chunks \in 0..MaxChunks, breaks \in BOOLEAN : HandlerAnswers(r, 200, chunks, breaks)

Handles(r) == HandlerFails(r) \/ \E chunks \in 0..MaxChunks, breaks \in BOOLEAN : HandlerAnswers(r, 200, chunks, breaks)

\* serve() is called, handlers answer and bodies are read; clients do as they like.
ServerSpec == ServerInit /\ [][ServerNext]_serverVars
FairServer ==
  /\ ServerSpec
  /\ WF_serverVars(Serve) /\ WF_serverVars(AllClosed)
  /\ \A r \in Exchanges : WF_serverVars(Handles(r)) /\ WF_serverVars(WritesOn(r))
-----------------------------------------------------------------------------
(* Lambda.  A body that is base64 is decoded to a string of which each character *)
(* is a byte, and the Request encodes its characters again.                      *)

Utf8(char) == IF char = "low" THEN <<"low">> ELSE <<"high", "high">>
Encoded(chars) == FlattenSeq([i \in DOMAIN chars |-> Utf8(chars[i])])

\* A text of which every character beyond ASCII has two bytes.
IsText(bytes) ==
  LET from[i \in 1..(Len(bytes) + 1)] ==
        \/ i = Len(bytes) + 1
        \/ i <= Len(bytes) /\ bytes[i] = "low" /\ from[i + 1]
        \/ i < Len(bytes) /\ bytes[i] = "high" /\ bytes[i + 1] = "high" /\ from[i + 2]
  IN  from[1]

\* toRequest(): API Gateway gives what is no text as base64.  A GET has no body.
RequestBody(method, bytes, base64) ==
  IF method = "GET" THEN <<>> ELSE IF base64 THEN Encoded(bytes) ELSE bytes

\* isTextContent() and toResult(): a text is decoded and goes out as it is, with
\* replacements where it is none; anything else goes out as base64, byte by byte.
TextContent(type) == type \in {"none", "text"}
ResultBody(type, bytes) ==
  IF TextContent(type) /\ ~IsText(bytes) THEN <<"replacement">> ELSE bytes

LambdaInit == lambda = [call |-> "none"]

\* toLambdaHandler() on its way to the handler, and back.
LambdaRequest(method, bytes, base64) ==
  /\ IF base64 THEN TRUE ELSE IsText(bytes)
  /\ lambda' = [call |-> "request", method |-> method, bytes |-> bytes, given |-> RequestBody(method, bytes, base64)]

LambdaResponse(type, bytes) ==
  lambda' = [call |-> "response", type |-> type, bytes |-> bytes, given |-> ResultBody(type, bytes)]

LambdaNext ==
  \E bytes \in Bodies :
    \/ \E method \in {"GET", "POST"}, base64 \in BOOLEAN : LambdaRequest(method, bytes, base64)
    \/ \E type \in {"none", "text", "binary"} : LambdaResponse(type, bytes)
-----------------------------------------------------------------------------
\* What a client has got is the beginning of one response, with its status first, and a
\* response that has ended is all there: whoever aborts or goes away meanwhile.
ResponsesAreWhole ==
  \A r \in Exchanges :
    LET e == exchange[r]
    IN  /\ e.head \in {0, e.status} /\ (e.wrote > 0 => e.head # 0) /\ e.wrote <= e.chunks
        /\ e.at = "ended" => e.head # 0 /\ e.wrote = e.chunks /\ ~e.breaks

\* serve() of Node and Deno returns when nobody is waiting for an answer any more.
ServeWaits ==
  promise = "resolved" /\ served # "bun" => \A r \in Exchanges : ~Underway(r)

\* The two together: clients get whole responses, and serve() waits for them.
AnswersAreWhole == ResponsesAreWhole /\ ServeWaits

\* Program waits for serve() after it has aborted: it does return, unless a body broke off
\* and its client waits, or the listener failed for a request.
ServeEnds ==
  aborted ~> (promise # "pending" \/ \E r \in Exchanges : exchange[r].at \in {"unhandled", "crashed"})

\* lambda.ts:67 "Handles base64-encoded bodies from API Gateway binary payloads": the
\* handler is given the bytes that the client sent.
BodyArrives ==
  lambda.call = "request" /\ lambda.method # "GET" => lambda.given = lambda.bytes

\* What the handler answers comes out as it is, if it is what its content type says.
ResultIsTheResponse ==
  lambda.call = "response" /\ (lambda.type = "binary" \/ IsText(lambda.bytes)) => lambda.given = lambda.bytes
=============================================================================
