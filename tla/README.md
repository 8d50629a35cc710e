# pure-ts, modelled and checked

TLA+ modules of the library in `src/src` and its release script; TLC configurations that
check them on small instances; theorems about some of them for every value of the
constants, with proofs for TLAPS. `PROJECT.json` lists the components, runs, mutants,
hazards and theorems, and gives for each definition the lines of code it stands for.

    tlc -workers 2 -config MCAsync.cfg MCAsync    # one run
    tlapm ChannelProofs.tla                       # the proofs of one module

Contents: [the system](#the-system), [modules](#modules),
[how the code is abstracted](#how-the-code-is-abstracted), [runs](#runs),
[disagreements](#disagreements-between-the-code-and-its-comments),
[theorems](#theorems), [what is only model-checked](#what-is-only-model-checked),
[what is not modelled](#what-is-not-modelled), [plan](#plan).

## The system

pure-ts is a library. Its functions run on one JavaScript thread: a function that
does not `await` is atomic, and everything else (other callers, promise
continuations, timers, signals, sockets) comes in between where it does. The hard
behaviour of its asynchronous half follows from that: state read before an `await` and used after it, user
code called synchronously in the middle of a loop, the order in which promises
settle, timers that race results, and processes that are told to stop. In the other half
(data, algebraic types, schemas, routing, adapters) nothing interleaves; what is hard there is
what a long sequence of calls makes of a structure, and what the parts make of each other when they are composed.

| Component | State | Operations | What is hard | What makes it correct |
|---|---|---|---|---|
| Semaphore, Mutex (`async/semaphore.ts`) | `available`, `waiters` | acquire, release, wrap | wake-up and arrival race; a Release called twice | permits conserved, none idle while somebody waits, order kept, everybody runs |
| Channel (`async/channel.ts`) | `buffer`, `closed`, `sendWaiters`, `receiveWaiters` | send, next, close | both sides can block; hand-over, buffering and blocking must keep one order; close with people waiting | FIFO and exactly once, nobody waits for what is there, answers are true, streams end when drained |
| Pool (`async/pool.ts`) | idle entries and their timers, `activeCount`, `draining`, `waiters`, `drainResolve` | acquire, release, use, drain, idle timer | four awaits inside acquire; drain during acquires; user functions that throw | a resource is in one place, the count is right, the size limit, a drain leaves nothing and ends |
| Queue (`async/queue.ts`) | `pending`, `activeCount`, `paused`, drain waiters | push, dequeue, settle, drain, pause, resume | handlers run inside the dequeue loop and may call the queue or throw; order taken from a clock | slots counted right, none idle, order, drain resolves when and only when idle |
| CircuitBreaker (`async/circuit-breaker.ts`) | `currentState`, two counters, `openedAt` | run, reset, state | results arrive in another state than the call left in; concurrent probes; clock | counters mean "consecutive", open ignores late results, open and half-open end |
| Program (`program.ts`) | `interrupted`, `teardownTimer` | run, onSignal, timer, finally, exit | effect, timer and second signal race | the exit code tells what happened; a signal ends the process in bounded time |
| Server (`server.ts`) | the adapter's listener and abort handler; requests in the pipeline | serve, listen, fetch, middleware, derivers, handler, onError | shutdown with requests anywhere; rejections at each stage; a signal during the import | requests answered, graceful exit loses nobody |
| Server adapters (`runtime/adapter/`) | the host's server, open exchanges | serve, read a body, write a response | clients that leave, bodies that break, an abort before the server is up | a client gets a whole response or none; serve ends when the server has |
| Task, Retry, Timer (`async/`) | promises, the cached promise of memoize, attempts | run, zip, all, race, timeout, memoize, retry, ... | settlement in any order, late answers, promises that reject or hang | attempts follow one another, memoized tasks run once, no execution is left behind, who awaits is answered |
| Stream (`async/stream.ts`) | generators; push queue, debounce timer | pull, push, done | overlapping next(), an error overtaking a debounced value; operators that break off | nothing lost, nobody waits beside an item, a pipeline is the composition of its operators |
| Subprocess (`io/subprocess.ts`) | the child, its timer, what has been read | exec, spawn, wait, kill | timeout racing exit; listeners registered late | a call that says ok has all the output; every call is answered |
| TCP (`io/net.ts`) | connection, listeners | connect, receive, close | chunks with nobody waiting, several receives | what arrives comes in order |
| Terminal (`io/terminal.ts`) | raw mode, pending reads | readLine, readPassword, confirm, readAll | a read that outlives its call; raw mode that three parts turn on and off | raw mode for passwords and open questions only; an answer is what was typed |
| Cache (`async/cache.ts`) | Map with expiry | get, set, getOrElse, evict | look before an await and store after it; eviction order | size bound, what was used longest ago goes first |
| RateLimiter (`async/rate-limiter.ts`) | tokens, last refill | tryAcquire, wrap, tokens, reset | parts of intervals; clock going back | refilling when looked at is refilling on time |
| EventEmitter (`async/event-emitter.ts`) | Map of live Sets | on, once, off, emit, removeAll | a live Set walked while handlers change it | once means once; an emit reaches everybody registered |
| CronRunner, Cron (`async/cron-runner.ts`, `types/cron.ts`) | `running`, interval, last minute fired | start, stop, tick, parse, next, matches | calendar arithmetic; a clock put forward and back; restart within a minute | a minute fires once; next passes over none that matches |
| Router (`server.ts`) | trie | insertRoute, matchRoute | greedy descent without backtracking; routes shadowed by later ones | a request gets the route a reference definition gives it, parameters in place |
| HashMap, StableVec (`data/`) | trie; slots with generations, free list | set, delete, merge, insert, remove, clear, iterate | collisions, collapsing nodes; stale handles, changes during a walk | a trie is the function it stands for; a stale handle finds nothing |
| List, Record, NonEmptyList (`data/`) | arrays and objects shared with callers; drafts | append, setAt, sortBy, ..., set, update, merge, produce | aliasing; writes to overlapping paths | methods change nothing that others hold; produce writes as assignments would |
| Schema, Codec (`data/`) | none | parse, decode, encode | nesting of wrappers, errors deep inside | what is parsed fits, paths lead to what is wrong, encoding inverts decoding |
| StateMachine, Lazy, Env, State, Match, ADT | current state; memo; arms | send, transition; value, dispose; run; with | hooks that throw; disposal before evaluation; arms in any order | entries and exits balance; evaluated once; the first arm that fits |
| Result, Option, Validation, lenses, Eq, Ord | none | map, flatMap, collect, compose, ... | loops that stop early or accumulate; nested compositions | the loops agree with the methods; optics and orders are lawful |
| Nominal types, errors, Duration (`types/`) | caches of composed types | compose, fail, format | one object per type; causes | a type is composed once; a format adds up to what it was made of |
| Runtime adapters and services (`runtime/`, `io/`) | resolved adapters | resolve, call | adapters asked for before the runtime's modules are there; functions that are missing or throw | what fails is an Err or None, and nothing else is |
| Paths, arguments (`runtime/platform.ts`, `process.ts`) | none | resolve, relative, parse, parseArgs | dot segments, roots, drives; flags that take the next word | paths lead where they did; an argument is taken once |
| Crypto, Encoding | keys | generate, import, seal, open, randomInt | usages, pairs, rejection sampling | what one key seals its partner opens; every value is as likely |
| Release script (`scripts/release.mjs`) | two clones, tags, releases | preflight, bump, commit, tag, push, release | failures anywhere, started again, commits made by hand, others pushing | a release that is published is there as a whole |
| HTTP and WebSocket clients, logger, config, text formats | none of their own | forward to the host | host failures become Err | every failure is caught |

Who calls whom: Queue, Pool, Semaphore, Channel, CircuitBreaker, Retry and Cache take
user functions or Tasks and know nothing of each other. `Server.listen` returns a
`Program` whose effect is `serve`: the program's AbortSignal closes the server, and the
server's end settles the effect. That is the composition the library itself makes, and
the one that `Service.tla` models. The router, the derivers and the middleware run inside
one request. A subprocess, a terminal and a socket are Tasks over an adapter that is resolved
for the runtime.

## Modules

| Module | Stands for | Uses |
|---|---|---|
| `SemaphorePromise` | what a counting semaphore promises: an ordered line in front of a number of places | |
| `Semaphore` | `createSemaphore`, `createMutex` | INSTANCE of SemaphorePromise |
| `ChannelPromise` | what a bounded channel promises: one line of values, in which neither a buffer nor blocked senders show | |
| `Channel` | `createBoundedChannel` (unbounded: a capacity out of reach) | INSTANCE of ChannelPromise |
| `PoolPromise` | what a pool promises: resources that are made once, lent to one caller at a time and retired for good, and a line of those who wait | |
| `Pool` | `createPool` | INSTANCE of PoolPromise |
| `Queue` | `createQueue` | |
| `CircuitBreaker` | `createInstance` | |
| `Program` | `run()` of `program.ts`; the effect is left open | |
| `Service` | `serve`, `listen`, the default Node adapter, `fetch` and the pipeline behind it | EXTENDS Program |
| `Task` | `TaskImpl`, `Task.*`, `applyRetry`, `delay`, `deadline` | |
| `StreamPush`, `StreamPull` | `merge` and `debounce`; the operators that pull and what runs them | |
| `Subprocess` | `Command.exec`, `spawn`, `wait`, `kill` on three runtimes | |
| `ServerAdapters` | the Node, Bun and Deno adapters; the bytes of bodies on Lambda | |
| `EventEmitter`, `Cache`, `RateLimiter` | the utility of that name | |
| `Cron` | `CronRunner`; `Cron.parse` and `Cron.next` | |
| `HashMap`, `StableVec` | the persistent trie; the generational vector | |
| `Lists`, `Records`, `Values` | List and NonEmptyList; records and drafts; JavaScript's values | Values |
| `Schema` | schemas, codecs, and the runtime types as schemas | Values |
| `Nominal` | composers and their caches, errors, durations | |
| `Core`, `Optics` | Result, Option and Validation, Eq and Ord; lenses | |
| `Effects`, `Machine` | Lazy, State, Env, Match, ADT; StateMachine | |
| `Router` | `insertRoute`, `matchRoute` | |
| `Terminal`, `Net` | lines, passwords, confirmations; TCP | |
| `Platform`, `Crypto`, `Ports` | Path and parseArgs; keys and random numbers; everything the library asks of its host | |
| `Release` | `scripts/release.mjs` | |
| `SemaphoreProofs`, `PoolProofs`, `QueueProofs` | theorems about the module of that name | EXTENDS it |
| `TaskProofs` | theorems about `Task` and `CircuitBreaker` | EXTENDS both |
| `ChannelProofs` | theorems about `Channel` and `StreamPush` | EXTENDS both |
| `ServiceProofs` | theorems about `Service`, `ServerAdapters`, `Subprocess`, `Machine`, `Ports`, `Crypto`, `Nominal`, `Lists` and `Router` | EXTENDS the nine |
| `UtilitiesProofs` | theorems about `EventEmitter`, `Cron`, `RateLimiter`, `StableVec`, `Cache`, `Release` and `Net` | EXTENDS the seven |
| `MCAsync` | the module TLC runs for the parts that must come to an end | EXTENDS each |
| `MCUtilities` | the module TLC runs for the parts that run without waiting or alone | EXTENDS or INSTANCE of each |

### How the code is abstracted

*Steps.* An action is a stretch of code between two awaits, or between two calls of user
code where those can come back in. Variables have the names of the code's variables;
those that stand for closures or promises hold who would be resumed. History variables
(`delivered`, `overlapped`, `results`, `cause`, ...) are marked as such and no guard
reads them.

*Semaphore.* `release()` increments, shifts the first waiter and calls its closure, which
decrements again: one step, since nothing can run between. A caller whose promise is
resolved owns a permit before it runs (`granted`). Callers in `Careless` may call a Release
again, which the code does not prevent; `MaxSurplus` bounds how often. SemaphorePromise gains a
place for each such call, so the refinement says precisely how much harm it does.

*Channel.* Values are the numbers of the `send()` calls, so the order of delivery can be read
off them. A receiver is one `for await` loop; sends need not be awaited, so any number may be
blocked. `close` settles everything in one step.

*Pool.* `acquireImpl` is cut at `await tryAcquireIdle()`, which yields even if nothing is idle
(`noIdle`, `gotIdle`), at `validate` and at `create`. User functions may throw: a throwing
validate counts as unhealthy, a throwing create answers Err, a throwing destroy is swallowed.
Timers fire only when no continuation is due, as in the event loop (`NoMicrotask`). What cannot
be told apart is one step: a waiter that is handed a resource is shown holding it at once.

*Queue.* `stack` is the JavaScript call stack with the queue's own frames and user code: a handler
or an `onError` may push, drain, pause or resume before it returns, and may throw through the
queue's frames. The event loop is the empty stack.

*CircuitBreaker.* `age` is `Date.now() - openedAt` cut off at the timeout, so that the clock is finite;
set-backs of the clock make it smaller. A task that is rejected, not answered with Err, is counted
neither way, as in the code.

*Service.* Each user function is awaited, and may answer, fail, reject or (for requests in `Hanging`)
never settle. The trie is the choice of its outcomes. Abstracted: middleware passes through what the
inner handler answers; a connection carries one request; a keep-alive connection without a request
is no connection. Node's behaviour (connections, `server.close` calling back when none is left,
unhandled rejections ending the process with code 1) is external and marked so in the map.

*Task.* A behaviour is one tree of combinators that is run, perhaps more than once. Each `run()` of a node is an execution;
what `run()` does before its first await belongs to the step that calls it. A leaf answers Ok, Err or an Err not worth another try,
rejects, or never settles if it may hang. `map` also stands for the other methods that hand on an answer. An execution knows the one that
began it and those that it has begun, in order: the closures of the code, which hold the promises they wait for. `all()` waits for every one of its tasks, as the
code does; that its comment says otherwise is the run `task_all`.

*Stream.* `StreamPush` keeps the one callback that the code keeps: a `next()` made while another waits takes its place, and the
one whose place is taken is never answered. `EveryCallSettles` is about the last of overlapping calls. `NothingIsLost` is about all of them:
it compares what the calls were answered and what is held for them (`Held`, in the order of the calls) with what the sources have given.
`StreamPull` has a source, two operators and a consumer; what an operator keeps between two items is a field of its stage, and
`PipelineIsComposition` compares what comes out, item by item, with definitions over whole sequences.

*Subprocess.* The streams and events of the runtimes are external. Node tells those who listen at the time and throws away what nobody has read
once the child has exited; Deno and Bun keep it. The three ways of `exec` (`execFile`, collected streams, `output()`) are actions of their own.
Bun's `exec` without input and timeout blocks the thread; it is modelled like the one that does not.

*ServerAdapters.* Requests on Node are exchanges with a client that may leave and a handler that may answer, answer with a body that
breaks, or reject. Lambda has no lifecycle: a body is a sequence of bytes below and above 127.

*Net, Terminal.* A read is what is below a call and may outlive it. The input comes in chunks as the terminal hands them on, and its characters are the ones
the code tells apart; timeouts may come at any time. A question on Node is a readline interface (`TakeQuestion`). On a terminal it turns raw mode on and
reads keys (delete, ^C, ^D; editing to the left and right of a cursor is not modelled); elsewhere it splits lines. Its `close()` ends raw mode and pauses the input. A
question that has timed out is not closed by anybody: the terminal stays raw, and what is typed goes to the interface that was left open as well as to the next call. `stream` is Node's
stdin, which has to be resumed and which ends once: a question then gets `close` and answers None, whatever it has of a line, and a password waits for good.

*EventEmitter.* A JavaScript Set is a sequence in insertion order; a deleted element leaves a `Gap`, as
iteration of a live Set sees it. `walks` is the stack of emits, each inside a handler it called, and every operation may
happen at any depth. The wrapper made by the n-th `once(h)` is the listener `<<h, n>>`. Sets that `removeAll` drops stay in `sets`,
because an emit may still walk them.

*Cache.* Values are left out: no operation looks at them. `Filtered` is a deletion from a Map, which keeps the order of the others. `uses` is the history of insertions and reads; `set` on a key
that is there is not a use, since `Map.set` keeps its place.

*Cron: the runner.* Time is a sequence of minutes with their local fields, of which the instance gives some; ticks look at a minute any
number of times. With `runImmediately` the handler is called before the timer is set, and may stop the runner, start it again or throw (`RunsAtOnce`): after a throw the runner is
`running` without a timer, and after a stop the timer is set although the runner is stopped, and nothing clears it any more once another one is set (`leaked`). In `tick` a throw changes
nothing of the runner.

*RateLimiter.* `Refilled` is what `tokens` is after `refill()`, and `bucket` the history of a bucket that is filled when an interval
ends. Once the clock is set back the two cannot be compared (the code does not refill until the clock has caught up), and
`bucket.steady` is FALSE until the next `reset`.

*Cron: the search.* Expressions come already cut at commas, slashes and dashes. The calendar has months and years of equal length, which are
parameters (the instance has a small one); instants and local times are minutes, and the clock is put forward and back once, when an hour begins. `after` is the date that `next()` is
given and `start` what the local setters make of it; a skip to another day or month is two moves, as in the code: the fields of the date, and then `setHours(0)` on the day that
this has led to (`MoveToDay`).

*HashMap, StableVec.* `tries` are the nodes of the code; `contents` and `nans` are the history that says what they stand for (NaN is
never found, so every insertion of it counts). `StableVec` has one walk that may be under way while its callback or its loop changes the vector.

*Lists, Records.* Elements have a key and a tag, so that what an order does not tell apart still is told apart. A caller keeps the
array it made a list of, and may be handed the array of any list by `$raw` or `toJSON()` (`HandOut`): it can write to what it holds (`CallerWrites`), and `wrote` is the history of the lists'
arrays that it wrote to. Sorting puts `undefined` last without asking the order. A draft is its log of writes, `direct` the history of what assignments would have made.

*Schema.* A schema is a tree and `Parse` a recursive operator on it; each step of a behaviour is one call with its answer.
Predicates are those of `schema.ts`; transformations and codecs of callers are doubling and adding one.

*Core, Optics, Effects, Machine, Nominal.* Functions of callers are of a few kinds (an operation, a failure, an exception) over small
sets; what they are called with and in which order is kept. What `Env.mapErr()` makes of an Err is a plain object without methods (env.ts:75), so that another `mapErr()` around it rejects:
`RunEnv` tells Ok, Err, such a bare object and a rejection apart. In `Machine` the context is the list of hooks that have run. A guard or hook that throws (`Breaks`) leaves the caller with the state and the
context it had; what hooks before it have done elsewhere is not undone, and not modelled.

*Router.* A node of the trie is named by the path to it. Up to three routes out of ten patterns are inserted in every order, one at a time:
a trie is that of the routes before it with one more inserted. A walk goes down as far as there are nodes; where it ends is the longest of the nodes it can come by (`EndOfWalk`).

*Ports.* For each operation the model says which method of which adapter it calls, and what kind of method that is (missing, constant, plain, or one
that may throw, with who catches); a host is the set of things it offers (a Deno may have a `navigator` or not, by which it counts its processors). *Crypto*: what the Web Crypto API makes is a term that names what went in.
*Platform*: a path is a sequence of separators, drives and names, of POSIX or of Windows; what holds of `resolve()` on POSIX only is said so in `PathsAgree`.

*Release.* The script's position, two repositories, tags and releases. What it asks CI, npm and the maintainer may always make it give up (`Fail`);
the maintainer commits, pushes, restores and starts it again. Commits by the maintainer and by others leave what they like in the two manifests (`ByHand`): without an argument the script releases the version
that package.json has, and never looks at jsr.json.

## Runs

Each part shares nothing with the others that are checked beside it: `subject` says which of them a behaviour is about, and the
other variables keep one initial value. That keeps the number of runs small without multiplying state spaces.

| Run | Shows |
|---|---|
| `async` | eight parts under fairness; 36,000 states. Safety: `PermitsAreKept`, `ValuesMove`, `ResultsAreCounted`, `OpenIgnoresResults`, `EndsAreTold`, `NothingIsLost`, `AttemptsAreOrdered`, `CallTells`, `AnswersAreWhole`. Refinement: `KeepsPromise` (the semaphore implements `SemaphorePromise` with its fairness), `ActsAsOneLine` (the channel implements `ChannelPromise`). Liveness: `WaiterRuns`, `ChannelSettles`, `BreakerRecovers`, `ServiceEnds`, `EveryCallSettles` |
| `pool` | `ResourcesAreCounted`, `DrainingIsEmpty`, `SerialFits`, `LendsAsPromised` (the pool implements `PoolPromise`), `DrainCompletes` |
| `queue` | `SlotsAreUsed`, `LineIsOrdered`, `DrainIsTrue`, `DrainResolves` |
| `utilities` | twenty-eight parts; 720,000 states. `OnceFiresOnce`, `EmitReaches` (emitter), `LeastRecentGoesFirst` (cache), `NeverTwice` (runner), `LazyIsEager` (limiter), `NextIsFirst` (search), `HandlesAreTrue` (StableVec and walks of it), `LawsHold` (sums, optics, orders, lists, deferred programs, match), `DataIsFaithful` (schemas, records, types, HashMap, and the types of the utilities' states), `PipelineIsComposition` (streams), `MachineIsTrue`, `RoutesAreServed`, `RuntimeAnswers` (ports, paths, arguments, keys, terminal, Lambda's results), `ReceivesAreOrdered` (TCP), `ReleaseHolds` |
| `pool_overshoot`, `pool_lostwakeup`, `queue_pause`, `breaker_probe`, `cron_skip`, `lambda_base64`, `records_produce`, `task_all` | violations, see below |

Type invariants are parts of properties that speak of the same state: `SemaphoreInv`, `ChannelInv`, `ServiceInv` and the invariants of the breaker
are conjunctions whose first part is the type.

*Why the bounds are enough.* Each instance has at least one actor more than the resource it competes
for, so that somebody waits while somebody else arrives, and two waiters, so that order matters.

* Semaphore: four callers on two permits, two of whom may release again, twice in all.
* Channel: ten sends fill the buffer of two and block eight; three consumers can all wait; close at any time.
* Pool: with three callers on one resource two can wait, so that the order of the hand-over shows; one can be validating, one creating and one holding, since
  overlapping acquires create more than the limit, and a drain meets each of these. `MaxCreated` bounds the number of creations: past it `create` can only throw.
* Queue: with three jobs on two slots one can wait while a handler's nested push, a failure and a
  settlement happen; the stack is not bounded, its depth follows from the jobs.
* Breaker: three users with both thresholds two: two calls of the period next to a straggler from before it.
* Service: one request that hangs and one that does not; two derivers; three signals are one more than matter.
* Task: seven trees that between them have every combinator, each above one that may hang, reject or be shared; `MaxExecutions` is more than
  any of them starts. Stream: two sources of up to three items with an error between two values, three calls of `next()`;
  pipelines of every pair of operators over up to three items.
* Subprocess: a child that writes twice, so that output may be cut between. Server adapters: two requests, one chunk each, on each adapter.
* Emitter: two nested emits and one `removeAll` are what it takes to call a wrapper twice. Cache: three keys for two places make every
  insertion evict. Runner: the minutes include the two that the runner takes for one. Limiter: twelve units of time are four intervals, more
  than it takes to fill the bucket from nothing. Search: every instant of twenty-one, on both sides of both
  changes of the clock, of which the first leaves out the last hour of a day, so that the second move of a skip lands on another day than the first aimed at.
* HashMap: three keys and NaN on nodes of two branches, three levels deep, so that two collide at each level and three in full.
  StableVec: four insertions, one of them of `undefined`, make a slot be used twice and a walk lose its place.
* Router: three routes are what it takes to be led astray (one static, one with a parameter, one below). Sums: three items put one between two.
* Records: three writes, of a value or an object, at paths that overlap. Lists: two arrays and lists of up to four, so that a list may share its array with the caller who writes.
  Lazy values: two thunks that return.
* Release: two versions and three commits by hand, of one version or of the other in package.json alone: one release that fails half-way and the next, or one that was bumped by half.
* Terminal: three calls over chunks in which lines begin and end. Net: four receives for three chunks, so that one is left waiting.
* Crypto: three keys of four families and two texts; random integers on a byte of 4 and ranges up to 18, past two bytes.
  The width of the JavaScript number is `Mantissa`, which ranges do not reach: see below.

*Deadlock* is checked in `async` and `queue`; in `async` the parts that may really stop (a service, a stream, a task, a process, a server) may stutter. It is not
checked in `pool` (all callers refused and the drain done) nor in `utilities`, whose bounded histories end.

*Fairness.* Always: promise continuations run. Per module: wrapped tasks settle (semaphore); consumer
loops ask again, but nobody has to send or close (channel); validate, create, destroy settle
and holders release, but nobody has to acquire or drain, and idle timers need not fire (pool); the queue's own
frames run, user code that is called ends, and handlers settle, the latter strongly because others may
keep calling the queue (queue); time passes, callers keep calling, and a caller's tasks are not
rejected for ever (breaker: without callers an open breaker stays open, since the code looks at the
clock only when called); imports settle, timers fire, user code of requests outside `Hanging` settles
and clients send their bodies (service); timers of debounce fire and sources that go on do so (streams); leaves that may not hang settle, and what awaits goes on
(tasks); the runtime tells what it knows, timeouts come, and a child that is killed exits (subprocess); handlers and the loop that writes go on, and
the host's server closes when it is told to (adapters). Clients and signals are never fair.

Each property of a passing run has a mutant in `PROJECT.json`: a changed form of one definition (the ones
commented "Mutant of") with which TLC finds the property violated.

## Disagreements between the code and its comments

Found while modelling; each is a run in which TLC finds the violation.

* `pool_overshoot`: two acquires in flight together both pass the size check, since the resource is
  counted after `await create()`. A pool of one holds two resources. `SerialFits` is what is true instead:
  the limit holds as long as acquires do not overlap.
* `pool_lostwakeup`: a resource released between `await tryAcquireIdle()` and the decision to wait becomes
  idle, and the caller waits beside it, until somebody else acquires and releases.
* `queue_pause`: a handler that pauses the queue before its first await does not keep the loop from
  starting the next job.
* `breaker_probe`: a half-open breaker lets every call through, not one probe.
* `cron_skip`: the number by which a runner remembers the minute it fired in gives a month 30 days and 10 hours, so that 10:00 on the 31st
  is midnight of the 1st that follows: a runner of `0 0,10 * * *` skips that midnight after every month of 31 days except
  December, whose year is counted separately.

* `lambda_base64`: the Lambda adapter decodes a binary body into a string of one character per byte, and `new Request()` encodes that as
  UTF-8: bytes above 127 reach the handler as two.
* `records_produce`: `produce()` that writes into a list inside a list leaves an object with numeric keys in place of the inner list.
* `task_all`: `Task.all()` says "Short-circuits on first error" (task.ts:248, 309; `traverse` says the same at 345), and waits for all of its tasks: next to one that hangs, the
  error of another is never told.

The models, or the reading for them, also show the following, which no run states as a violation: either no comment contradicts it or it takes one line to see.

* Pool: callers that wait when a pool is drained are never answered; a second `drain()` overwrites the first one's resolve function. Queue: a job whose handler
  throws synchronously keeps its slot, and an `onError` that throws leaves jobs beside a free slot and a due drain unresolved until somebody calls the queue. CircuitBreaker: a probe that hangs keeps it half-open.
  Channel: with capacity 0 its two sides wait for each other. Semaphore: a task that acquires twice waits for itself.
* EventEmitter: a `once` handler runs twice if a handler called by a nested emit removes all listeners. Cache: `set` on a cached key does not make it recently used.
* Cron: "Compute the next occurrence after the given date" (cron.ts:287; `NextIsAfter`): from within the second of two equal hours `next()` starts to look in the first, and may answer a time before the given one. It
  does not look at the second of two equal hours, and passes over a day whose last hour the clock leaves out, if it skips to that day in the hour left out. CronRunner: a `stop()` by the handler that `start()` calls at once
  does not stop the timer.
* Paths on Windows: "a normalized absolute path" (platform.ts:125), where `Path.resolve("C:/..")` has lost the drive, `resolve("C:/")` is `C:`, and `resolve("/a")` is `\\a`; `isAbsolute()` refuses all three.
* Env: `mapErr()` around a `mapErr()` whose program fails rejects with a TypeError, since env.ts:69-79 makes an object without methods.
* Stream: a `next()` of `merge()` that another overtakes never settles. Lazy: what is derived and already evaluated answers after its base is disposed.
* StateMachine: an event with the name of an inherited key (`constructor`) is looked up in the prototype. `groupBy` and `discriminatedUnion` do the same.
* HashMap and Records: NaN keys are never found; `deepEqual` takes a Date or a Map for equal to any object without keys; `delete` in a recipe leaves
  `undefined`; a draft kept after `produce` still writes. Lists: the array is not frozen, although list.ts:16 and 84 say so: who made a list of it, or got it from `$raw` or `toJSON()`, changes the list by writing to it.
* Schema: `intersection` of non-objects spreads them; parsing `Vec(Bytes)` throws, since typed arrays cannot be frozen.
* Ord: `equals` (from `compare`'s difference) is false of Infinity and itself, although "Extends Eq" suggests the two agree.
* Router: the first route through a parameter names it for all, so that `/:x/:x` makes `/:x/:y` lose its x.
* ErrType: a metadata field named `cause` is taken for the error's options. ADT: a payload's own `tag` overwrites the variant's.
* Crypto: `randomInt` says "without modulo bias" (crypto.ts:192), but ranges past 2^48 are read as bytes that a number cannot hold exactly, and NaN is answered Ok(NaN);
  `generateKey` never grants wrapKey and unwrapKey.
* OS and Process: "`loadavg()` returns `None` on Windows", where Node answers zeros; `uptime` on Deno is the machine's; a failure is `Some(0)` or `Some("deno")`.
  File: `exists` is false of directories; `tempDir` on Node is made in the working directory. FFI on Node is always an Err.
* Terminal: a read left behind by a timeout takes the next input, and on Node a question that timed out leaves the terminal raw; two passwords at once turn raw mode off for each other; on Deno `readLine` drops what follows the line in its chunk.
* Net on Node: a chunk with nobody waiting is lost, several receives get the same chunk, and a receive after close never settles.
* Subprocess: on Node a `wait()` after the close event never settles; on Deno a timeout with input does not kill the child.
* Server adapters: on Node a request body is refused for want of `duplex`, a body that breaks after the head leaves the response open, and an error of `listen` is unhandled;
  the streaming handler of Lambda drops status and headers.
* Config: "Collects all errors (does not short-circuit)" (config.ts:36) answers the first. Logger: a context key `level` or `message` overwrites the log's own.
* Release: the header says that an existing local tag aborts the release; a tag without a release is completed instead. A commit by hand that bumps package.json alone is released as it is: jsr.json then says
  another version than the tag.

## Theorems

For every number of callers, permits, consumers, capacities (of at least one), sends, resources, jobs, drains, requests, derivers,
signals, sources, handlers, keys and insertions, and for every tree of tasks, policy, threshold, calendar, cron expression, machine and host. The assumptions are the named ones
in the modules: finite sets of callers where cardinalities are counted, natural numbers for bounds, for the search a calendar whose units
are not empty and whose clock changes at full hours, forward before back, for the trees of tasks that each combinator has as many tasks as
it takes (`TaskAssumption`), for a host that what is required from it is there to be required (`PortsAssumption`), and for a pattern that no segment without a
parameter is a colon (`RouterAssumption`). Some theorems have a hypothesis of their own, said
below with them: the channel's (a capacity of at least one), `BoundedConcurrency`, `MachineHolds`, `KeysAlwaysServe` and `Composed` (scalars are named by strings).

Where a component has several properties in one run, the theorem is about their conjunction; what is listed is the theorem that names the
property of the run.

* **Semaphore.** `SemaphoreInv` is `SemaphoreTypeOK`, `Conservation`, `NoIdlePermit` and `LineMatches`. Conservation is not
  inductive by itself: when a release wakes the first waiter, the number of holders stays the same
  only if that waiter held nothing, and that the line holds exactly the suspended callers, each once, is
  `LineMatches`. From it: `PermitsExact` (the whole of `PermitsAreKept`), `PermitsConserved`, `NoLostWakeUp`, `BoundedConcurrency` (at most
  `Permits` run at a time if no Release is called twice) and `Implementation`: every step of
  the code is a step of `SemaphorePromise` or a stutter. `NoIdlePermit` is what makes acquire's fast path
  an `Enter` of an empty line.
* **Channel**, for a capacity of at least one. `ChannelInv` joins all safety invariants: `Fifo` (what was delivered,
  what is buffered and what is blocked are the first values sent, in this order) places every value,
  so that `AnswersAreTrue` becomes arithmetic on lengths (lemma `AnswersByPlace`); `NoStall` gives that a sender
  blocks only behind a full buffer, which is not empty because the capacity is at least one.
  From it: `Ordered`, `NeverStalled`, `HonestAnswers`, `EndOfStream`, and together the property of the run, `Moved`. `OneLine`: the channel
  implements `ChannelPromise`, whose line is the buffer and then what is blocked. A `next()` that takes from a full buffer and lets a blocked
  sender in only takes the head of that line; `close()` keeps what has room in it, since a sender blocks only behind a full buffer; and a value is handed over directly
  only when the line is empty, which is `NoStall`.
* **Pool.** `PoolIInv` adds to the properties of the run that the line names only callers that wait, each once (`LineIsTrue`), that a caller's flag
  says whether it holds (`FlagsAreTrue`), that sequences repeat nothing (`EachOnce`), and `Partition`: the resources that are idle, with a caller (validated or held),
  taken by a drain, being destroyed and destroyed are different ones, and together all that were created. That a hand-over keeps `activeCount` right rests on the line naming
  only callers that hold nothing. From it: `ResourcesExact` and `DrainedStaysEmpty`. `SerialSize` needs `Fits` besides: until
  two acquires overlap, at most one is under way, and what it has not counted yet is all that is missing from the count. `Lending`: the pool implements
  `PoolPromise`, in which a caller that validates, creates or gives back shows nothing until it holds or has given up; that a hand-over, an idle timer or a drain
  touches only what nobody else has is `Partition`.
* **Queue.** `SlotInv` says that the slots counted as used are those of the jobs that have started and not settled (`SlotsAreTaken`), that the
  line holds the pending jobs, each once (`InLine`), that a handler on the call stack is that of a started job of its own
  (`Handlers`), and that whenever a job waits beside a free slot some `dequeue` is on the stack and has yet to look (`Looking`): the part
  that makes it inductive while handlers and `onError` call the queue from inside its own loop. From it: `SlotsExact` and `DrainMeansIdle`.
  `LineKept` is about the binary search of `insertSorted`: as long as the line is sorted, each half that the search leaves out is on the right
  side of the new job. That holds of every state of the search by the least number of which it would fail (`LeastNumber`, below).
* **Task.** `TaskInv` says how each execution stands (`Stands`): what it has begun by the phase it is in (`Begun`), that the executions of a memoize() begin
  one other between them, the one that `memo` names (`Memoizes`), that each wait of a retry is for an attempt that failed (`Tries`), and what may be left
  running (`Leaves`); and that an execution and the one that began it know each other (`Family`), by which no two of a memoize()'s executions have begun
  the same one. A step changes one execution and appends those that it begins (`Turns`), and whatever has settled stays (`Keeps`), so that all others stand as
  they did (`StandsKept`) and each action is shown for the one that takes it. Waits do not shrink because powers of two grow (`PowersAre`, by the number
  of subsets). From it: `AttemptsStayOrdered`.
* **CircuitBreaker** (`TaskProofs`). `BreakerIInv` adds a lower bound of the age of an open breaker, by how often the clock was set back, that the counter of failures is
  the length of the run of failures at the end of the results (`Trails`), and a bound of the list of results, so that cutting it does not
  reach what is counted. From it: `CountsExact`. `LateResultsAreIgnored` needs no invariant: the guards give it.
* **Stream** (`ChannelProofs`). `PushInv` follows the items from the queue or the debounce timer to the answers: no two are held in the wrong
  order (`InOrder`, a relation between items and not between places, so that it survives that an item goes from one sequence to another), each
  item given is held or was followed by one that is (`HoldsAll`: the later one may itself be left out, and its own successor is then the
  witness), and the end is told last (`EndIsEnd`). From it: `NothingLost`.
* **StableVec.** `StableIInv` says that data and slots point at each other, that free slots are empty and free once, and that a removed handle is of an
  earlier generation than its slot. `remove()` moves the last element to the freed place, and only both directions of the pointers together survive
  that. From it: `HandlesFindTheirOwn`. `WalkIInv` says that a loop has seen nothing of what is ahead of it, and all that is behind it unless
  something was removed: the element that `remove()` moves goes back, never ahead. From both: `NoneSeenTwice`, and with the type `VecHolds`, the whole of
  `HandlesAreTrue`.
* **Service.** `ServiceInv` adds `WhyAndHow` (only a first signal starts the timer or makes the server close, each way out
  has its code, nobody is connected during the import) and `DeriverLeft`. `GracefulExit` needs
  the last part of the former: an abort during the import settles the effect without looking at
  connections. From it: `NobodyLeft`, `HonestExit`, and `Ended`, which states the run's `EndsAreTold`.
* **Server adapters** (`ServiceProofs`). `ServerInv` ties what an exchange has written to the step its handler has reached (`Proceeded`) and to the
  listener: one that is off or failed has no exchanges, and `serve` has returned only when the server is closed. From it: `WholeAnswers`.
* **Subprocess** (`ServiceProofs`). `SubprocessInv` says that a call that answered ok saw the child close and heard everything written that was
  not dropped, that chunks are dropped on Node only, and that an `exec` on Node has a reader from the start. From it: `ToldTrue`.
* **StateMachine** (`ServiceProofs`). A passage runs up to three hooks, and a guard or hook that throws leaves the caller where it was (`Breaks`). `InPlace` says of each hook that has run what came
  before it, and `MachineIInv` that the last one is the entry of the state the caller is in, if that has one. From it: `Balanced`, for every machine and event. `MachineHolds` states
  `MachineIsTrue`, which also says that the table, the guards and what throws decide, and nothing else; its hypothesis is that no name in use is one that every object
  inherits, for which the code finds a function where the table has no entry.
* **Ports** (`ServiceProofs`). A port keeps the adapter that it got when it was first asked for. `PortsIInv` says which one that can be on each host (`OsOf`, `PortOf`) and that the
  module that os needs is there or not, for good; then each method of each adapter is gone through (`DenoOsIs`, `NodeOsIs`, `OsAnswers`, `ProcessAnswers`, `FileAnswers`, ...). From it: `NothingThrows`,
  on every host. The attempt showed that two definitions chose between cases that overlapped; their cases are now exclusive.
* **Crypto** (`ServiceProofs`). `CryptoIInv` says with which key each thing was made (`MadeBy`), and that both halves of a pair stay there with the usages they were generated with, whatever is imported with fewer.
  From it: `KeysAlwaysServe`, for any number of keys and things; its hypotheses are that families are those of the code and that no text is the one that stands for garbled data.
* **Nominal** (`ServiceProofs`). `NominalIInv`: what a composer with a cache has answered is in its cache, which has one type for what it is looked up by. From it: `Composed`.
* **Lists** (`ServiceProofs`). `ListIInv`: what a list wraps is as it was when the list was made, unless the array is one of `wrote`. It is shown operation by operation: each makes a new array or none, and only
  `CallerWrites` changes one that is there. From it: `ListsAreKept`, with no hypothesis: whoever holds the array of a list, the list is as it was until that array is written to.
* **Router** (`ServiceProofs`). `RouterIInv` says of the trie that each node is what the routes say of it (`TrieIs`, `NodeIs`): the nodes are those that segments of a
  route lead to, a parameter has the name that some route gives it, and the handlers are one for each method of the routes that end there. A walk can be led
  astray, since it never comes back; that it ends at the node of a route is shown to say just what `Shadowed` denies: the first segment at which they part, or the first that
  one has and the other has not, is another route's (`OpenIsEnd`). From it: `RouterServed`, for any routes, paths and methods. The attempt showed
  that places of parameters need more than that the matched route names each once: where `/:x/:x` and `/:x/:y` share their nodes, the last value is all that either gets (`NamesTwice`).
* **EventEmitter.** `EmitterIInv` adds to `OnceFiresOnce` that a wrapper is in one Set at most (`OneHome`) and, once it has called, not in
  the event's (`CalledIsGone`): what calls it again is then a walk of another Set, and it stays in that one. From it:
  `WrapperCallsOnce`. `AllMeet` says that a walk does not stand beyond the end of its Set and that whoever it owes a call and is in the Set is ahead; a
  deletion leaves the others in their places and a registration comes last (`Kept`). From both: `NobodyPassedOver`.
* **Cron, the runner.** `CronIInv` says that minutes ahead have not been looked at, and that the remembered number is the one of the present minute if
  that has been fired in. From it: `MinuteRunsOnce`, for every calendar, although the numbers of two minutes may be equal.
* **RateLimiter.** `InStep`: `lastRefill` is a whole number of intervals after the moment the bucket was full, so that an interval ends for the
  one bucket when it ends for the other. Lemmas on quotients and remainders (`Split...`) carry the arithmetic, for every interval. From it:
  `RefilledOnTime`.
* **Cache.** `CacheIInv` says that the Map has the order of the uses: `InOrder` of each pair of entries, whose keys are used once each in
  `uses`. `set` on a key that is there keeps both places; a read moves the key to the end of both; a task that settles late stores as `set` does, whatever the
  cache holds by then. From it, and from what `Evicted` leaves (`EvictedIs`): `OldestLeaves`, an action property.
* **Cron, the search.** `SearchIInv` says that start comes after `after` with nothing between that is looked at (unless `after` is in a repeated hour), and that no minute
  between start and current fits, in local time: `skipMonth`, `skipDay` and `skipHour` go from one
  multiple of a unit to the next, or to midnight of the day that has led to, and within a unit the quotient is the same (`DivideAlike`), so that what the field refuses it refuses until there. The
  hour that the clock leaves out is never landed in, and `Clocks` relates instants and local times on both sides of both changes. From
  it: `FirstIsFound`, for every expression, date and lengths of the units, of the minutes after the date that was given; `LostDay` is the exception that the two moves of a skip make necessary.
* **Release.** `ReleaseIInv` says of the repositories that the manifests of every commit agree unless a commit by hand has put the version into package.json alone (`ManifestsAgree`), that a tag names a commit of its
  version and that a pushed tag is the clone's and on main; and of a run what it has done by its step: the manifests (`Versioned`), the tags (`Tagged`: until it
  tags, a tag of its version is one that it has seen) and main (`MainPushed`). A run that fails leaves the first part, which is all that the next
  relies on. A dry run stages nothing, so it pushes nothing. From it: `ReleaseKeepsItsWord`, both parts of `ReleaseHolds`, for any number of versions,
  commits and runs and for any versions committed by hand. What it cannot promise is that jsr.json agrees where a commit by hand has put the version into package.json only (`HalfBumped`): the script never looks.
* **Net.** `NetIInv` says that the chunks that wait are the last ones in their order (`ChunksInLine`) and, of Deno, that a chunk waits only while no call does and that as many calls
  were told of one as were read (`DenoIsExact`): a call that is told next is told a later chunk than all before it. From it: `Received`, on both runtimes; on Node several calls may be told the same chunk, which
  the property allows there.

## What is only model-checked

Liveness (`WaiterRuns`, `ChannelSettles`, `DrainCompletes`, `DrainResolves`, `BreakerRecovers`, `ServiceEnds`, `EveryCallSettles`) and the fairness
half of `KeepsPromise`: TLAPS does not reason about ENABLED.

Induction over data: the theorems of the library that state it take an operator as a parameter. Where a proof needs it for a recursive function,
the least number at which a statement fails takes its place (lemma `LeastNumber`, from the library's well-foundedness of finite sets
under inclusion): that is how the binary search of `Queue`, `Filtered` of `Cache` and the first error of `Task` are reasoned about. What is recursive over trees or is a
RECURSIVE operator (in `HashMap`, `Schema`, `Optics`, `Records`, `Effects`, `Core`, `Terminal`) stays with TLC, since modules with RECURSIVE operators have
no SMT backend; so do `LawsHold`, `DataIsFaithful`, `PipelineIsComposition` and `RuntimeAnswers`, most of whose parts compare
the code with reference definitions over bounded inputs. Of these, what ports answer (`NothingThrows`), what keys open (`KeysAlwaysServe`), that types are composed once (`Composed`) and
that lists keep what they hold (`ListsAreKept`) is proved, and the types of the utilities' states are parts of their invariants. What `FoldLeft` or `SelectSeq` compute (sorting, `uniqBy`, a
pipeline) would need induction over the sequence.

## What is not modelled

`PROJECT.json` lists every component with its reason. The HTTP client and the WebSocket router convert one answer or look up one list; the logger
merges fields and writes a line; config runs a schema on an object; JSON, URL and clone wrap one function of the host; the other scripts are tooling.
In the modelled components: response helpers and the builder's immutable configuration of the server, streaming on Lambda, the parts of types that only the compiler sees,
formatting and inspection strings, the bytes of files, of compressed data and of base64.

## Plan

Done, in this order: Semaphore with its abstract specification and proofs, Channel with proofs, Pool, Queue,
CircuitBreaker, Program composed with Server into Service, proofs of Service, the four utilities with proofs of two; then tasks, streams,
subprocesses and adapters; data structures, algebraic types, schemas and programs; router, input, ports, and the release script; then proofs of
Pool, CircuitBreaker, StableVec, RateLimiter and the rest of EventEmitter; then of Queue, Stream, Server adapters, Subprocess, Cache, the search of Cron, Task, the walk of StableVec and Release; then the abstract
specifications of Channel and Pool with their refinement, and proofs of Machine, Net, Ports, keys, composed types, lists and the router.

What is left, in the order of what it would add:

1. The streaming handler of Lambda, the HTTP client's conversion of failures, and the logger's sinks.
2. Abstract specifications of the queue (a set of slots in front of a line by priority) and of `merge()`.
