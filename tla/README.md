# Verification of next-loggers

This directory specifies the next-loggers TypeScript package (`src/*.ts` of the
repository) and its lint rules (`.ores-lint`) in TLA+. The modules are translated
from the source; TLC checks them on small instances, and TLAPS proves the main
safety properties of some of them for every value of their constants. Paths below
are relative to the root of the repository.

Most of the code is hard for one reason: it is single-threaded JavaScript, so what
can go wrong is never two threads but what happens *between two awaits*. The modules
about delivery and shutdown therefore take one action to be one turn of the event
loop, i.e. everything the code does from one resumption to its next `await`, timer,
callback or return, and interleave those turns freely. The rest is hard for another:
what a record, an option or a name means depends on a long sequence of legal calls.
Those modules let an application make the calls in any order, and compare what the
code computes with what the calls meant.

## 1. Inventory

### Components with concurrent state

| Component | Source | State | Operations | Talks to |
|---|---|---|---|---|
| Supabase ingest transport | `src/supabase-ingest.ts` | cursor queue, `flushPromise`, interval and retry timers, `accepting`, `closePromise`, one batch per outstanding request | `write`, `flush`, `drain`, `flushOnExit`, `close`, two timer callbacks | the logger core calls it; `fetch`, `accessToken`, page events |
| Browser stream transport | `src/browser-stream.ts` | bounded queue, flush timer, flush loop, socket and connect attempt, `closed` | `write`, `flush`, `flushOnExit`, `connect`, socket callbacks, `close` | an inner transport or a WebSocket, `sendBeacon`, page events |
| Shutdown coordinator | `src/shutdown.ts` | phase, attempt, grace timer, observer tasks, `finished` | `request`, the timer, the continuations of drain, force, observers and flush | the application's hooks |
| Node HTTP shutdown | `src/node-shutdown.ts` | servers, signal and stdin listeners | signals, stdin end, `request`, `dispose` | the coordinator; `node:http` servers |
| Server lifecycle controller | `src/server-lifecycle.ts` | its own phase, graceful and forced sequences, shared flush, deadline, listeners | signals, stdin end, `requestGraceful`, `force`, `dispose` | hooks, servers, flush |
| Logger core | `src/base-logger.ts` | `unsentEvents`, `pending`, `activeRecords` | `createEvent`, `send`, `flush`, `flushOnExit`, `close` | every transport |
| Supabase Realtime transport | `src/base-logger.ts` | socket, join state, reconnect queue | `write`, socket callbacks | Phoenix channel |
| HTTP and error-tracking transports | `src/base-logger.ts` | dedupe set of hashes, the endpoint of each write | `write`, `setErrorTracking` | `fetch`, two endpoints |
| Loki transport | `src/loki.ts` | queue, flush promise, timers | `write`, `flush`, `flushOnExit`, `close` | `fetch` |
| Node logger lifecycle | `src/node-logger.ts` | registered loggers, `lifecycleHandlersInstalled`, `shutdownInProgress`, `beforeExit` drain | register, unregister, signal, `beforeExit`, `close` | the logger core; every other listener for the signals |
| Log and execution context | `src/context*.ts`, `src/execution-context*.ts` | async-local or single frame, providers | `run`, merge, update, capture, install and remove a provider | the logger core |
| Worker and WebAssembly hosts | `src/cloudflare-worker-logger.ts`, `src/edge-logger.ts`, `src/wasm-logger.ts` | bindings of a logger, promises under way | `forRequest`, `forScheduled`, `emitEvent`; `emit_*`, `flush` | `waitUntil` of an invocation; a WebAssembly module |
| Browser, Bun and Deno loggers | `src/browser-logger.ts`, `src/bun-logger.ts`, `src/deno-logger.ts` | registered loggers, installed handlers, removers | register, install, remove, unload, signals | page or process events |
| OpenTelemetry bridge | `src/otel.ts` | the span around some work; one write | `withOpenTelemetrySpan`, `write` | tracer, span and log provider of the application |
| Prometheus metrics | `src/prometheus.ts` | series of each metric, names of a registry | instrumented `write`, `register` | the transport it wraps |

### Components whose hazard is a sequence of calls

| Component | Source | State | Operations |
|---|---|---|---|
| Records and settings | `src/base-logger.ts`, `src/execution-context-shared.ts` | options objects of loggers, an event's fields and traces | `anew`, setters that write through, `addTrace`, `enrichEvent`, `toJSON` |
| Serialization | `src/base-logger.ts` | the objects a value is inside of | one recursive walk |
| Lint rules | `src/eslint-plugin.ts`, `.ores-lint/eslint/plugin.mjs` | known loggers and factories, pending events by function | one visitor per kind of node |
| Scanner for Rust, Dart and Gleam | `.ores-lint/require-send.mjs` | pending events by block | one pass over the tokens |
| Command line and configuration | `src/cli/*.ts`, `src/config.ts` | the parser's result, the environment | `parseArgv`, `applyDefaults`, `main`, `loadNextLoggerConfig` |

The SDKs in other languages, contracts, examples, dashboards and scripts are listed in
`PROJECT.json` with the reason why they are not modelled.

### Where the code is hard, and what makes each component correct

* **Supabase ingest.** One queue is emptied by several loops at once: the shared
  flush loop and one loop for every `flushOnExit()` or `close()` caller. A failed
  request puts its batch back in front of whatever the others left. Correct means
  that a record is always in exactly one place (waiting, in one request,
  acknowledged, reported as dropped); that restored batches keep their order and
  their bound; that no record waits without a timer or a loop that will find it;
  that callers who wait are released.
* **Browser stream.** The loop peeks a batch, awaits the send, and then removes as
  many records as it peeked, from a queue that `write()` and page exits changed
  meanwhile. Sockets may open, wedge and close at any time, and `onclose` of
  *any* socket forgets the current one. Correct means the same accounting, order,
  wakeups, and that no connection attempt stalls the loop.
* **Supabase Realtime.** A socket object outlives its turn as the current one,
  and every handler writes the transport's one set of fields. A write waits for an
  attempt that may hang, be refused, or succeed on behalf of others, and what it
  could not send must be found again by a timer, a reply or a flush. Correct means
  the same accounting and wakeups, one live channel, and every message addressed to
  the channel it goes out on.
* **Logger core and Node lifecycle.** Every drain works on snapshots (of unsent events,
  of pending writes, of active records) taken at different moments, while events keep
  coming and other drains run; transports may hang. Several loggers share one set of
  process listeners, which drain them and raise the signal again. Correct means that a
  flush covers what it was called for, that a process ends only after a drain, and always
  ends after a signal.
* **Loki.** One flush at a time, each with its retries, the next one started from
  the `finally` of the last, beside timers, full batches, `flushOnExit()` callers and
  `close()`. Correct means batches in order, every `write()`'s promise settled, and a
  `close()` that resolves only when nothing is left.
* **Shutdown coordinator.** A drain that resolves, rejects, throws or hangs, a
  second request, a grace timer and re-entrant observers all try to leave the
  draining phase; two of the hooks end in the same `#finish`. Correct means each
  hook once and in order, flush last, timer armed exactly while draining, and
  `wait()` resolved unless one of the hooks that nothing bounds holds it.
* **Node HTTP shutdown.** The coordinator's hooks act on servers whose
  connections come and go; a server may not be listening at all. Correct means
  that a drain cuts nobody, that the forced phase leaves no connection and cannot
  be joined by a late one, and that one event never forces.
* **Contexts.** Without async tracking one variable stands for the frame of whatever
  runs; callbacks suspend, resume, nest and end in any order. A context is merged in two
  ways and keeps its span twice. Correct means that code sees the frame of the call it is
  in, and that the two halves agree.
* **Records.** Event, enrichment and ambient context are merged when the record is made,
  which may be elsewhere; options objects are copied by `anew()` and written to by setters.
  Correct means that no trace is lost, and that a setting reaches those it was meant for.
* **Serialization.** Redaction, limits, cycles, shared references and throwing getters meet in
  one walk. Correct means that what is shown is exactly what the logged object leads to
  without passing a redacted key.
* **Error tracking.** Overlapping writes share a set that evicts and forgets. Correct means
  that a record is skipped only for one that was or is being posted.
* **Bridges and metrics.** Every foreign call may throw, at any moment. Correct means that
  work runs once and keeps its result, that a failure stays where it is, that the
  gauge of writes in flight and the histogram of durations are exact also beyond the limit
  on series.
* **Hosts.** Handlers of the page or process are shared by loggers that come and go; an
  isolate stops when nothing is waited for. Correct means handlers exactly while a logger
  is registered, and promises handed to the invocation that logs.
* **Tools.** A lint rule follows events through names; a parser looks one argument ahead.
  Correct means that exactly the unsent events are reported, and that arguments are read
  as they are meant, whatever their spelling.
* **Server lifecycle.** `force()` may overtake the graceful sequence at any of
  its four awaits, with one flush between them. Correct means that the overtaken
  sequence starts nothing, that hooks run once, that `closed` is said only of a
  graceful end, and that everything is bounded by a deadline.

The hazards, each at its line and with the properties aimed at it, are in
`PROJECT.json`.

## 2. Modules

    DeliveryLedger          what a buffering transport promises (abstract)
      <- SupabaseIngest     refines it              MCSupabaseIngest
      <- LokiTransport      refines it              MCLokiTransport
      <- SupabaseRealtime   refines it              MCSupabaseRealtime
    BrowserStream           MCBrowserStream
    TwoPhaseShutdown        what a two-phase shutdown promises (abstract)
      <- ShutdownCoordinator  refines it
         <- NodeHttpShutdown  EXTENDS it: servers, signals
      <- ServerLifecycle      refines it            MCShutdown (all of them)
    LoggerDelivery          events, flush, flushOnExit and close of one logger
      <- NodeLogger         LoggerDelivery (INSTANCE L) + the process's listeners
                                                    MCNodeLogger
         <- NodeProcess     NodeLogger + ServerLifecycle, one process
                                                    MCNodeProcess
    LogContext, LogRecords, WorkerLoggers, WasmHost, ErrorTracking,
      OtelSpan, HostLoggers, OtelTransport, InstrumentedTransport,
      PrometheusRegistry                            MCLogging
    Serialization, RequireSend, SendScanner,
      CommandLine                                   MCTools
    SupabaseIngest_proofs, LokiTransport_proofs, SupabaseRealtime_proofs,
      BrowserStream_proofs, ServerLifecycle_proofs, NodeHttpShutdown_proofs
      (also of ShutdownCoordinator), NodeLogger_proofs (also of LoggerDelivery),
      MCLogging_proofs (of all its modules)         theorems (TLAPS)

`NodeHttpShutdown` does not repeat the coordinator: it extends it and
conjoins each of its actions with what the hooks that the action calls do to the
servers. That the composition never drives the coordinator outside its own
specification follows from this form (the lemma `Composition`), so that what is proved
of the coordinator holds of the composition.

`MCLogging`, `MCTools` and `MCShutdown` compose modules that share no state. A variable
`part` says which of them a behaviour is about, and the others keep their initial state;
so one run checks each of them as it would alone, and a property of the run is the
conjunction of what the modules claim. `MCLogging` has the parts of the library that follow a
logging call to its delivery, which are written so that they can be proved about; `MCShutdown` has the shutdown machines, where the
coordinator is once alone, with any hooks, and once under `NodeHttpShutdown`, and is checked
for the same properties in both places (beside it alone all servers are closed from the
start, which makes what is said of servers trivial there); `MCTools` has serialization, a recursive operator, and the repository's tools, which compute from a program
or a command line.

Conventions shared by the modules:

* Records are numbers, in the order of the calls of `write()`. What they contain is
  left out; where size matters (`SupabaseIngest`) it is the constant `Bytes`.
* A promise continuation that is due is a value of a program counter (`"resumed"`,
  `"drained"`, `"connected"`, ...) or a set (`granted`, `denied`), and timers, socket
  events and fetches wait until there is none (`Quiet`), because JavaScript runs all
  microtasks before the next task. Calls made by the application are not so
  restricted, since they may come from a microtask.
* Variables commented *history* do not exist in the code; they record what the
  properties talk about. They guard no action of the code.
* A definition commented *a slip* is not part of the specification: it is a
  plausible mistake in the definition that follows it, and the properties are checked
  to fail when it takes that definition's place.

### How the state and the actions correspond to the code

The exact lines of every definition are in `PROJECT.json` under `map`.

**SupabaseIngest** (`src/supabase-ingest.ts`). `queue` is the `CursorQueue`, `Flushing`
is `flushPromise !== null`, `interval` and `retry` are the two timers, and `pc[l]` and
`batch[l]` are where each loop is and what its outstanding request carries: loop
`"flush"` is `drain()`, loop `"close"` is the `flushOnExit()` inside `performClose()`,
and each member of `Exits` is another caller of `flushOnExit()`. `Write`/`WriteRefused`
are `write()` with `enqueue()` and what it triggers; `DrainDelivers`/`DrainFails`
are `post()` settling under `drain()`, `FlushResolves`/`FlushRejects` the continuation
and `finally` of `flush()`; `Exit*` the turns of `flushOnExit()`; `CloseCall` is `close()`.

**LokiTransport** (`src/loki.ts`). `stage` is where the one flush is, `pc` where each
caller of `flushOnExit()` is. `FlushEnds` is the `finally` that starts the next batch
before it lets the callers continue. How a `write()`'s promise ended is in `delivered`,
`failed` and `evicted`.

**SupabaseRealtime** (`src/base-logger.ts` 737-1024). `sockets` are the socket objects
that still have an `onclose` to run; `socket` is `this.socket`; `attempt` is the socket
whose `connectPromise` is pending (0: it is null). `Connect` is `connect()`, which
`Write`, `FlushCall` and `TimerFires` call; `Finish` settles an attempt, so that
`WriteResumes`, `FlushResumes` and the timer's `catch` follow. `OkReply` is the branch of
`onmessage` shared by the reply to a join and the acknowledgement of a broadcast.

**BrowserStream** (`src/browser-stream.ts`). `loop` is where `flush()`'s loop is, `batch`
what it peeked, `done` how many of them the inner transport took; `socket`, `connecting`
and `sockets` as above, except that `connecting` is `Rejected` when `connectPromise` is the
rejection of a factory that threw (`FactoryThrows`), which stays; `PageHides` is `flushOnExit()` with its beacon. `overtaken`
records that the head of the queue moved while a batch was on its way.

**ShutdownCoordinator** (`src/shutdown.ts`). `phase`, `attempt`, `forced`, `timer` and
`finished` are the private fields; `drain`, `force` and `flush` say how far each hook is,
`observers` which observer tasks are pending, `calls` the order the hooks were called in.
`Request` is one call of `request()`, with all that runs synchronously in it.

**NodeHttpShutdown** (`src/node-shutdown.ts`). Adds the servers (`listening`, `open`
connections, `callbacks` of `close()`), and the signal and stdin listeners. The
behaviour of `node:http` is external and modelled as its use there requires.

**ServerLifecycle** (`src/server-lifecycle.ts`). `graceful` and `forcing` are how far the
two sequences are, `flush` the shared promise, `timeout` the graceful deadline, `signals`,
`eofArmed` and `eofListening` the listeners; `BeforeEnds`, `ServersClosed`,
`GracefulFlushed` and `AfterEnds` are the graceful sequence's four resumptions, each of
which looks at the phase again, `ForceHookOver` and `ForceFlushOver` the forced one's.

**LogContext** (`src/context-shared.ts`, `src/execution-context-shared.ts`). `tracked` tells
the async-local storage from the single variable `current`; `frames[t]` is the object that
the t-th `run()` made, `previous[t]` what it saved, `stack` the callbacks that execute now.
`Return` and `Settle`/`Finally` are the two ways out of `run()`, the second a turn later.
The four ways into a frame are `Run*`, the updates of one `Rewrite`s.

**LogRecords** (`src/base-logger.ts` 1026-1460). `optionsOf[l]` is the options object of
logger `l`: `New` may share it, `Anew` copies it, `WriteThrough` writes to it. `RecordOf` is
`toJSON()`, `Enrich` is `enrichEvent` with an explicit or the ambient context.

**Serialization** (`src/base-logger.ts` 329-506). `Serialize` is `serialize()` with
`serializeError()`, a recursive operator over the graph in `kind` and `entries`, `Thrown`
standing for an exception on its way out, `Guarded` for the `try` around a property, and
`Unguarded` for what is read outside it: the name of an Error, the class of an object. Every
graph within the bounds is a state. What it shows is compared with `Reach`, a plain walk of the graph.

**WorkerLoggers** (`src/cloudflare-worker-logger.ts`, `src/edge-logger.ts`). A logger is
the record of its bindings; `Emit` is `emitEvent` with its `waitUntil`. `Begin`, `Respond`,
`End` and `Stop` are the runtime (external). **WasmHost** (`src/wasm-logger.ts`): `pending` is
the host's set; `Cleanup` is the reaction that empties it, a turn after `Settle`.

**RequireSend** (`src/eslint-plugin.ts`, `.ores-lint/eslint/plugin.mjs`). Each action is a
statement of the linted program, as both rules visit it (`known*`, `scopes`, `reports`) and as
it would run (`holds`, `built`).

**SendScanner** (`.ores-lint/require-send.mjs`). `Statement` is a statement of the scanned
function: an expression `e` in a `place`, which stands for the tokens around it. `scopeStack`
and `findings` are the scanner's, `variables` and `chains` what the function really does.

**CommandLine** (`src/cli/argv.ts`, `src/cli/main.ts`, `src/config.ts`). `Write*` are the
user, who means something (`meant`) by each argument; `Read*` are the rounds of
`parseArgv`'s loop, one argument behind, `Main` the rest.

**ErrorTracking** (`src/base-logger.ts` 577-716). `endpoint[r]` is where `post` is for record
`r`; `AttemptFails` goes on to the fallback, or takes the hash out again.

**InstrumentedTransport** (`src/prometheus.ts` 108-385, 675-760). `labelText` and `values` are
those of three metrics; `Update` is `inc`, `dec` and `observe` with `labels()`, whose result is
`Key`; `clock` is what `now()` will have said at the end of each write.
**PrometheusRegistry** (387-600): `Register` is `register()`, `RegisterList` the functions
that register several.

**OtelSpan** (`src/otel.ts` 850-990). `at` is where `withOpenTelemetrySpan` is; each logged
record and each call of the span is a turn that may fail. **OtelTransport** (592-714): `pc`
is where `write()` is, one action per foreign call; `Add` is the bounded `set`.

**HostLoggers** (`src/browser-logger.ts`, `src/bun-logger.ts`, `src/deno-logger.ts`).
`handlers` is what listens at the host, `globals` which installations of error handlers
are there, `remover` the logger's `removeGlobalHandlers`. `Signal` and `Raise` are
`handleBunSignal` before and after its await.

**LoggerDelivery** (`src/base-logger.ts` 231-249, 1466-1473, 1514-1597). `unsent` is
`unsentEvents`; `pending` holds the writes under way, event by transport, so that an event
is in the code's `pending` and `activeRecords` while one of its writes is. `stage[c]` is
where the `flush()` of call `c` is, `exiting[c]` the `flushOnExit` promises it waits for,
`timed[c]` its `waitWithTimeout` timer; what a timeout leaves behind goes on. `FlushCall` and
`ExitCall` are the calls up to their first await, `ExitCall` with all it sends.

**NodeLogger** (`src/node-logger.ts` 41-108, 113-126, 152-165, 200-207). One logger with
transports, `"own"`, and the one that the module creates for itself, `"default"` (214).
`installed`, `onBeforeExit`, `shutdown` and `beforeExitDrain` are the module's variables
and listeners. `Signal`, `Reraise` are `handleSignal` before and after its await,
`BeforeExit`, `BeforeExitOver` the same of `handleBeforeExit`; `LoopEnds` and `Unheard` are
Node's own ways to end. **NodeProcess** lets the server lifecycle controller listen too.

## 3. What the runs check

| Run | Bounds | Question |
|---|---|---|
| `ingest` | 6 records (one refused), batches of 2, queue of 2, one exit caller and `close()`, with and without `awaitDelivery` | accounting (`OnePlace`), order and bound of the queue (`QueueKept`) when several loops share it; lost wakeups and stranded callers (`NobodyWaitsForEver`); `DeliveryLedger` |
| `loki_batches` | 6 records, batches of 2, queue of 2, 1 retry, two exit callers, `close()` | order, promises, wakeups; `DeliveryLedger` |
| `realtime_channel` | 4 records, 2 socket objects at once, queue of 2 | accounting, one channel and its wakeups, eventual sending; `DeliveryLedger` |
| `stream` | 4 records, 3 socket objects, batches of 2, queue of 3, an inner transport or sockets, page exits, `close()` | accounting and order, also of partial batches; wakeups; attempts that end; a factory that throws |
| `stream_trim_violation` | 4 records, queue of 2 | records drained unsent |
| `factory_throws_violation` | 2 records, 2 socket objects, everything tried for ever succeeds in the end | a factory that threw once is never called again |
| `shutdown` | coordinator alone: 4 requests, a drain and a force hook that may throw, a re-entrant observer; under Node servers: 3 requests, 2 servers (one maybe not listening), 2 connections that may never end; lifecycle controller: 2 servers, all events, hooks that hang, `dispose()` | hooks, timer, completion or the hook that holds it; who is cut, and when, and that nothing listens and no connection is open in the end (`Emptied`); deadlines and results; `TwoPhaseShutdown` of both |
| `hung_hook_violation` | 2 requests, hooks that may hang | `wait()` held for ever |
| `node_logger` | 2 events, 1 transport, a call beside the drain for a signal | what a flush covers, a process that ends drained, a signal that ends it |
| `logging` | 3 nested or overlapping `run()`s and 1 update; 3 providers; 3 loggers and 4 calls; 2 invocations and 2 records; 3 payloads and 2 flushes; 4 records of 3 hashes with room for 2, replaced once; any set of failing calls of a span; 2 loggers, 2 installations, 2 signals; 1 failing call of a bridge, 4 attributes; 3 writes of 3 names with 2 series, 2 buckets and a clock that may be set back or throw; 7 lists of metrics | contexts, settings, records, worker and WebAssembly hosts, error tracking, spans, handlers of the other runtimes, bridge, metrics |
| `tools` | graphs of 2 objects and a leaf with 3 entries each, 4 in all, over four keys (`constructor`, `name`, `cause` and another; two redacted); programs of 4 statements over 3 names; functions of 4 statements and blocks over 2 names, in 3 languages; command lines of 3 arguments | serialization, lint rules and scanner, command line |
| `double_signal_violation` | 1 server, 2 signals | one signal that forces |

All of them let the deadlock check go, because each system really stops: when all records are
written and settled, or when the shutdown is over, nothing is left to happen.

Why the bounds are enough. The transports move records as prefixes of the queue, whole
batches, or singly, and compare only lengths with limits, so what matters is that a queue
can overflow, be restored beyond its limit, and still hold more than a batch: two batches
of two and a queue of two or three, with four to six writes, do all of it. `Bytes`
in `ingest` has a record that does not fit an exit batch with another, and one that
is refused; five accepted records are one more than the bound of `QueueKept` without
overlapping requests. Two loops beside the flush loop suffice for any pair of loops to interleave,
since a loop touches only the shared queue and its own batch; the theorems of section 5
cover any number. Two socket objects are a current one and one that was superseded. The
coordinator has four decision points and four requests reach every order of them. In
`node_logger` two events are one that a snapshot has and one that comes too late, and a
second call can be any of `flush()`, `close()` and the drain of an empty loop, at any moment
of the drain for a signal. Its one transport loses nothing: the code treats the members of
`transports` alike and waits for all of them.

Three `run()` calls are a nest, an overlap, or both, which is all that a variable saved
and restored can tell apart; three providers are the fewest whose removal out of order
differs from a swap. Two objects, a leaf and four entries have a shared value, a cycle of
each length, a redacted key on one of two paths, and a getter that throws beside a
sibling, under and over each kind of object; `constructor` and `name` are the keys that are
read also outside the guard, `cause` the one of an Error that is not redacted, and one more key
stands for all others. Three loggers are a parent, a child and a
sibling. Four records of three hashes fill and evict a set of two while other writes are
under way, in two successive transports. Four statements suffice for a function, a name
bound in it, a use and a return, or for a block, a name that shadows another, and the use
of one of them; three arguments for a flag, its value and a command, or
a bundle between two others. The modules treat further items like these.

## 4. Fairness, and why the code justifies it

No specification requires a *caller* to act: writes, flushes, signals, page exits,
`close()` and connections that end are never fair. What is fair is what the runtime does
by itself.

* *Timers and promise continuations* are weakly fair everywhere: the event loop runs them.
* *SupabaseIngest, Fairness*: a request settles because `post()` aborts the fetch after
  `timeoutMillis`. The application's `accessToken` callback is awaited before that timer
  starts (493), so that it answers is an assumption on the application.
  `RecoveringSpec` adds that the endpoint does not fail for ever (strong fairness of
  `DrainDelivers`); `ingest` uses it.
* *LokiTransport, FairSpec*: an attempt ends because of the same kind of timeout.
  No attempt need ever succeed: `EverySettles` holds of an endpoint that always fails.
* *SupabaseRealtime, RecoveringSpec*: the connect timeout fires; a socket that is closing
  closes, and a server drops a socket that gets no heartbeat; of ever more attempts some
  create, open and join (strong fairness).
* *BrowserStream, FairSpec* has the flush timer, continuations (of the loop and of `close()`) and the
  connect timeout; sockets owe nothing.
  `RecoveringSpec` adds an inner transport that settles and does not reject a record for ever.
  `PersistentSpec`, for `factory_throws_violation` only, adds instead that the factory, opening
  and sending succeed if they are tried for ever: the strongest an environment can be, and still
  no record is sent.
* *ShutdownCoordinator, Fairness*: the grace timer, and the continuation of `#finish` once all
  observers have settled. Nothing is assumed of the application: drain, force hook, observers
  and flush may all hang for ever. `Completes` says that `wait()` resolves or that one of the last
  three, which the code awaits without a deadline, holds it (`Held`).
* *NodeHttpShutdown, HttpFairness*: the same; server callbacks come once the connections
  are gone; a connection may stay open for ever, and the application's hooks too.
* *NodeLogger, FairSpec*: continuations, and the timers of `waitWithTimeout`. Transports
  need never answer; the application goes on creating events and loggers.
* *MCLogging, Fairness*: an HTTP attempt with a timeout is aborted; the runtime goes on with
  a promise that settled (`OtelSpan` assumes of `IsAnswered` that the sinks settle, `HostLoggers`
  that a flush runs into its timeout). Application work, tracers and endpoints owe nothing.
* *ServerLifecycle, Fairness*: only its three deadlines. No hook and no server need ever settle.

## 5. What is proved

The first part of `NodeHttpShutdown_proofs` is about `ShutdownCoordinator`, for any number of
requests, any set of hooks that throw, and with or without a re-entrant observer: `TypeCorrect`,
`HooksOrdered` (every hook once, flush last, in order), `TimerExact`, `FlushIsLast`, the three of them as `PhasesAlwaysKept`, and
`Refinement` (of `TwoPhaseShutdown`).
The properties are not inductive: that flush comes last says nothing of a state in
which `#finish` runs twice. The inductive invariant is
`Inv == Types /\ PhaseSays /\ TimerPlace /\ CallsMatch`: what each phase says of the hooks'
promises, where the timer can be armed, and which call histories go with which hooks. It
rests on no assumption beyond `HooksAssumption`.

`SupabaseIngest_proofs`, for any number of records and exit callers, any sizes and any
limits: `TypeCorrect`, `OnePlaceHolds`, `QueueKeptHolds` and `LedgerRefinement`. The first
invariant is `Inv == TypeOK /\ BatchWhilePosting /\ Placed`. `Placed` states `OnePlace` by two operators:
`Apart` (queue and batches share nothing, and repeat nothing) and `Held` (the set
of records in them). A turn is a composition of three moves, taking a prefix, putting a
batch back and enqueuing with eviction; one lemma per move shows that it keeps `Apart`
and what it does to `Held`, and each action's step says which move of the ledger
(`Stays`, `Admits`, `Refuses`, `Delivers`) it is. So the same lemmas give the invariant
and the refinement. `QueueKept` is not inductive either: that a restored batch goes in front of the
queue in order needs that it is the only one, and the bound after an overlap needs to know how
many batches there are. `QueueInv` adds `Alone` and `InOrder` (until two requests overlap one loop
posts, and its batch is older than the queue), `CloseWaits` (the loop of `close()`
starts only when no write is accepted any more), `Sizes` (each batch within `BatchSize`) and
`Bounded` (queue and batches together within `Allowance`). The sizes are cardinalities of finite sets, bounded
through the number of loops (`ManyLoops`, `RangeSize`). Assumptions: `LimitsAssumption` (limits
are naturals, the batch and queue sizes not zero, as the constructor enforces) and
`ExitsAssumption` (the exit callers are finitely many, and are neither of the two other loops).

`LokiTransport_proofs`, for any number of records, retries and callers and any sizes:
`TypeCorrect`, `SettledOnce`, `InOrderHolds` and `LedgerRefinement`. Each step has one of four
shapes (`Rests`, `Starts`, `Admits`, `Settles`), and the lemma of each says what it does to the
records held. `Inv == Data /\ Control /\ Free`: in `Data`, batch and queue are in line (`InLine`), everything
settled is older (`Older`) and nothing settles twice (`Once`); `Control` ties the stage of the
one flush to its callers, and `Free` says that a flush starts and ends with an empty batch, without
which the next one would lose it.

`SupabaseRealtime_proofs`, for any number of records and socket objects and any size of the queue:
`TypeCorrect`, `PlacedHolds`, `OneChannelHolds` and `LedgerRefinement`.
`Inv == TypeOK /\ Placed /\ Channel` has two halves that need nothing of each other. `Placed` is the
accounting, kept by each of five moves (`Moves`), whatever the sockets do. `Channel` is
`Current /\ Woken` until the onclose of a superseded socket runs. That there is one live socket
is not inductive: it takes that the live one is the current one, and that it is connected or has an
attempt of its own, so that `connect()` replaces only a dead one (`Current`). That what waits is found
takes that over a channel that is up nothing waits, and that whoever was told it is up finds it so
(`Woken`): a reply may then disarm the reconnect timer. It assumes `RealtimeAssumption`.

`BrowserStream_proofs`, for any number of records and sockets and any sizes: `TypeCorrect`,
`AccountedInOrderHolds` and `WakeupArmedHolds`. That the loop may drain as many records as it
peeked is no more than `Ahead`: until the head of the queue moved, the batch is still its head; and
over an inner transport `Taken`: what it already took is a prefix of that batch. The two
theorems name what they need of page exits: a beacon that never answers false
(`BeaconKeeps`), and one that is there and does not throw (`BeaconTakes`); section 6 says what
happens otherwise. A transport without page exits satisfies both.

`ServerLifecycle_proofs`, about the instance `L` of `MCShutdown`, whatever hooks the application gave, and whoever requests, forces,
listens and disposes: `TypeCorrect`, `DeadlineAlwaysKept`, `HooksRunOnce`, and `Refinement`
(of `TwoPhaseShutdown`). Alone, that hooks run once says nothing of a sequence that is
overtaken between two of them. `Inv == Types /\ Deadlines /\ Called` says in `Deadlines`
who may hold the deadline and the listeners in each phase, and in `Called` what each
phase knows of the calls: exactly which prefix of its four the graceful sequence has made
until it is forced, and from then on that flush is among them when it was started. It assumes nothing of the constants.

The second part of `NodeHttpShutdown_proofs` is about the servers, for any set of them and any number
of connections, with hooks that return a promise (`HttpHooks`): `OnlyForceEverCuts`. That each step is one
of the coordinator, so that what is proved there holds here, is the lemma `Composition`. `HttpInv == HttpHooks /\ HttpTypes /\ HttpPhases /\ ServersOK`
ties the servers to the coordinator: a forced process has no listening server and no
connection, and a drain is done only when every callback came without an error.

`NodeLogger_proofs` has two parts. The first is about `LoggerDelivery` alone, the instance `L`,
for any set of calls, any number of events and any transports: `DeliveryTypeCorrect` and
`DeliveryAlwaysCovers`. What a flush is to cover lies in the
snapshots it took at different moments, while other calls take from the same lists. `CallOK`
says, per call, where each event it must cover may still be: its own snapshots, the unsent
events, the writes and records in flight. `Forward` and `Undisturbed` are the two
arguments: a call's own step only moves an event towards the transports, and a step of another
call takes nothing out of the snapshots. It makes no assumption on the constants.

The second part is about the process: `FlushAlwaysCovers` and `AlwaysDiesDrained`.
The lemma `Composition` shows that each step of the process is one that `LoggerDelivery`
allows, so that the theorem of the first part is used and not proved again.
`AlwaysDiesDrained` rests on three facts: a drain that waits has a timer, so that the loop
cannot run empty under it (`DrainsTimed`); the handlers are there while anybody is registered,
until the signal is raised again (`HandlersHold`); and what was registered in time was drained, or
will be (`OwnCovered`). It assumes
`ProcessAssumption`.

`MCLogging_proofs` is about the modules that `MCLogging` composes, each with an inductive invariant
that the steps of the others leave alone. It assumes `LoggingAssumption`, and of contexts and
exports `ContextAssumption` (only the library writes the field of a span) and `ExportAssumption`
(the application names no attribute `span.id`, a metric has room for a series, bounds and
readings of the clock are numbers).

* `ContextAlwaysOwn`, for any number of runs and providers. A variable that is saved and restored
  says nothing of who is inside of whom: `FrameInv` adds `Nested` (until something overlaps, the runs
  under way are those around the one whose frame is current, each having saved the next) and
  concludes that the innermost of them, which executes, is current. `Around` is the least set closed
  under callers, not a recursion, so that this can be said at all. Providers: `ProviderInv` relates
  what each remover saved to what was installed before it.
* `SpanFieldsAlwaysAgree`, for any sequence of merges, updates and captures of any patches: every frame, and the captured snapshot, agrees,
  not only what is in force.
* `SettingsAlwaysOwn`, for any sequence of derivations and setters: an options object is one logger's, but
  for those the application made from one (`ObjectsApart`).
* `AlwaysWaitedFor`: an isolate that stops has nothing pending, because each record is held by an
  invocation that is not over (`Awaited`); a flush that is over waited for what was sent before it,
  because what it waits for and what has settled cover that at each of its phases (`FlushOK`).
* `SpanAlwaysWraps`: `WrapInv` says of each place in `withOpenTelemetrySpan` what the work has done
  (`WorkInv`), and how often the span was ended and with which status (`EndInv`).
* `HandlersAlwaysMatch`: `Heard` ties the host's handlers to the registered loggers for each
  runtime, `Captured` the handlers of the page to the removers.
* `DedupeAlwaysExact`: that two records of one hash are never both posted takes both directions:
  what is in the set is a record's that is or was posted (`Vouched`), and the hash of every such
  record is in it until something is evicted (`Remembered`). The first must survive a failure
  after an eviction, which may take out the hash of another record.
* `RecordAlwaysKeeps`, for any contexts and any calls: `EventInv` says that every trace given to the
  event is in its list, with its first one (`Correlated`), and that what it was enriched with is on it,
  whatever is added, and wins over the context in which the record is made (`Carried`). That
  merging lists of traces adds exactly those that are not there (`AddAllIs`) is an induction over the list.
* `BridgeAlwaysFaithful`, for any spans, attributes and failing calls and any limit: `BridgeInv` says in `Progress`
  which foreign calls succeeded against the one at hand, and in `Built` that there are no attributes
  until the span was read: whatever the application adds to them, a `span.id` comes from the
  span, together with its trace, or not at all.
* `MetricsAlwaysTrue`, for any number of writes, any transports, limit, buckets and clocks, and any
  metrics that throw. Beyond the limit it is not obvious that what a write adds and takes away meets
  in one series: `SeriesInv` says that a write under way has a series of its own, or the limit is
  reached, so that its label set gets none any more (`Placed`). Sums over the series (`Total`) and the lists of registered metrics are
  inductions; of a registry `RegistryInv` says that what is exposed is apart and its names are taken,
  after each metric of a list, also of one that fails half way.

An induction over data is possible for recursive *functions*: `Recursion` derives from the
well-foundedness of `<` on the naturals that such a function is the one its equation defines,
and `Induct` is induction in the form of a set that contains 0 and successors. The induction
theorems of the library take an operator as a parameter, which the provers do not instantiate.

Only model-checked:

* all liveness (`NobodyWaitsForEver`, `Completes`, `Emptied`, `WaitsEnd`, `SignalKills` and the others
  named in section 4), which is beyond the prover;
* `ShowsExactlyThePlain`: `Serialize` recurs over a graph and a depth at once, with exceptions on
  their way out, and is a RECURSIVE operator, of which the prover knows nothing;
* `ReportsTheUnsent` and `CommandLineIsRead`, of `MCTools`, which instantiates that operator;
* `NodeProcess`, which exists for the deviation it shows.

## 6. Where the code deviates

With a run that shows it (`findings` in `PROJECT.json` quotes the documentation):

* `BrowserStream` drains records it never sent when the queue overflows during a send
  (`stream_trim_violation`);
* `BrowserStream` never connects again after its socket factory threw once, since the rejected
  promise is assigned after it was cleared (220, 225) and returned from then on (200-202;
  `factory_throws_violation`). With that promise cleared (`connecting' = None` in
  `FactoryThrows`) `RetriedLater` holds;
* the shutdown coordinator awaits the force hook, the observers and flush without a deadline
  (`src/shutdown.ts` 232, 264, 268), so that any of them that hangs, or a force hook that throws
  before its promise, keeps `wait()` from ever resolving, where the documentation says that
  none can (`hung_hook_violation`);
* importing `src/node-logger.ts` registers its default logger (214), so that a signal is
  raised again in every such process, also when the application's logger has
  `flushOnShutdown: false`; the server lifecycle controller takes that for a second signal
  and forces (`double_signal_violation`).

Met while modelling, without a run of their own, and excluded from the properties above
by what a run leaves out, a history variable or an assumption:

* Ingest: a `flushOnExit()` whose request fails restores its batch and arms no timer
  (605-609), so that its records wait until somebody writes or flushes, where
  `docs/supabase-ingest.md` 79-80 says failed batches are retried. `NobodyWaitsForEver` claims
  settlement only while no exit caller acts; `OnePlace` checks that nothing is lost.
* Ingest: under `awaitDelivery` a `write()` between `drain()` finding the queue empty and the
  `finally` joins that flush (564-566) and resolves although its record is still queued;
  the interval timer sends it later.
* `flush({ sendUnsent, timeoutMillis })` awaits the events it recovers before its timeout
  begins (1570-1577), so a transport that hangs there makes it hang; `close()` awaits the
  transports' `close()` without any (1595). `flushOnExit()` bounds both.
* A logger that registers after the `beforeExit` drain, or while a signal's is running, is
  not drained (`late`); `beforeExit` is one-shot. An event created during a drain is covered
  only by a later one. If others listen for the signal the process survives being drained,
  and `shutdownInProgress`, which is never reset, makes any handlers installed later ignore
  signals.
* `SupabaseRealtime`: when a socket that timed out reports its close late, after its
  successor has joined, `onclose` clears the successor's `joined`, `joinRef` and heartbeat
  (961-964). From there on (`stale`) the next write opens one more socket and leaks the
  current one; acknowledgements of the leaked one clear the reconnect timer or set `joined`
  with an empty `joinRef`, so that messages go out with a `join_ref` that
  `tests/logger.test.mjs` 253 excludes; and `close()` does not close it. `OneChannel`
  holds up to that moment. Accounting and, because the server ends leaked
  sockets, `EventuallySent` survive it.
* `dispose()` of the server lifecycle clears the deadline of a drain under way (`early`).
* `BrowserStream`: a page that hides without a beacon, or with one that throws, leaves the
  records in the queue with the flush timer cleared (320-343), so that nothing sends them until
  somebody writes or flushes again, where `src/README.md` 526-527 has everything ride the idle
  cadence. With `Beacon = {}` in `stream.cfg` TLC shows it in three states; it came out
  of the attempt to prove `WakeupArmed`, which needs page exits that take the queue.
* `BrowserStream` ignores `sendBeacon() === false` and empties its queue all the same
  (338-339), so that `AccountedInOrder` needs a beacon that does not refuse; and `close()` does not wait for a
  loop already running.
* Loki: `close()` called again while closing returns at once, and one that rejected on a
  failed batch cannot be repeated; the promises of the writes settle all the same.

In what a record says:

* A span that a patch clears stays in the field that records take it from
  (`src/execution-context-shared.ts` 80, 140; `cleared`).
* `RecordCorrelates` holds, but a record whose application put its own trace first, made in a
  context with a span, is emitted with that trace and that span
  (`src/otel.ts` 452-464; `ownTrace`).
* Runtime fields override an event's (contra the comment at `src/base-logger.ts` 1181); enriching an
  event under an installed provider doubles the users.
* Two loggers that the application makes from one options object share what setters write
  through (`sharing`). `transportsFor` returns the live array, so that an error may be blamed on
  a transport that replaced the failing one.
* `serialize()` reads `constructor?.name` of an object after the loop and outside its guard
  (`src/base-logger.ts` 498), redacted or past the limit as that key may be: a getter of `constructor` that throws
  takes all its siblings with it, contra the comment at 474-475 (`Unreadable`; TLC shows it of a single
  object if `ShowsExactlyThePlain` excepts none). What it reads becomes `__type`, neither serialized,
  redacted nor capped. The name of an Error is read unguarded, too, and the `cause` of an Error is not
  compared with the redaction patterns (369-372).
* Serialization caps neither an Error's own properties nor string parts of `message`, nor
  redacts the latter; it writes a shared object out at each of its places, which within
  the depth may be exponential. Users are serialized with the default limits.
* A `toJSON()` that throws leaves `flushOnExit()`'s loop after the event was taken off
  `unsentEvents` (`src/base-logger.ts` 1581).

In delivery, bridges and hosts:

* A record skipped for one in flight that then fails is lost with it; eviction and a failure
  together may take out the hash of another record that is being posted; the
  exit beacon knows nothing of the set.
* A tracer that fails after the work replaces the work's result (contra the comment at
  `src/otel.ts` 850-853), and one that throws synchronously leaves the work running detached.
  `logSafely` awaits the sinks without a limit (810-827).
* The name of the registry's own `dropped_series_total` is not reserved, and it counts dropped
  updates, not series (`src/prometheus.ts` 180, 487-491); `Gauge.set(NaN)` takes a slot (265-266);
  reading a series that does not exist gives the overflow's total; a list that fails half way
  leaves its first metrics registered.
* A remover of browser handlers called after they were installed anew forgets the
  new ones, and a third installation reports every error twice (`repeated`); `close()` leaves them
  listening (`src/browser-logger.ts` 240-252, 268-274).
* Bun: `beforeExit` is heard once, and a process that survives its signal ignores the next
  (`src/bun-logger.ts` 52-66).
* Workers: a child bound without a context keeps the one of an earlier invocation
  (`src/cloudflare-worker-logger.ts` 189-231; `given`), and buffered transports are waited for only
  until a record is queued.
* WebAssembly: a payload that fails while its event is being decorated is answered -1 although
  the event may be sent by `autoSend` or at exit (`left`); the timeout of `flush()` bounds only the
  logger's part (`src/wasm-logger.ts` 202-213, 227-231).

In the tools (`evaded`, `rebound` and `followed` exclude the programs):

* The lint rule clears twice for one expression, so that a shadowed outer event is cleared too;
  an event or factory copied to another name is not followed; a name bound anew loses its first
  event; `createLogger().info()` is not seen; the `.ores-lint` rule does not know `require()`.
* The scanner is said to have the same contract (`.ores-lint/require-send.mjs` 5), but an event
  with a name that is returned, passed on, copied, or is the value of a block stays reported
  (328-338); `let e: Event =` files it under the type (270-282), so that a second such line
  loses the first and sending either clears none. In Gleam `e |> logging.send` clears nothing,
  and a pipe that is bound to a name or passed on, and the arms of a `case`, are reported at once
  (356-362).
* `--no-x=false` sets false (`src/cli/argv.ts` 199-204). The first word that names a command selects
  it wherever it stands, and what comes before it is kept. An option set to the empty string
  overrides the environment, after which the configuration ignores it and the file wins.
* `src/config.ts` 56 takes `n`, `f` and the empty string for true, which the parser's words of
  `src/cli/argv.ts` take for false, though 4-6 there call a flag and its variable interchangeable.

## 7. Not modelled, and the plan

Left out, each with its reason in `PROJECT.json`: the SDKs in other languages, whose tests run
against the same contracts; contracts, examples, dashboards, scripts. Of the TypeScript
package: subcommands of the command line, which read files and print; the discovery and
parsing of the configuration file; the text exposition of metrics; the mapping of a record to attributes beyond its correlation; the
handlers of uncaught errors in Node, which send one more event. `onLog` observers that call
the server lifecycle controller back in the middle of a transition (292) are left out as well:
nothing says what they may expect.

Worth adding next:

1. Proofs: `ReportsTheUnsent` and `CommandLineIsRead`, in a module without the recursive `Serialization`.
2. The Go and Rust shutdown controllers as refinements of `TwoPhaseShutdown`, with real threads.
3. `LoggerDelivery` over an instance of a buffering transport in place of its abstract ones.
