------------------------------- MODULE MCLogging -------------------------------
(* From a logging call to its delivery: contexts, derived loggers, records,  *)
(* the loggers, transports and spans around them that calls of several       *)
(* actors reach in any order, and the OpenTelemetry and Prometheus bridges.  *)
(* Parts of the library that share no state, so one of them runs in a        *)
(* behaviour and the others stay as they begin.                              *)
EXTENDS Integers, Sequences, TLC

CONSTANTS
  MaxRuns, MaxUpdates, Patches, Providers,
  MaxLoggers, MaxCalls, RuntimeKeys, Trackers, Contexts,
  Requests, Crons, MaxEmits,
  MaxPayloads, MaxFlushes,
  MaxRecords, MaxHash, MaxHashes, MaxTransports,
  HostedLoggers, MaxInstalls, MaxSignals,
  Spans, UserAttributes, MaxAttributes, MaxFailing,
  MaxWrites, Transports, MaxSeries, Buckets, Clocks,
  MetricLists

(* "none" is no run, provider or invocation; the set of hashes has room.   *)
ASSUME LoggingAssumption ==
  /\ MaxRuns \in Nat
  /\ "none" \notin Requests \cup Crons
  /\ "none" \notin Providers
  /\ MaxHashes \in Nat \ {0}

(* Only the library writes the field of a span, and traces are strings.    *)
ASSUME ContextAssumption ==
  /\ \A p \in Patches : "otel.span_id" \notin DOMAIN p.fields
  /\ \A c \in Contexts : c.traceId \in STRING /\ c.traceIds \in Seq(STRING)

(* The application names no attribute span.id, a metric has room for one   *)
(* series, bounds of buckets and readings of a clock are numbers.          *)
ASSUME ExportAssumption ==
  /\ UserAttributes \subseteq Seq((STRING \ {"span.id"}) \X STRING)
  /\ MaxSeries \in Nat \ {0} /\ MaxWrites \in Nat
  /\ Buckets \subseteq Int
  /\ Clocks \subseteq [1..MaxWrites -> Seq(Int)]
  /\ MetricLists \subseteq Seq(STRING \X {"counter", "gauge", "histogram"})

VARIABLES
  part,
  tracked, current, frames, status, parent, previous, stack, snapshot, updates, overlapped, cleared,
  provider, replaced, installed, unordered,
  options, optionsOf, tracker, calls, asked, sharing,
  fields, traceId, traceIds, ambient, record, given, enriched,
  buffered, running, responded, over, made, emitted,
  answers, sent, left, pending, settled, flushes,
  dedupe, timed, fallback, transport, hash, by, write, endpoint, seenHashes, evicted,
  logs, failOnStartError, failing, sinks, tracer, at, work, runs, logging, spanStatus, ended, result,
  runtime, hostable, otherListeners, loggers, closed, registered, hooked, handlers, capturing, globals,
  remover, returned, repeated, installs, signals, unsent, taken, shutdown, flushing, dead,
  failOpen, onError, emitSpanEvents, recordExceptions, includeFields, maximum, user, throwing, error,
  written, ownTrace, active, pc, spanContext, attributes, done, thrown,
  reserveOverflow, broken, labelText, values, answer, name, clock, inner,
  metrics, expositionNames, complete

contextVars == <<tracked, current, frames, status, parent, previous, stack, snapshot, updates,
                 overlapped, cleared, provider, replaced, installed, unordered>>
loggerVars == <<options, optionsOf, tracker, calls, asked, sharing>>
eventVars == <<fields, traceId, traceIds, ambient, record, given, enriched>>
workerVars == <<buffered, running, responded, over, made, emitted>>
wasmVars == <<answers, sent, left, pending, settled, flushes>>
trackingVars == <<dedupe, timed, fallback, transport, hash, by, write, endpoint, seenHashes, evicted>>
spanVars == <<logs, failOnStartError, failing, sinks, tracer, at, work, runs, logging, spanStatus, ended, result>>
hostVars == <<runtime, hostable, otherListeners, loggers, closed, registered, hooked, handlers, capturing,
              globals, remover, returned, repeated, installs, signals, unsent, taken, shutdown, flushing, dead>>
bridgeVars == <<failOpen, onError, emitSpanEvents, recordExceptions, includeFields, maximum, user, throwing,
                error, written, ownTrace, active, pc, spanContext, attributes, done, thrown>>
seriesVars == <<reserveOverflow, broken, labelText, values, answer, name, clock, inner>>
registryVars == <<metrics, expositionNames, complete>>
recordVars == <<contextVars, loggerVars, eventVars, workerVars>>
deliveryVars == <<wasmVars, trackingVars, spanVars, hostVars>>
exportVars == <<bridgeVars, seriesVars, registryVars>>
vars == <<part, recordVars, deliveryVars, exportVars>>

(* Contexts: a trace with a field, a trace and a span, and a span cleared. *)
Patch(id, span, f) == [traceId |-> id, traceIds |-> <<>>, fields |-> f, spanId |-> span]
ThreePatches == {Patch("t1", "none", [k \in {"k"} |-> "v"]), Patch("t2", "s2", <<>>), Patch("none", "cleared", <<>>)}

Context(id, ids, f) == [traceId |-> id, traceIds |-> ids, fields |-> f]
ThreeContexts == {Context("t1", <<>>, ("b" :> "c1")),
                  Context("t2", <<"t2", "t3">>, ("a" :> "c2") @@ ("b" :> "c2")),
                  Context("none", <<"t3">>, <<>>)}

(* A sampled span, one that is not, and one with opaque identifiers. *)
Span(trace, id, w3c, recording) == [trace |-> trace, span |-> id, w3c |-> w3c, recording |-> recording]
ThreeSpans == {Span("t1", "s1", TRUE, TRUE), Span("t2", "s2", TRUE, FALSE), Span("t3", "s3", FALSE, TRUE)}
TwoAttributes == {<<<<"trace.id", "x">>, <<"service.name", "x">>>>}

(* Durations at, between and beyond the buckets; clocks set back or broken. *)
TwoClocks == {<< <<1>>, <<3>>, <<-1>> >>, << <<>>, <<2>>, <<3>> >>}

(* Names that are another metric's samples, alone and inside lists. *)
Count(n) == <<n, "counter">>
Histogram(n) == <<n, "histogram">>
SevenLists == {<<Count("x_count")>>, <<Histogram("x")>>, <<Count("x")>>, <<Histogram("x_sum")>>,
               <<Count("y"), Count("x_sum"), Histogram("z")>>, <<Histogram("z_bucket")>>,
               <<Count("z"), Histogram("y")>>}

C == INSTANCE LogContext
R == INSTANCE LogRecords
W == INSTANCE WorkerLoggers
H == INSTANCE WasmHost
E == INSTANCE ErrorTracking
O == INSTANCE OtelSpan WITH status <- spanStatus
P == INSTANCE HostLoggers WITH Loggers <- HostedLoggers, made <- loggers, installed <- hooked
B == INSTANCE OtelTransport WITH record <- written
I == INSTANCE InstrumentedTransport WITH Names <- Transports
G == INSTANCE PrometheusRegistry WITH Lists <- MetricLists

Some(p, set, value) == IF part = p THEN set ELSE {value}

Init ==
  /\ part \in {"frames", "providers", "loggers", "events", "workers", "wasm", "errorTracking", "span", "hosts",
              "bridge", "series", "registry"}
  /\ tracked \in Some("frames", BOOLEAN, FALSE) /\ C!Init
  /\ R!Init
  /\ buffered \in Some("workers", BOOLEAN, FALSE) /\ W!Init
  /\ H!Init
  /\ dedupe \in Some("errorTracking", BOOLEAN, FALSE)
  /\ timed \in Some("errorTracking", BOOLEAN, FALSE)
  /\ fallback \in Some("errorTracking", BOOLEAN, FALSE) /\ E!Init
  /\ logs \in Some("span", BOOLEAN, FALSE)
  /\ failOnStartError \in Some("span", BOOLEAN, FALSE)
  /\ failing \in Some("span", SUBSET O!Operations, {})
  /\ sinks \in Some("span", {"settle", "hang"}, "settle")
  /\ tracer \in Some("span", {"calls", "fails", "failsLate"}, "calls") /\ O!Init
  /\ runtime \in Some("hosts", P!Runtimes, P!Browser)
  /\ hostable \in Some("hosts", BOOLEAN, FALSE) /\ otherListeners \in Some("hosts", BOOLEAN, FALSE) /\ P!Init
  /\ failOpen \in Some("bridge", BOOLEAN, FALSE) /\ onError \in Some("bridge", BOOLEAN, FALSE)
  /\ emitSpanEvents \in Some("bridge", BOOLEAN, FALSE)
  /\ recordExceptions \in Some("bridge", BOOLEAN, FALSE)
  /\ includeFields \in Some("bridge", BOOLEAN, FALSE) /\ error \in Some("bridge", BOOLEAN, FALSE)
  /\ ownTrace \in Some("bridge", BOOLEAN, FALSE)
  /\ maximum \in Some("bridge", MaxAttributes, CHOOSE m \in MaxAttributes : TRUE)
  /\ throwing \in Some("bridge", B!FewCalls, {})
  /\ active \in Some("bridge", B!OrNone, B!None) /\ written \in Some("bridge", B!Provisions, B!None)
  /\ B!Init
  /\ reserveOverflow \in Some("series", BOOLEAN, FALSE)
  /\ broken \in Some("series", SUBSET I!Metrics, {})
  /\ clock \in Some("series", Clocks, CHOOSE c \in Clocks : TRUE) /\ I!Init
  /\ G!Init

Next ==
  /\ UNCHANGED part
  /\ \/ /\ UNCHANGED <<deliveryVars, exportVars>>
        /\ \/ /\ part = "frames" /\ C!NextFrame
              /\ UNCHANGED <<loggerVars, eventVars, workerVars>>
           \/ /\ part = "providers" /\ C!NextProvider
              /\ UNCHANGED <<loggerVars, eventVars, workerVars>>
           \/ /\ part = "loggers" /\ R!NextLogger
              /\ UNCHANGED <<contextVars, workerVars>>
           \/ /\ part = "events" /\ R!NextEvent
              /\ UNCHANGED <<contextVars, workerVars>>
           \/ /\ part = "workers" /\ W!Next
              /\ UNCHANGED <<contextVars, loggerVars, eventVars>>
     \/ /\ UNCHANGED <<recordVars, exportVars>>
        /\ \/ part = "wasm" /\ H!Next /\ UNCHANGED <<trackingVars, spanVars, hostVars>>
           \/ part = "errorTracking" /\ E!Next /\ UNCHANGED <<wasmVars, spanVars, hostVars>>
           \/ part = "span" /\ O!Next /\ UNCHANGED <<wasmVars, trackingVars, hostVars>>
           \/ part = "hosts" /\ P!Next /\ UNCHANGED <<wasmVars, trackingVars, spanVars>>
     \/ /\ UNCHANGED <<recordVars, deliveryVars>>
        /\ \/ part = "bridge" /\ B!Next /\ UNCHANGED <<seriesVars, registryVars>>
           \/ part = "series" /\ I!Next /\ UNCHANGED <<bridgeVars, registryVars>>
           \/ part = "registry" /\ G!Next /\ UNCHANGED <<bridgeVars, seriesVars>>

(* The fairness of the modules: timers fire, the runtime goes on with what  *)
(* has settled, and a flush has a timeout.                                  *)
Fairness ==
  /\ \A r \in 1..MaxRecords :
       WF_<<part, trackingVars>>(part = "errorTracking" /\ E!Aborts(r) /\ UNCHANGED part)
  /\ WF_<<part, spanVars>>(part = "span" /\ O!Advance /\ UNCHANGED part)
  /\ WF_<<part, hostVars>>(part = "hosts" /\ P!Raise /\ UNCHANGED part)
  /\ \A l \in HostedLoggers : WF_<<part, hostVars>>(part = "hosts" /\ P!FlushEnds(l) /\ UNCHANGED part)

Spec == Init /\ [][Next]_vars /\ Fairness

-----------------------------------------------------------------------------
(* Code sees the frame of the run() it is in, unless frames that are not    *)
(* tracked overlapped; and the newest provider not removed is in force, as  *)
(* long as they are removed in reverse order                                *)
(* (src/context-shared.ts:36-57, 172-177).                                  *)
ContextIsOwn == C!FrameIsOwn /\ C!ProvidersUnwind

(* A frame's span and the field that records take it from are one, until a  *)
(* patch clears it (src/execution-context-shared.ts:64-143).                *)
SpanFieldsAgree == C!SpanFieldsAgree

(* A logger has its own settings, and those it was derived from, only       *)
(* (src/base-logger.ts:1339-1375, 1449-1460).                               *)
SettingsAreOwn == R!SettingsAreOwn

(* A record has every trace its event was given, and an event enriched with *)
(* a context keeps it wherever its record is made                           *)
(* (src/base-logger.ts:1084-1094, 1189-1196,                                *)
(* src/execution-context-shared.ts:190-204).                                *)
RecordKeepsContext == R!RecordCorrelates /\ R!EnrichedTravels

(* What a handler logs through a logger of its invocation is written before *)
(* the isolate stops, and a logger carries the trigger whose context waits  *)
(* for it (src/cloudflare-worker-logger.ts:174-241). A WebAssembly host's   *)
(* flush() waits for every record sent before it                            *)
(* (src/wasm-logger.ts:168-231).                                            *)
WaitedFor == W!WaitedFor /\ W!OneInvocation /\ H!FlushWaits

(* A transport posts no two records of one hash at once or after one was    *)
(* acknowledged, and what makes it skip a record is one that it posts or    *)
(* has posted: a write that failed releases its hash, also after evictions  *)
(* (src/base-logger.ts:690-711).                                            *)
DedupeIsExact == E!OncePerHash /\ E!SkipsOnlyTheSent

(* Application work in a span runs once, its span is ended once with the    *)
(* work's status, and its result is the caller's, whatever tracer, span and *)
(* sinks do, but for a tracer that fails after the work                     *)
(* (src/otel.ts:850-988).                                                   *)
SpanWrapsOneRun == O!WorkRunsOnce /\ O!SpanIsEnded

(* A write with a timeout ends, also when both endpoints hang; and work in  *)
(* a span that settles is answered, if the transports settle                *)
(* (src/base-logger.ts:597-634, src/otel.ts:883-988).                       *)
WaitsEnd == E!WritesSettle /\ O!IsAnswered

(* The host calls back exactly as long as a logger is registered, and an    *)
(* error of the page is one record of each capturing logger, unless a stale *)
(* remover was called (src/browser-logger.ts:44-83, 240-252,                *)
(* src/bun-logger.ts:93-103, src/deno-logger.ts:34-42).                     *)
HandlersMatch == P!HandlersMatch /\ P!ReportedOnce

(* A signal that Bun's loggers catch kills the process, with nothing of     *)
(* theirs half flushed (src/bun-logger.ts:57-66).                           *)
SignalKills == P!SignalKills

(* A span id is emitted with its own span's trace, also where the limit on  *)
(* attributes cuts the list, but for a trace the application put first      *)
(* (src/otel.ts:152-169, 440-464); the write throws exactly if emit() does  *)
(* and it is not to fail open, and each other call that fails leaves the    *)
(* rest of them as they are (592-714).                                      *)
BridgeIsFaithful == B!CorrelationPaired /\ B!FailuresAreIsolated

(* The gauge of writes in flight is exact in each series and the overflow,  *)
(* whichever of overlapping writes begin or end beyond the limit on series, *)
(* which no metric exceeds; the buckets of durations count what took no     *)
(* longer; a metric that throws never replaces what the inner transport     *)
(* answered (src/prometheus.ts:159-209, 343-364, 697-745); and no two       *)
(* registered metrics expose samples of one name, in whatever order they    *)
(* come, alone or in lists that fail half way (467-480).                    *)
MetricsAreTrue ==
  /\ I!InFlightExact /\ I!DurationsAreCumulative /\ I!SeriesBounded /\ I!ResultIsInner
  /\ G!SamplesAreUnique
=============================================================================
