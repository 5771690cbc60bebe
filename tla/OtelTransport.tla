----------------------------- MODULE OtelTransport -----------------------------
(***************************************************************************)
(* OpenTelemetryTransport.write of src/otel.ts:607-715, with the context   *)
(* provider (526-584) that put the correlation of an earlier active span   *)
(* into the record, and the bounded attributes (143-170, 400-465). Every   *)
(* call into the application's objects may throw: each is isolated, but    *)
(* for emit().                                                             *)
(*                                                                         *)
(* A behaviour is one write. Attributes stand for their values; names and  *)
(* values are not truncated. The metrics' labels are left out.             *)
(***************************************************************************)
EXTENDS Naturals, Sequences, FiniteSets

CONSTANTS
  Spans,                  \* the spans there may be: [trace, span, w3c, recording]
  MaxAttributes,          \* values of maxAttributes
  UserAttributes,         \* lists of options.attributes, <<name, value>>
  MaxFailing              \* bound: how many of the calls throw

None == [trace |-> "none", span |-> "none", w3c |-> FALSE, recording |-> FALSE]
Calls == {"activeSpan", "spanContext", "activeContext", "emit", "isRecording", "addEvent",
          "recordException", "setStatus", "recordMetric", "errorMetric"}

VARIABLES
  failOpen, onError, emitSpanEvents, recordExceptions, includeFields, maximum, user,   \* options
  throwing,                \* the calls that throw
  error,                  \* the record's level is ERROR or FATAL
  record,                 \* its traceId and its fields of a span
  ownTrace,               \* the application put a trace of its own first in it
  active,                 \* the span active while it is written
  pc,
  spanContext,            \* the valid one that was read
  attributes,
  done,                   \* the calls that succeeded
  thrown                  \* the write threw

options == <<failOpen, onError, emitSpanEvents, recordExceptions, includeFields, maximum, user>>
vars == <<options, throwing, error, record, ownTrace, active, pc, spanContext, attributes, done, thrown>>

(* createOpenTelemetryContextProvider: what a span active when the record   *)
(* was made left in it. A sampled-out span must have W3C identifiers.       *)
Provided(span, requireRecording) ==
  IF span = None \/ (requireRecording /\ ~span.recording) \/ (~span.recording /\ ~span.w3c)
  THEN None ELSE span

OrNone == Spans \cup {None}
Provisions == {Provided(span, requireRecording) : span \in OrNone, requireRecording \in BOOLEAN}
FewCalls == {S \in SUBSET Calls : Cardinality(S) <= MaxFailing}

Init ==
  /\ failOpen \in BOOLEAN /\ onError \in BOOLEAN
  /\ emitSpanEvents \in BOOLEAN /\ recordExceptions \in BOOLEAN /\ includeFields \in BOOLEAN
  /\ maximum \in MaxAttributes /\ user \in UserAttributes
  /\ throwing \in FewCalls
  /\ error \in BOOLEAN
  /\ record \in Provisions
  /\ ownTrace \in BOOLEAN
  /\ active \in OrNone
  /\ pc = "activeSpan"
  /\ spanContext = None /\ attributes = <<>> /\ done = {} /\ thrown = FALSE

-----------------------------------------------------------------------------
Put(f, k, v) == [x \in DOMAIN f \cup {k} |-> IF x = k THEN v ELSE f[x]]

AddKeepingFirst(f, name, value) ==        \* a slip: an attribute that is there stays
  IF name \in DOMAIN f \/ Cardinality(DOMAIN f) >= maximum THEN f ELSE Put(f, name, value)

(* AttributeBuilder.set. *)
Add(f, name, value) ==
  IF name \notin DOMAIN f /\ Cardinality(DOMAIN f) >= maximum THEN f ELSE Put(f, name, value)

TraceOf == IF ownTrace THEN "own" ELSE record.trace       \* record.traceId

(* options.attributes, but for the protected ones. *)
AddUsers(f) ==
  LET r[i \in 0..Len(user)] ==
        IF i = 0 THEN f
        ELSE IF user[i][1] \in {"log.record.uid", "service.name"} THEN r[i - 1]
        ELSE Add(r[i - 1], user[i][1], user[i][2])
  IN r[Len(user)]

(* addRecordAttributes, with two of the attributes that every record has. *)
RecordAttributes ==
  LET own == Add(Add(<<>>, "log.record.uid", "id"), "service.name", "app")
      all == AddUsers(IF record.w3c \/ ownTrace THEN Add(own, "trace.id", TraceOf) ELSE own)
  IN IF includeFields /\ record # None
     THEN Add(all, "next_logger.field.otel.span_id", record.span) ELSE all

AddIds(f, trace, span) == Add(Add(f, "trace.id", trace), "span.id", span)

(* addCorrelationAttributes: of the span that was read, else of the record. *)
Correlation(f) ==
  IF spanContext # None THEN AddIds(f, spanContext.trace, spanContext.span)
  ELSE IF record.w3c THEN AddIds(f, TraceOf, record.span) ELSE f

-----------------------------------------------------------------------------
(* One call into the application: what it throws is reported. *)
Attempt(call, next) ==
  /\ pc = call
  /\ pc' = next
  /\ done' = IF call \in throwing THEN done ELSE done \cup {call}
  /\ UNCHANGED <<options, throwing, error, record, ownTrace, active, thrown>>

ReadActiveSpan ==
  /\ Attempt("activeSpan", IF "activeSpan" \in throwing \/ active = None THEN "build" ELSE "spanContext")
  /\ UNCHANGED <<spanContext, attributes>>

ReadSpanContext ==
  /\ Attempt("spanContext", "build")
  /\ spanContext' = IF "spanContext" \in throwing THEN None ELSE active
  /\ UNCHANGED attributes

BuildAttributes ==
  /\ pc = "build"
  /\ attributes' = Correlation(RecordAttributes)
  /\ pc' = "activeContext"
  /\ UNCHANGED <<options, throwing, error, record, ownTrace, active, spanContext, done, thrown>>

ReadActiveContext ==
  Attempt("activeContext", "emit") /\ UNCHANGED <<spanContext, attributes>>

(* A span was read: `span` in the code, valid or not. *)
HasSpan == "activeSpan" \in done /\ active # None

(* logger.emit(), whose failure is the write's unless failOpen. *)
Emit ==
  /\ pc = "emit"
  /\ done' = IF "emit" \in throwing THEN done ELSE done \cup {"emit"}
  /\ thrown' = ("emit" \in throwing /\ ~failOpen)
  /\ pc' = IF thrown' THEN "returned"
           ELSE IF HasSpan /\ emitSpanEvents THEN "isRecording" ELSE "recordMetric"
  /\ UNCHANGED <<options, throwing, error, record, ownTrace, active, spanContext, attributes>>

CheckRecording ==
  /\ Attempt("isRecording",
       IF "isRecording" \notin throwing /\ active.recording THEN "addEvent" ELSE "recordMetric")
  /\ UNCHANGED <<spanContext, attributes>>

AddEventThrows ==       \* a slip: a span event that fails ends what is left of the write
  /\ pc = "addEvent"
  /\ pc' = IF "addEvent" \in throwing THEN "returned"
           ELSE IF ~error THEN "recordMetric"
           ELSE IF recordExceptions THEN "recordException" ELSE "setStatus"
  /\ done' = IF "addEvent" \in throwing THEN done ELSE done \cup {"addEvent"}
  /\ UNCHANGED <<options, throwing, error, record, ownTrace, active, thrown, spanContext, attributes>>

AddEvent ==
  /\ Attempt("addEvent",
       IF ~error THEN "recordMetric" ELSE IF recordExceptions THEN "recordException" ELSE "setStatus")
  /\ UNCHANGED <<spanContext, attributes>>

RecordException ==
  Attempt("recordException", "setStatus") /\ UNCHANGED <<spanContext, attributes>>

SetStatus ==
  Attempt("setStatus", "recordMetric") /\ UNCHANGED <<spanContext, attributes>>

(* The two metrics have one try around them without onError, else each its own. *)
RecordMetric ==
  /\ Attempt("recordMetric",
       IF error /\ (onError \/ "recordMetric" \notin throwing) THEN "errorMetric" ELSE "returned")
  /\ UNCHANGED <<spanContext, attributes>>

RecordErrorMetric ==
  Attempt("errorMetric", "returned") /\ UNCHANGED <<spanContext, attributes>>

Next ==
  \/ ReadActiveSpan \/ ReadSpanContext \/ BuildAttributes \/ ReadActiveContext \/ Emit
  \/ CheckRecording \/ AddEvent \/ RecordException \/ SetStatus
  \/ RecordMetric \/ RecordErrorMetric

Spec == Init /\ [][Next]_vars

-----------------------------------------------------------------------------
(* A span id that the transport derives is emitted with the trace of the    *)
(* same span: the one active at the write, or the one the record was made   *)
(* in, never a mixture, also where the limit on attributes cuts the list    *)
(* (152-169, 440-464); except for a record without an active span in which  *)
(* the application put a trace of its own first: the span of the context    *)
(* then comes with that trace.                                              *)
CorrelationPaired ==
  "span.id" \in DOMAIN attributes =>
    \E s \in Spans :
      /\ attributes["span.id"] = s.span
      /\ "trace.id" \in DOMAIN attributes
      /\ attributes["trace.id"] = IF spanContext = None /\ ownTrace THEN "own" ELSE s.trace

(* The write throws exactly if emit() does and the transport is not to fail *)
(* open; else every call that the span, the level and the options ask for   *)
(* was made and each that works succeeded, whichever others threw (592-594, *)
(* 654-714); only the error metric shares the fate of the other metric,     *)
(* without onError.                                                         *)
FailuresAreIsolated ==
  LET span == "activeSpan" \notin throwing /\ active # None
      events == span /\ emitSpanEvents /\ "isRecording" \notin throwing /\ active.recording
      asked == {"activeSpan", "activeContext", "emit", "recordMetric"}
               \cup (IF span THEN {"spanContext"} ELSE {})
               \cup (IF span /\ emitSpanEvents THEN {"isRecording"} ELSE {})
               \cup (IF events THEN {"addEvent"} ELSE {})
               \cup (IF events /\ error THEN {"setStatus"} ELSE {})
               \cup (IF events /\ error /\ recordExceptions THEN {"recordException"} ELSE {})
               \cup (IF error /\ (onError \/ "recordMetric" \notin throwing) THEN {"errorMetric"} ELSE {})
  IN pc = "returned" =>
       /\ thrown <=> "emit" \in throwing /\ ~failOpen
       /\ ~thrown => done = asked \ throwing
=============================================================================
