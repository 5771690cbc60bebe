------------------------------ MODULE LogRecords ------------------------------
(***************************************************************************)
(* How BaseLogger and LogEvent (src/base-logger.ts:1026-1460) put a record *)
(* together: loggers whose setters write through into an options object    *)
(* that anew() copies and the caller may share, events that collect        *)
(* fields, traces and users in any order, the ambient context, which is    *)
(* read when the record is made, and enrichEvent of                        *)
(* src/execution-context-shared.ts:190, which puts it on the event.        *)
(*                                                                         *)
(* A field's value is what set it last; user stands for the user blocks,   *)
(* traces for tags, which are merged alike. The lists that are only        *)
(* appended to (users, context, meta, the stack trace) and what a record   *)
(* copies as it is (id, time, level, message) are left out.                *)
(***************************************************************************)
EXTENDS Naturals, Sequences, FiniteSets, SequencesExt

CONSTANTS
  MaxLoggers,             \* bound: loggers constructed
  MaxCalls,               \* bound: calls of setters and of an event's methods
  RuntimeKeys,            \* the fields getRuntimeFields() returns
  Trackers,               \* error-tracking destinations
  Contexts                \* what the context provider may return

Loggers == 1..MaxLoggers
None == "none"

VARIABLES
  options,                \* LoggerOptions objects, one per logger, unless it is shared
  optionsOf,              \* of each logger its options object, 0 before it is constructed
  tracker,                \* the error-tracking transport in each logger's transports
  calls,                  \* calls so far
  asked,                  \* history: the settings each logger was given or inherited
  sharing,                \* history: loggers that the caller gave one options object
  fields, traceId, traceIds,     \* of the one event
  ambient,                \* what the provider returns now
  record,                 \* the event's record, <<>> before toJSON()
  given,                  \* history: the traces the event was given before that
  enriched                \* history: the context enrichEvent put on it since it was last changed

loggerVars == <<options, optionsOf, tracker, asked, sharing>>
eventVars == <<fields, traceId, traceIds, ambient, record, given, enriched>>
vars == <<loggerVars, calls, eventVars>>

Defaults == [provider |-> None, otel |-> TRUE, errorTracking |-> None]

Init ==
  /\ options = [l \in Loggers |-> Defaults]
  /\ optionsOf = [l \in Loggers |-> 0]
  /\ tracker = [l \in Loggers |-> None]
  /\ asked = [l \in Loggers |-> Defaults]
  /\ sharing = {}
  /\ calls = 0
  /\ fields = <<>> /\ traceId = None /\ traceIds = <<>>
  /\ ambient = <<>> /\ record = <<>> /\ given = {} /\ enriched = <<>>

-----------------------------------------------------------------------------
Exists(l) == optionsOf[l] # 0
Settings(l) == options[optionsOf[l]]

Called == calls < MaxCalls /\ calls' = calls + 1

(* The constructor keeps the options it is given. *)
Construct(l, o, settings) ==
  /\ ~Exists(l) /\ \A m \in 1..(l - 1) : Exists(m)
  /\ options' = [options EXCEPT ![o] = settings]
  /\ optionsOf' = [optionsOf EXCEPT ![l] = o]
  /\ tracker' = [tracker EXCEPT ![l] = settings.errorTracking]
  /\ asked' = [asked EXCEPT ![l] = settings]
  /\ UNCHANGED <<calls, eventVars>>

(* new BaseLogger(options): with an object of its own, or another's. *)
New(l) ==
  \/ Construct(l, l, Defaults) /\ UNCHANGED sharing
  \/ \E m \in Loggers :
       /\ Exists(m)
       /\ Construct(l, optionsOf[m], Settings(m))
       /\ sharing' = sharing \cup {l, m}

AnewOnSameOptions(l, m) ==       \* a slip: the child is given this.options
  Exists(m) /\ Construct(l, optionsOf[m], Settings(m)) /\ UNCHANGED sharing

(* m.anew(overrides): the spread makes a new object. *)
Anew(l, m) ==
  /\ Exists(m)
  /\ \/ Construct(l, l, Settings(m))
     \/ \E t \in Trackers : Construct(l, l, [Settings(m) EXCEPT !.errorTracking = t])
  /\ UNCHANGED sharing

WriteThrough(l, setting, value) ==
  /\ Exists(l) /\ Called
  /\ options' = [options EXCEPT ![optionsOf[l]][setting] = value]
  /\ asked' = [asked EXCEPT ![l][setting] = value]
  /\ UNCHANGED <<optionsOf, sharing, eventVars>>

(* setContextProvider, and setALS, which calls it. *)
SetContextProvider(l) ==
  \E p \in {"als", None} : WriteThrough(l, "provider", p) /\ UNCHANGED tracker

(* setOtelEnabled, useOtel, notOtel. *)
SetOtelEnabled(l) ==
  \E b \in BOOLEAN : WriteThrough(l, "otel", b) /\ UNCHANGED tracker

SetErrorTrackingLocally(l) ==       \* a slip: the options are not told
  /\ Exists(l) /\ Called
  /\ \E t \in Trackers :
       /\ tracker' = [tracker EXCEPT ![l] = t]
       /\ asked' = [asked EXCEPT ![l].errorTracking = t]
  /\ UNCHANGED <<options, optionsOf, sharing, eventVars>>

(* setErrorTracking, setErrorTrackingUrl: in the place of the one there was. *)
SetErrorTracking(l) ==
  \E t \in Trackers :
    WriteThrough(l, "errorTracking", t) /\ tracker' = [tracker EXCEPT ![l] = t]

-----------------------------------------------------------------------------
(* The event: addFields, addTrace with and without makeFirst, and what the *)
(* application's context does meanwhile.                                   *)
Spread(f, g) == [k \in DOMAIN f \cup DOMAIN g |-> IF k \in DOMAIN g THEN g[k] ELSE f[k]]
AddTo(s, x) == IF Contains(s, x) THEN s ELSE Append(s, x)
AddAll(s, list) ==
  LET r[i \in 0..Len(list)] == IF i = 0 THEN s ELSE AddTo(r[i - 1], list[i]) IN r[Len(list)]
OneOf(id) == IF id = None THEN <<>> ELSE <<id>>
Only(k, v) == [x \in {k} |-> v]

Give(ids) == given' = IF record = <<>> THEN given \cup ids ELSE given

AddFields ==
  /\ Called
  /\ \E k \in {"a", "b"} : fields' = Spread(fields, Only(k, "event"))
  /\ enriched' = <<>>
  /\ UNCHANGED <<loggerVars, traceId, traceIds, ambient, record, given>>

AddsTrace(id, makeFirst) ==
  /\ Called
  /\ traceId' = IF traceId = None \/ makeFirst THEN id ELSE traceId
  /\ Give({id})
  /\ enriched' = IF makeFirst THEN <<>> ELSE enriched
  /\ UNCHANGED <<loggerVars, fields, ambient, record>>

AddTraceFirstOnly(id, makeFirst) ==       \* a slip: a later trace is not kept
  AddsTrace(id, makeFirst) /\ traceIds' = OneOf(traceId')

AddTrace(id, makeFirst) ==
  AddsTrace(id, makeFirst) /\ traceIds' = AddTo(traceIds, id)

ContextChanges(c) ==
  /\ Called
  /\ ambient' = <<c>>
  /\ UNCHANGED <<loggerVars, fields, traceId, traceIds, record, given, enriched>>

EnrichByAppending(c) ==       \* a slip: the context's trace does not come first
  /\ fields' = Spread(fields, c.fields)
  /\ traceId' = IF traceId = None /\ c.traceId # None THEN c.traceId ELSE traceId
  /\ traceIds' = AddAll(traceIds, OneOf(c.traceId) \o c.traceIds)

(* What enrichEvent does to the event. *)
Enrich(c) ==
  /\ fields' = Spread(fields, c.fields)
  /\ traceId' = IF c.traceId # None THEN c.traceId
                ELSE IF traceId = None /\ c.traceIds # <<>> THEN c.traceIds[1] ELSE traceId
  /\ traceIds' = AddAll(traceIds, OneOf(c.traceId) \o c.traceIds)

EnrichEvent ==
  /\ Called
  /\ ambient # <<>>
  /\ Enrich(ambient[1])
  /\ Give(ToSet(OneOf(ambient[1].traceId) \o ambient[1].traceIds))
  /\ enriched' = ambient
  /\ UNCHANGED <<loggerVars, ambient, record>>

-----------------------------------------------------------------------------
(* toJSON: called by getJSON(), and by send() through emitEvent. *)
LoggerFields == [x \in {"a"} |-> "logger"]
RuntimeFields == [x \in RuntimeKeys |-> "runtime"]

RecordOf(f, id, ids, context) ==
  LET c == IF context = <<>> THEN [fields |-> <<>>, traceId |-> None, traceIds |-> <<>>]
           ELSE context[1]
  IN [fields   |-> Spread(Spread(Spread(LoggerFields, c.fields), f), RuntimeFields),
      traceId  |-> IF id # None THEN id ELSE c.traceId,
      traceIds |-> AddAll(ids, OneOf(c.traceId) \o c.traceIds)]

ToJSON ==
  /\ record = <<>>
  /\ record' = <<RecordOf(fields, traceId, traceIds, ambient)>>
  /\ UNCHANGED <<loggerVars, calls, fields, traceId, traceIds, ambient, given, enriched>>

NextLogger ==
  \E l \in Loggers :
    \/ New(l) \/ \E m \in Loggers : Anew(l, m)
    \/ SetContextProvider(l) \/ SetOtelEnabled(l) \/ SetErrorTracking(l)

NextEvent ==
  \/ AddFields \/ EnrichEvent \/ ToJSON
  \/ \E c \in Contexts : ContextChanges(c)
  \/ \E makeFirst \in BOOLEAN, id \in {"t1", "t2"} : AddTrace(id, makeFirst)

Next == NextLogger \/ NextEvent

Spec == Init /\ [][Next]_vars

-----------------------------------------------------------------------------
(* A logger has the settings that were made on it, or on the logger it was  *)
(* derived from before that, and no others, whatever parents, children and  *)
(* siblings are told in between, and its error-tracking transport is the    *)
(* one of its options (1339-1375, 1449-1460), as long as the application    *)
(* does not construct two loggers with one options object, which they then  *)
(* share.                                                                   *)
SettingsAreOwn ==
  \A l \in Loggers : Exists(l) /\ l \notin sharing =>
    Settings(l) = asked[l] /\ tracker[l] = asked[l].errorTracking

(* A record has every trace its event was given by then, in any order and   *)
(* by any of the interfaces, and its own trace is among them (1084-1094,    *)
(* 1189-1196).                                                              *)
RecordCorrelates ==
  record # <<>> =>
    /\ given \subseteq ToSet(record[1].traceIds)
    /\ record[1].traceId # None => Contains(record[1].traceIds, record[1].traceId)

(* An event enriched with a context keeps it when its record is made in     *)
(* another context, or in none: that one's trace is the first, its fields   *)
(* win (execution-context-shared.ts:190-204), except over runtime fields.   *)
EnrichedTravels ==
  record = <<>> /\ enriched # <<>> =>
    LET r == RecordOf(fields, traceId, traceIds, ambient)
        c == enriched[1]
    IN /\ c.traceId # None => r.traceId = c.traceId
       /\ \A k \in DOMAIN c.fields \ RuntimeKeys : r.fields[k] = c.fields[k]
=============================================================================
