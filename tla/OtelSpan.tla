------------------------------- MODULE OtelSpan -------------------------------
(***************************************************************************)
(* withOpenTelemetrySpan of src/otel.ts:785-990: application work that runs *)
(* in a span of an injected tracer, with a log record at its start and its *)
(* end. The tracer may fail before it calls back, which leaves the work to *)
(* run in a substitute span, or after it; every method of the span may     *)
(* throw, which is logged; and every record that is sent is waited for,    *)
(* without a limit.                                                        *)
(*                                                                         *)
(* Left out: what the records say, and times.                              *)
(***************************************************************************)
EXTENDS Naturals

(* The span's methods that are called once, each of which may throw. *)
Operations == {"okStatus", "recordException", "errorStatus", "end"}

VARIABLES
  logs,                   \* lifecycleLevel is not false
  failOnStartError,
  failing,                \* the span's operations that throw
  sinks,                  \* the logger's transports settle, or hang
  tracer,                 \* "calls", "fails" before the callback or "failsLate" after it
  at,                     \* where withOpenTelemetrySpan is
  work,                   \* the application's callback: "idle", "running", "resolved", "rejected"
  runs,                   \* how often it was called
  logging,                \* the operation whose failure is logged now
  status,                 \* the span's: "unset", "ok", "error"
  ended,                  \* how often the span was ended
  result                  \* "none", or what the caller gets

options == <<logs, failOnStartError, failing, sinks, tracer>>
vars == <<options, at, work, runs, logging, status, ended, result>>

Init ==
  /\ logs \in BOOLEAN /\ failOnStartError \in BOOLEAN
  /\ failing \in SUBSET Operations
  /\ sinks \in {"settle", "hang"}
  /\ tracer \in {"calls", "fails", "failsLate"}
  /\ at = "start" /\ work = "idle" /\ runs = 0
  /\ logging = "none" /\ status = "unset" /\ ended = 0 /\ result = "none"

Go(place) == at' = place
Stay(S) == UNCHANGED <<options, S>>

-----------------------------------------------------------------------------
(* startActiveSpan. *)
StartSpan ==
  /\ at = "start"
  /\ Go(IF tracer = "fails" THEN "startFailed" ELSE IF logs THEN "startLog" ELSE "call")
  /\ Stay(<<work, runs, logging, status, ended, result>>)

(* A record that was sent, and waited for, is settled, failed or not. *)
After(place) ==
  CASE place = "startLog" -> "call"
    [] place = "okLog" -> "end"
    [] place = "errorLog" -> "end"
    [] place = "startFailed" -> "fallback"

LogSettles ==
  /\ sinks = "settle" /\ logging = "none"
  /\ at \in {"startLog", "okLog", "errorLog"} \/ (at = "startFailed" /\ ~failOnStartError)
  /\ Go(After(at))
  /\ Stay(<<work, runs, logging, status, ended, result>>)

StartRethrown ==
  /\ at = "startFailed" /\ failOnStartError /\ sinks = "settle"
  /\ Go("done")
  /\ result' = "tracer error"
  /\ Stay(<<work, runs, logging, status, ended>>)

(* callback(span), in the span or in the substitute. *)
Call ==
  /\ at \in {"call", "fallback"} /\ work = "idle"
  /\ work' = "running"
  /\ runs' = runs + 1
  /\ Stay(<<at, logging, status, ended, result>>)

WorkSettles(outcome) ==
  /\ work = "running"
  /\ work' = outcome
  /\ IF at = "fallback" THEN Go("done") /\ result' = outcome
     ELSE /\ Go(IF outcome = "resolved" THEN "okStatus" ELSE "recordException")
          /\ UNCHANGED result
  /\ Stay(<<runs, logging, status, ended>>)

-----------------------------------------------------------------------------
(* What comes after each of the span's operations, and what it does. *)
Next1(place) ==
  CASE place = "okStatus" -> IF logs THEN "okLog" ELSE "end"
    [] place = "recordException" -> "errorStatus"
    [] place = "errorStatus" -> "errorLog"
    [] place = "end" -> "settle"

Effect(place) ==
  /\ status' = CASE place = "okStatus" -> "ok" [] place = "errorStatus" -> "error" [] OTHER -> status
  /\ ended' = IF place = "end" THEN ended + 1 ELSE ended

(* invokeSpanSafely: a failure is logged, and the record waited for. *)
Invoke ==
  /\ at \in Operations /\ logging = "none"
  /\ IF at \in failing
     THEN logging' = at /\ UNCHANGED <<at, status, ended>>
     ELSE Effect(at) /\ Go(Next1(at)) /\ UNCHANGED logging
  /\ Stay(<<work, runs, result>>)

FailureThrown ==       \* a slip: the failure of an operation leaves the callback
  /\ logging # "none"
  /\ logging' = "none"
  /\ Go("settle")
  /\ Stay(<<work, runs, status, ended, result>>)

FailureRetried ==      \* a slip: an operation that failed is tried again
  /\ logging # "none" /\ sinks = "settle"
  /\ logging' = "none"
  /\ Stay(<<at, work, runs, status, ended, result>>)

FailureLogged ==
  /\ logging # "none" /\ sinks = "settle"
  /\ logging' = "none"
  /\ Go(Next1(logging))
  /\ Stay(<<work, runs, status, ended, result>>)

CallAgain ==       \* a slip: a failing tracer always means that the work was not started
  /\ at = "settle"
  /\ IF tracer = "failsLate" /\ ~failOnStartError
     THEN Go("fallback") /\ work' = "idle" /\ UNCHANGED result
     ELSE Go("done") /\ result' = (IF tracer = "failsLate" THEN "tracer error" ELSE work)
          /\ UNCHANGED work
  /\ Stay(<<runs, logging, status, ended>>)

(* The tracer returns what the callback does, or fails now. *)
Settle ==
  /\ at = "settle"
  /\ Go("done")
  /\ result' = IF tracer = "failsLate" THEN "tracer error" ELSE work
  /\ Stay(<<work, runs, logging, status, ended>>)

Advance == StartSpan \/ LogSettles \/ StartRethrown \/ Call \/ Invoke \/ FailureLogged \/ Settle
Next == Advance \/ \E outcome \in {"resolved", "rejected"} : WorkSettles(outcome)

Spec == Init /\ [][Next]_vars /\ WF_vars(Advance)

-----------------------------------------------------------------------------
(* The application's work runs once, whatever tracer, span and sinks do,    *)
(* unless the caller asked for a failure to start to be his; and its result *)
(* is the caller's, except over a tracer that fails after the work ran      *)
(* (850-853, 964-988).                                                      *)
WorkRunsOnce ==
  /\ runs <= 1
  /\ result # "none" =>
       \/ runs = 1 /\ result = work
       \/ result = "tracer error" /\ (tracer = "failsLate" \/ (failOnStartError /\ runs = 0))

(* A span that the work ran in is ended, once, when the caller is answered, *)
(* with the status of the work, whatever else of the span fails (892-962).  *)
SpanIsEnded ==
  result # "none" /\ tracer # "fails" =>
    /\ "end" \notin failing => ended = 1
    /\ work = "resolved" /\ "okStatus" \notin failing => status = "ok"
    /\ work = "rejected" /\ "errorStatus" \notin failing => status = "error"

(* If the transports settle, work that settles is answered; else a sink     *)
(* that hangs holds up the work itself (883-890).                           *)
IsAnswered ==
  sinks = "settle" => (work \in {"resolved", "rejected"}) ~> (result # "none")
=============================================================================
