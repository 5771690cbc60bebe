----------------------------- MODULE WorkerLoggers -----------------------------
(***************************************************************************)
(* The loggers of runtimes that stop when nothing is waited for:           *)
(* CloudflareWorkerLogger (src/cloudflare-worker-logger.ts), and EdgeLogger *)
(* (src/edge-logger.ts), which has no forRequest() and forScheduled(). The *)
(* runtime handles several invocations at once, each with an execution     *)
(* context whose waitUntil() keeps it, and the isolate, alive; an isolate  *)
(* with nothing to do may stop and cut what its transports still write.    *)
(*                                                                         *)
(* A transport's promise settles when the record is written, or, if it is  *)
(* buffered, when the record is queued. Of the runtime fields only the     *)
(* request and the cron trigger are kept.                                  *)
(***************************************************************************)
EXTENDS Naturals, Sequences

CONSTANTS
  Requests, Crons,        \* invocations by a fetch and by a cron trigger
  MaxLoggers,             \* bound: loggers made
  MaxEmits                \* bound: records emitted

Invocations == Requests \cup Crons
None == "none"

VARIABLES
  buffered,
  running, responded, over,    \* invocations: handler runs; it has returned; its context is dead
  made,                   \* the loggers, as their options
  emitted                 \* the records, with how far their delivery came

vars == <<buffered, running, responded, over, made, emitted>>

(* `given`: each binding on the way to this logger came with its context. *)
Unbound == [request |-> None, cron |-> None, context |-> None, given |-> TRUE]

Init ==
  /\ buffered \in BOOLEAN
  /\ running = {} /\ responded = {} /\ over = {}
  /\ made = <<Unbound>> /\ emitted = <<>>

-----------------------------------------------------------------------------
(* { ...f, ...g } *)
Spread(f, g) == [k \in DOMAIN f \cup DOMAIN g |-> IF k \in DOMAIN g THEN g[k] ELSE f[k]]

ChildWithAll(options, drop, overrides) ==       \* a slip: nothing is dropped
  Spread(options, overrides)

(* childWithout: the other trigger is dropped, a context not given inherited. *)
ChildWithout(options, drop, overrides) ==
  Spread([options EXCEPT ![drop] = None], overrides)

(* What forRequest and forScheduled pass on: the trigger and, if given, `ctx`. *)
Binding(l, i, withContext) ==
  Spread([given |-> l.given /\ withContext],
         Spread(IF i \in Requests THEN [request |-> i] ELSE [cron |-> i],
                IF withContext THEN [context |-> i] ELSE <<>>))

Make(l) == made' = Append(made, l) /\ UNCHANGED <<buffered, running, responded, over, emitted>>

(* In a handler: forRequest() of a request, forScheduled() of a trigger. *)
ForInvocation(n, i, withContext) ==
  /\ Len(made) < MaxLoggers /\ i \in running
  /\ Make(ChildWithout(made[n], IF i \in Requests THEN "cron" ELSE "request",
                       Binding(made[n], i, withContext)))

(* anew(): all is inherited. *)
Anew(n) == Len(made) < MaxLoggers /\ Make(made[n])

Alive(context) == context \in Invocations /\ context \notin over

EmitUnwaited(n, i) ==       \* a slip: the promise is not handed to the context
  /\ Len(emitted) < MaxEmits /\ i \in running
  /\ emitted' = Append(emitted, [logger |-> made[n], in |-> i, waited |-> None, state |-> "pending"])
  /\ UNCHANGED <<buffered, running, responded, over, made>>

(* emitEvent of a logger, by the handler of i. What a dead context throws is *)
(* reported, and the record goes on without it.                              *)
Emit(n, i) ==
  LET context == made[n].context IN
  /\ Len(emitted) < MaxEmits /\ i \in running
  /\ emitted' = Append(emitted,
       [logger |-> made[n], in |-> i, waited |-> IF Alive(context) THEN context ELSE None,
        state |-> "pending"])
  /\ UNCHANGED <<buffered, running, responded, over, made>>

(* The transport's promise settles; what was queued is written. *)
Progress(d) ==
  /\ emitted[d].state \in {"pending", "queued"}
  /\ emitted' = [emitted EXCEPT ![d].state = IF @ = "pending" /\ buffered THEN "queued" ELSE "written"]
  /\ UNCHANGED <<buffered, running, responded, over, made>>

(* The runtime: an invocation begins, its handler returns, its context dies *)
(* when what it waits for has settled, and an idle isolate stops.           *)
Begin(i) ==
  /\ i \in Invocations \ (running \cup responded)
  /\ running' = running \cup {i}
  /\ UNCHANGED <<buffered, responded, over, made, emitted>>

Respond(i) ==
  /\ i \in running
  /\ running' = running \ {i} /\ responded' = responded \cup {i}
  /\ UNCHANGED <<buffered, over, made, emitted>>

End(i) ==
  /\ i \in responded \ over
  /\ \A d \in DOMAIN emitted : emitted[d].waited = i => emitted[d].state # "pending"
  /\ over' = over \cup {i}
  /\ UNCHANGED <<buffered, running, responded, made, emitted>>

Unwritten == {d \in DOMAIN emitted : emitted[d].state \in {"pending", "queued"}}

Stop ==
  /\ running = {} /\ responded = over /\ Unwritten # {}
  /\ emitted' = [d \in DOMAIN emitted |->
       IF d \in Unwritten THEN [emitted[d] EXCEPT !.state = "cut"] ELSE emitted[d]]
  /\ UNCHANGED <<buffered, running, responded, over, made>>

Next ==
  \/ \E n \in DOMAIN made, i \in Invocations :
       Emit(n, i) \/ \E withContext \in BOOLEAN : ForInvocation(n, i, withContext)
  \/ \E n \in DOMAIN made : Anew(n)
  \/ \E d \in DOMAIN emitted : Progress(d)
  \/ \E i \in Invocations : Begin(i) \/ Respond(i) \/ End(i)
  \/ Stop

Spec == Init /\ [][Next]_vars

-----------------------------------------------------------------------------
(* What the handler of an invocation logs through a logger bound to that    *)
(* invocation's context is written before the isolate stops, other          *)
(* invocations ending meanwhile or not (174-182; src/edge-logger.ts:41-49), *)
(* unless the transport is buffered: then only its queueing is waited for.  *)
WaitedFor ==
  \A d \in DOMAIN emitted :
    LET r == emitted[d] IN
    r.state = "cut" /\ r.logger.context = r.in => buffered

(* A logger carries one trigger, the one whose context waits for it, if the *)
(* context was given at every binding (184-241); without it, a logger of a  *)
(* later request keeps the context of an earlier one.                       *)
OneInvocation ==
  \A n \in DOMAIN made :
    LET l == made[n] IN
    /\ None \in {l.request, l.cron}
    /\ l.given => l.context \in {l.request, l.cron}
=============================================================================
