------------------------- MODULE ShutdownCoordinator -------------------------
(***************************************************************************)
(* ShutdownCoordinator of src/shutdown.ts: request() drains first and      *)
(* forces next, a grace timer forces a drain that takes too long, and the  *)
(* first of the two to finish stops the coordinator, waits for the         *)
(* lifecycle observers, flushes once and resolves wait().                  *)
(*                                                                         *)
(* An action is one JavaScript turn: a call of request(), the timer, or    *)
(* the continuation of a hook's promise. The application's hooks are the   *)
(* environment: drain, force and flush resolve, reject or never settle;    *)
(* those in Throwing may throw instead of returning a promise; an observer *)
(* (onEvent) returns nothing, or a promise that is awaited before flush;   *)
(* a Reentrant observer may call request() from inside its callback.       *)
(* Left out: the trigger names, elapsed times and the list of errors.      *)
(***************************************************************************)
EXTENDS Naturals, Sequences

CONSTANTS
  MaxRequests,            \* bound: calls of request() by the application
  Throwing,               \* which of the hooks "drain", "force" may throw
  Reentrant               \* an observer may call request()

ASSUME HooksAssumption ==
  /\ MaxRequests \in Nat
  /\ Throwing \subseteq {"drain", "force"}
  /\ Reentrant \in BOOLEAN

Events == {"draining", "drain-error", "forcing", "force-error", "stopped"}

VARIABLES
  phase,
  attempt,                \* requests so far, the timer's included
  forced,
  timer,                  \* the grace timer is armed
  finished,
  drain, force, flush,    \* each hook: "none", "pending", "done", "failed", "threw"
  observers,              \* lifecycle events whose observer has not settled
  completed,              \* wait() has resolved
  calls,                  \* history: the hooks in the order they were called
  reentered               \* history: an observer called request() inside #beginDrain

vars == <<phase, attempt, forced, timer, finished, drain, force, flush,
          observers, completed, calls, reentered>>

(* What a hook's call leaves behind: a pending promise, or an exception. *)
Returned(hook) == {"pending"} \cup (IF hook \in Throwing THEN {"threw"} ELSE {})

Init ==
  /\ phase = "running"
  /\ attempt = 0
  /\ forced = FALSE
  /\ timer = FALSE
  /\ finished = FALSE
  /\ drain = "none" /\ force = "none" /\ flush = "none"
  /\ observers = {}
  /\ completed = FALSE
  /\ calls = <<>>
  /\ reentered = FALSE

-----------------------------------------------------------------------------
(* #transition: each event's observer settles at once or becomes a task. *)
Transition(next, events) ==
  /\ phase' = next
  /\ \E tasks \in SUBSET events : observers' = observers \cup tasks

BeginDrain ==
  /\ phase = "running"
  /\ Transition("draining", {"draining"})
  /\ timer' = TRUE
  /\ drain' \in Returned("drain")
  /\ calls' = Append(calls, "drain")
  /\ UNCHANGED <<forced, finished, force, flush, completed, reentered>>

BeginForceKeepsTimer(events) ==         \* a slip: #clearTimer is forgotten
  /\ phase \in {"running", "draining"}
  /\ forced' = TRUE
  /\ Transition("forcing", events \cup {"forcing"})
  /\ force' \in Returned("force")
  /\ calls' = Append(calls, "force")
  /\ UNCHANGED <<timer, finished, flush, completed, reentered>>

BeginForce(events) ==
  /\ phase \in {"running", "draining"}
  /\ forced' = TRUE
  /\ timer' = FALSE
  /\ Transition("forcing", events \cup {"forcing"})
  /\ force' \in Returned("force")
  /\ calls' = Append(calls, "force")
  /\ UNCHANGED <<finished, flush, completed, reentered>>

(* #finish up to its first await. *)
Finish(events) ==
  /\ timer' = FALSE
  /\ finished' = TRUE
  /\ Transition("stopped", events \cup {"stopped"})

-----------------------------------------------------------------------------
(* request(). The attempt is counted even when nothing else happens. *)
Request(force_) ==
  /\ ~finished
  /\ attempt < MaxRequests
  /\ attempt' = attempt + 1
  /\ IF phase = "running" /\ ~force_ THEN BeginDrain
     ELSE IF phase = "running" \/ phase = "draining"
     THEN BeginForce({}) /\ UNCHANGED drain
     ELSE UNCHANGED <<phase, forced, timer, finished, drain, force, flush,
                      observers, completed, calls, reentered>>

(* request() whose "draining" observer calls request() in turn: the forced  *)
(* phase begins inside #transition, after which #beginDrain goes on to arm  *)
(* the timer and call drain. From the other events' observers a request     *)
(* changes nothing that a request just after them would not.                *)
ReenteredRequest ==
  /\ Reentrant
  /\ phase = "running"
  /\ attempt + 2 <= MaxRequests
  /\ attempt' = attempt + 2
  /\ reentered' = TRUE
  /\ Transition("forcing", {"draining", "forcing"})
  /\ forced' = TRUE
  /\ timer' = TRUE
  /\ force' \in Returned("force")
  /\ drain' \in Returned("drain")
  /\ calls' = calls \o <<"force", "drain">>
  /\ UNCHANGED <<finished, flush, completed>>

(* The grace timer's callback: request('timeout', force). *)
TimerFires ==
  /\ timer
  /\ attempt' = attempt + 1
  /\ IF phase = "draining"
     THEN BeginForce({}) /\ UNCHANGED drain
     ELSE /\ timer' = FALSE
          /\ UNCHANGED <<phase, forced, finished, drain, force, flush,
                         observers, completed, calls, reentered>>

DrainResolvesAnyway ==                  \* a slip: the phase is not looked at
  /\ drain = "pending"
  /\ drain' = "done"
  /\ Finish({})
  /\ UNCHANGED <<attempt, forced, force, flush, completed, calls, reentered>>

DrainResolves ==
  /\ drain = "pending"
  /\ drain' = "done"
  /\ IF phase = "draining"
     THEN Finish({})
     ELSE UNCHANGED <<phase, timer, finished, observers>>
  /\ UNCHANGED <<attempt, forced, force, flush, completed, calls, reentered>>

DrainRejectsIgnored ==                  \* a slip: the error is only recorded
  /\ drain = "pending"
  /\ drain' = "failed"
  /\ timer' = FALSE
  /\ UNCHANGED <<phase, attempt, forced, finished, force, flush, observers,
                 completed, calls, reentered>>

DrainRejectsReopens ==                  \* a slip: a later request may retry
  /\ drain = "pending"
  /\ drain' = "failed"
  /\ phase' = "running"
  /\ timer' = FALSE
  /\ UNCHANGED <<attempt, forced, finished, force, flush, observers,
                 completed, calls, reentered>>

DrainRejects ==
  /\ drain = "pending"
  /\ drain' = "failed"
  /\ IF phase = "draining"
     THEN BeginForce({"drain-error"})
     ELSE UNCHANGED <<phase, forced, timer, finished, force, flush,
                      observers, completed, calls, reentered>>
  /\ UNCHANGED attempt

(* The forced phase stops the coordinator whether or not force succeeded. *)
ForceSettles ==
  /\ force = "pending"
  /\ \/ force' = "done" /\ Finish({})
     \/ force' = "failed" /\ Finish({"force-error"})
  /\ UNCHANGED <<attempt, forced, drain, flush, completed, calls, reentered>>

ObserverSettles ==
  /\ \E e \in observers : observers' = observers \ {e}
  /\ UNCHANGED <<phase, attempt, forced, timer, finished, drain, force, flush,
                 completed, calls, reentered>>

StartFlushTwice ==                      \* a slip: nothing says it ran before
  /\ finished /\ ~completed
  /\ observers = {}
  /\ Len(calls) <= 4
  /\ flush' = "pending"
  /\ calls' = Append(calls, "flush")
  /\ UNCHANGED <<phase, attempt, forced, timer, finished, drain, force,
                 observers, completed, reentered>>

(* #finish after Promise.all of the observer tasks. No transition follows *)
(* "stopped", so the tasks it awaits are all there are.                   *)
StartFlush ==
  /\ finished
  /\ observers = {}
  /\ flush = "none"
  /\ flush' = "pending"
  /\ calls' = Append(calls, "flush")
  /\ UNCHANGED <<phase, attempt, forced, timer, finished, drain, force,
                 observers, completed, reentered>>

FlushSettles ==
  /\ flush = "pending"
  /\ flush' \in {"done", "failed"}
  /\ completed' = TRUE
  /\ UNCHANGED <<phase, attempt, forced, timer, finished, drain, force,
                 observers, calls, reentered>>

-----------------------------------------------------------------------------
Next ==
  \/ \E force_ \in BOOLEAN : Request(force_)
  \/ ReenteredRequest
  \/ TimerFires
  \/ DrainResolves \/ DrainRejects
  \/ ForceSettles
  \/ ObserverSettles
  \/ StartFlush \/ FlushSettles

Spec == Init /\ [][Next]_vars

(* The timer fires and #finish goes on. No hook of the application and no   *)
(* observer need ever settle: the code awaits them without a deadline.      *)
Fairness == WF_vars(TimerFires) /\ WF_vars(StartFlush)

-----------------------------------------------------------------------------
HookStates == {"none", "pending", "done", "failed", "threw"}

TypeOK ==
  /\ phase \in {"running", "draining", "forcing", "stopped"}
  /\ attempt \in Nat
  /\ forced \in BOOLEAN /\ timer \in BOOLEAN
  /\ finished \in BOOLEAN /\ completed \in BOOLEAN
  /\ drain \in HookStates /\ force \in HookStates /\ flush \in HookStates
  /\ observers \subseteq Events
  /\ calls \in Seq({"drain", "force", "flush"}) /\ Len(calls) <= 3
  /\ reentered \in BOOLEAN

(* Whatever the race between requests, the timer and the hooks' promises,   *)
(* no hook is called twice and flush is the last (#finish is entered from   *)
(* two sides, 209-240), even when an observer calls request() from inside   *)
(* #beginDrain; unless one does, drain never comes after force.             *)
HooksInOrder ==
  /\ \A i, j \in 1..Len(calls) : calls[i] = calls[j] => i = j
  /\ \A i \in 1..Len(calls) : calls[i] = "flush" => i = Len(calls)
  /\ ~reentered =>
       calls \in {<<>>, <<"drain">>, <<"force">>, <<"drain", "force">>,
                 <<"drain", "flush">>, <<"force", "flush">>, <<"drain", "force", "flush">>}

(* flush runs only when the work it is meant to follow is over: the drain,  *)
(* or, once forced, the force hook, and every lifecycle record's observer.  *)
FlushAfterWork ==
  flush # "none" =>
    /\ IF forced THEN force \in {"done", "failed"} ELSE drain = "done"
    /\ observers = {}

(* The grace timer is armed exactly while a drain is in progress: it can    *)
(* neither be lost (a drain that hangs) nor outlive the drain. A re-entrant *)
(* observer does arm it inside the forced phase (202-207); even then a      *)
(* stopped coordinator leaves none behind to keep the process alive.        *)
TimerGuardsDrain ==
  /\ finished => ~timer
  /\ ~reentered => (timer <=> phase = "draining")

(* The three together: what no race of requests, timer and hooks may break. *)
PhasesKept == HooksInOrder /\ FlushAfterWork /\ TimerGuardsDrain

(* What the coordinator waits for without a deadline: the force hook, also  *)
(* one that threw (232), the observers (264) and flush (268).               *)
Held == force \in {"pending", "threw"} \/ observers # {} \/ flush = "pending"

(* Once asked to, the coordinator completes, or hangs for ever in one of    *)
(* those: never in a drain that hangs, throws or rejects, nor in a race of  *)
(* requests, timer and hooks that leaves nobody to go on (205-221).         *)
Completes == attempt > 0 ~> completed \/ []Held

(* What docs/AUDIT-2026-08-polyglot-context-shutdown.md:45 says of shutdown *)
(* in every SDK: "Force hooks and telemetry flushing cannot hold the        *)
(* process indefinitely". This coordinator keeps it of the drain only.      *)
CannotBeHeld == attempt > 0 ~> completed

Abstract == INSTANCE TwoPhaseShutdown
TwoPhase == Abstract!Spec
=============================================================================
