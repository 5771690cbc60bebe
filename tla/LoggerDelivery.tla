---------------------------- MODULE LoggerDelivery ----------------------------
(***************************************************************************)
(* The delivery of BaseLogger in src/base-logger.ts: an event that was     *)
(* created is sent once, to every transport at the same time; flush(),     *)
(* flushOnExit() and close() take snapshots of what is under way and wait  *)
(* for it, perhaps with a timeout, while events keep coming.               *)
(*                                                                         *)
(* An action is one JavaScript turn. The transports are the environment:   *)
(* what write, flush, flushOnExit and close return settles at any time, or *)
(* never; a flush makes durable what was written before it began. Each     *)
(* member of Calls stands for one call.                                    *)
(*                                                                         *)
(* Left out: what a record holds, the console, events that reach no        *)
(* transport (below maxLevel, send(false)), whether a write settles by     *)
(* failing, and waitUntil/after, which only pass the task on.              *)
(***************************************************************************)
EXTENDS Naturals

CONSTANTS
  MaxEvents,              \* bound: how many events are created
  Transports,
  Calls

Events == 1..MaxEvents

VARIABLES
  created,                \* events are created in the order of their numbers
  unsent,                 \* unsentEvents
  pending,                \* the writes under way, from which pending and activeRecords follow
  kind,                   \* what each call is: "flush", "recover" (sendUnsent), "exit", "close"
  timed,                  \* it waits with a timeout
  stage,                  \* where the flush() in it is; it goes on after a timeout
  snapshot,               \* the events whose tasks stage waits for
  flushing,               \* the transports whose flush stage waits for
  exiting,                \* those whose flushOnExit it waits for, until a timeout
  result,                 \* how the wait for all this ended: "none", "waiting", "returned", "timedOut"
  due,                    \* history: the events each call is to cover
  handed,                 \* history: the events it passed to the transports' flushOnExit
  before,                 \* history: the writes settled when its flush of the transports began
  durable                 \* history: the writes that a completed flush covered

calls == <<kind, timed, stage, snapshot, flushing, exiting, result, due, handed, before>>
vars == <<created, unsent, pending, kind, timed, stage, snapshot, flushing, exiting,
          result, due, handed, before, durable>>

Sent == (1..created) \ unsent
Writes(S) == S \X Transports
Active == {e \in Events : \E t \in Transports : <<e, t>> \in pending}
Written == Writes(Sent) \ pending

Init ==
  /\ created = 0 /\ unsent = {} /\ pending = {}
  /\ kind = [c \in Calls |-> "none"] /\ timed = [c \in Calls |-> FALSE]
  /\ stage = [c \in Calls |-> "none"] /\ snapshot = [c \in Calls |-> {}]
  /\ flushing = [c \in Calls |-> {}] /\ exiting = [c \in Calls |-> {}]
  /\ result = [c \in Calls |-> "none"]
  /\ due = [c \in Calls |-> {}] /\ handed = [c \in Calls |-> {}]
  /\ before = [c \in Calls |-> {}]
  /\ durable = {}

-----------------------------------------------------------------------------
(* createEvent. *)
Create ==
  /\ created + 1 \in Events
  /\ created' = created + 1
  /\ unsent' = unsent \cup {created'}
  /\ UNCHANGED <<pending, calls, durable>>

(* emitEvent for each event of S. *)
Emit(S) ==
  /\ unsent' = unsent \ S
  /\ pending' = pending \cup Writes(S)

(* send(), called by the application or by autoSend's microtask. *)
Send(e) ==
  /\ e \in unsent
  /\ Emit({e})
  /\ UNCHANGED <<created, calls, durable>>

WriteSettles(e, t) ==
  /\ <<e, t>> \in pending
  /\ pending' = pending \ {<<e, t>>}
  /\ UNCHANGED <<created, unsent, calls, durable>>

(* flush() up to its first await. *)
FlushCall(c, recover, timeout) ==
  /\ kind[c] = "none"
  /\ kind' = [kind EXCEPT ![c] = IF recover THEN "recover" ELSE "flush"]
  /\ timed' = [timed EXCEPT ![c] = timeout]
  /\ result' = [result EXCEPT ![c] = "waiting"]
  /\ IF recover
     THEN /\ Emit(unsent)
          /\ stage' = [stage EXCEPT ![c] = "recovering"]
          /\ snapshot' = [snapshot EXCEPT ![c] = unsent]
          /\ due' = [due EXCEPT ![c] = 1..created]
     ELSE /\ UNCHANGED <<unsent, pending>>
          /\ stage' = [stage EXCEPT ![c] = "settling"]
          /\ snapshot' = [snapshot EXCEPT ![c] = Active]
          /\ due' = [due EXCEPT ![c] = Sent]
  /\ UNCHANGED <<created, flushing, exiting, handed, before, durable>>

(* flushOnExit(), on its own or from close(): the events still unsent are   *)
(* sent, every active record is handed to the transports, and a flush       *)
(* begins, which finds no event left to recover.                            *)
ExitCall(c, close, timeout) ==
  /\ kind[c] = "none"
  /\ kind' = [kind EXCEPT ![c] = IF close THEN "close" ELSE "exit"]
  /\ timed' = [timed EXCEPT ![c] = timeout]
  /\ result' = [result EXCEPT ![c] = "waiting"]
  /\ Emit(unsent)
  /\ handed' = [handed EXCEPT ![c] = Active \cup unsent]
  /\ exiting' = [exiting EXCEPT ![c] = Transports]
  /\ stage' = [stage EXCEPT ![c] = "recovering"]
  /\ due' = [due EXCEPT ![c] = 1..created]
  /\ UNCHANGED <<created, snapshot, flushing, before, durable>>

-----------------------------------------------------------------------------
SnapshotSettled(c) == snapshot[c] \cap Active = {}

RecoveredOnly(c) ==       \* a slip: what was sent earlier is not waited for
  /\ stage[c] = "recovering"
  /\ SnapshotSettled(c)
  /\ stage' = [stage EXCEPT ![c] = "settling"]
  /\ snapshot' = [snapshot EXCEPT ![c] = {}]
  /\ UNCHANGED <<created, unsent, pending, kind, timed, flushing, exiting, result,
                 due, handed, before, durable>>

(* The recovered events are sent: settle() begins, with its own snapshot. *)
Recovered(c) ==
  /\ stage[c] = "recovering"
  /\ SnapshotSettled(c)
  /\ stage' = [stage EXCEPT ![c] = "settling"]
  /\ snapshot' = [snapshot EXCEPT ![c] = Active]
  /\ UNCHANGED <<created, unsent, pending, kind, timed, flushing, exiting, result,
                 due, handed, before, durable>>

(* The pending tasks have settled: every transport is flushed. *)
TasksSettled(c) ==
  /\ stage[c] = "settling"
  /\ SnapshotSettled(c)
  /\ stage' = [stage EXCEPT ![c] = "flushing"]
  /\ flushing' = [flushing EXCEPT ![c] = Transports]
  /\ before' = [before EXCEPT ![c] = Written]
  /\ snapshot' = [snapshot EXCEPT ![c] = {}]
  /\ UNCHANGED <<created, unsent, pending, kind, timed, exiting, result, due, handed, durable>>

TransportFlushed(c, t) ==
  /\ t \in flushing[c]
  /\ flushing' = [flushing EXCEPT ![c] = @ \ {t}]
  /\ durable' = durable \cup {w \in before[c] : w[2] = t}
  /\ before' = [before EXCEPT ![c] = {w \in @ : w[2] # t}]
  /\ UNCHANGED <<created, unsent, pending, kind, timed, stage, snapshot, exiting,
                 result, due, handed>>

TransportExited(c, t) ==
  /\ t \in exiting[c]
  /\ exiting' = [exiting EXCEPT ![c] = @ \ {t}]
  /\ UNCHANGED <<created, unsent, pending, kind, timed, stage, snapshot, flushing,
                 result, due, handed, before, durable>>

-----------------------------------------------------------------------------
(* waitWithTimeout's finally. close() goes on to the transports' close. *)
Ends(c, outcome) ==
  /\ result[c] = "waiting"
  /\ result' = [result EXCEPT ![c] = outcome]
  /\ timed' = [timed EXCEPT ![c] = FALSE]
  /\ exiting' = [exiting EXCEPT ![c] = {}]
  /\ UNCHANGED <<created, unsent, pending, kind, stage, snapshot, flushing, due, handed,
                 before, durable>>

WorkOver(c) == stage[c] = "flushing" /\ flushing[c] = {} /\ exiting[c] = {}

Returns(c) ==
  /\ WorkOver(c)
  /\ Ends(c, "returned")

(* A continuation of some call is due, which runs before any timer. *)
Due(c) ==
  \/ stage[c] \in {"recovering", "settling"} /\ SnapshotSettled(c)
  \/ result[c] = "waiting" /\ WorkOver(c)
Quiet == \A c \in Calls : ~Due(c)

(* waitWithTimeout's timer. flush() only waits under it once it settles     *)
(* (1573-1577); flushOnExit() wraps all of its work (1586-1589).            *)
TimerArmed(c) ==
  /\ result[c] = "waiting"
  /\ timed[c]
  /\ kind[c] = "recover" => stage[c] # "recovering"

TimesOut(c) ==
  /\ TimerArmed(c)
  /\ Quiet
  /\ Ends(c, "timedOut")

-----------------------------------------------------------------------------
(* What goes on by itself: continuations, timers, and the transports. *)
Continue(c) == Recovered(c) \/ TasksSettled(c) \/ Returns(c) \/ TimesOut(c)

TransportStep ==
  \/ \E e \in Events, t \in Transports : WriteSettles(e, t)
  \/ \E c \in Calls, t \in Transports :
       TransportFlushed(c, t) \/ TransportExited(c, t)

Next ==
  \/ Create \/ \E e \in Events : Send(e)
  \/ \E c \in Calls, b, timeout \in BOOLEAN :
       FlushCall(c, b, timeout) \/ ExitCall(c, b, timeout)
  \/ \E c \in Calls : Continue(c)
  \/ TransportStep

Spec == Init /\ [][Next]_vars

-----------------------------------------------------------------------------
(* A flush(), flushOnExit() or close() that did not time out waited for all *)
(* it is to cover, although events were created, sent and settled while it  *)
(* did: for every event that was sent when it was called (created, for a    *)
(* call that recovers unsent ones) each transport's write had settled, and  *)
(* then that transport's flush ended (1574-1576). An event that a drain on  *)
(* exit is to cover and that is still on its way, even after a timeout, is  *)
(* one the transports were handed, for their best-effort path (1580-1584).  *)
FlushCovers ==
  \A c \in Calls :
    /\ result[c] = "returned" => Writes(due[c]) \subseteq durable
    /\ kind[c] \in {"exit", "close"} => due[c] \cap (unsent \cup Active) \subseteq handed[c]
=============================================================================
