--------------------------- MODULE ServerLifecycle ---------------------------
(***************************************************************************)
(* installNodeServerShutdown of src/server-lifecycle.ts: the one owner of  *)
(* a Node process's shutdown. A graceful sequence (beforeGraceful, close   *)
(* the servers, flush, afterGraceful) and a forced one (destroy, force     *)
(* hook, flush) may both be under way; they share one flush, and the       *)
(* graceful one looks at the phase again after every await.                *)
(*                                                                         *)
(* An action is one JavaScript turn. The hooks, the servers and flush may  *)
(* settle late or never. "hook" and "flushing" of the forced sequence end  *)
(* when the awaited promise settles or its deadline (waitBounded) passes,  *)
(* whichever is first, so they need no guard. stdin ends at most once.     *)
(* Left out: log messages, times, exit code, and the errors collected.     *)
(***************************************************************************)
EXTENDS Naturals, Sequences

CONSTANTS
  Servers,
  Interactive,            \* options.interactive, or stdin is a terminal
  WatchStdinEof,          \* options.watchStdinEof
  MayDispose              \* the application may call dispose() before the end

VARIABLES
  phase,                  \* "running", "draining", "forced", "closed"
  graceful,               \* the graceful sequence: what it awaits
  forcing,                \* the forced sequence: what it awaits
  flush,                  \* flushPromise: "none", "pending", "settled"
  server,                 \* each server: "listening", "closing", "closed", "failed"
  timeout,                \* the graceful deadline is armed
  signals,                \* the SIGINT and SIGTERM listeners are installed
  eofArmed, eofListening, \* eofArmed; stdin's 'end' listener is installed
  stdinEnded,
  disposed, resolved,
  early,                  \* history: dispose() was called before the end
  calls                   \* history: the hooks in the order they were called

vars == <<phase, graceful, forcing, flush, server, timeout, signals, eofArmed,
          eofListening, stdinEnded, disposed, resolved, early, calls>>

Init ==
  /\ phase = "running"
  /\ graceful = "none" /\ forcing = "none" /\ flush = "none"
  /\ server = [s \in Servers |-> "listening"]
  /\ timeout = FALSE /\ signals = TRUE
  /\ eofArmed = FALSE /\ eofListening = FALSE /\ stdinEnded = FALSE
  /\ disposed = FALSE /\ resolved = FALSE /\ early = FALSE
  /\ calls = <<>>

-----------------------------------------------------------------------------
(* A server told to close refuses new connections; whether it is "closing"  *)
(* or done, telling it again changes nothing.                               *)
ClosingAll == [s \in Servers |-> IF server[s] = "listening" THEN "closing" ELSE server[s]]

(* requestGraceful() of a running controller, up to the first await. Only   *)
(* an interactive SIGINT arms stdin's end.                                  *)
BeginGraceful(sigint) ==
  LET arms == sigint /\ Interactive /\ WatchStdinEof IN
    /\ phase = "running"
    /\ phase' = "draining"
    /\ eofArmed' = (eofArmed \/ arms)
    /\ eofListening' = (eofListening \/ (arms /\ ~eofArmed))
    /\ timeout' = TRUE
    /\ graceful' = "before"
    /\ calls' = Append(calls, "before")
    /\ UNCHANGED <<forcing, flush, server, signals, disposed, resolved, early>>

ForceKeepsTimeout ==      \* a slip: the deadline is not cleared
  /\ phase \in {"running", "draining"}
  /\ phase' = "forced"
  /\ server' = ClosingAll
  /\ forcing' = "hook"
  /\ calls' = Append(calls, "force")
  /\ UNCHANGED <<timeout, flush, signals, eofArmed, eofListening, disposed, resolved, early>>

(* force() up to its first await: deadline off, every server closed and its *)
(* connections destroyed, then the application's force hook.                *)
BeginForce ==
  /\ phase \in {"running", "draining"}
  /\ phase' = "forced"
  /\ timeout' = FALSE
  /\ server' = ClosingAll
  /\ forcing' = "hook"
  /\ calls' = Append(calls, "force")
  /\ UNCHANGED <<flush, signals, eofArmed, eofListening, disposed, resolved, early>>

(* What any terminating event does: drain, then force, then nothing. *)
Escalate(sigint) ==
  \/ BeginGraceful(sigint)
  \/ phase = "draining" /\ BeginForce /\ UNCHANGED graceful

FlushAgain ==             \* a slip: flushPromise is not remembered
  /\ flush' = "pending"
  /\ calls' = Append(calls, "flush")

(* flushOnce() *)
FlushOnce ==
  IF flush = "none"
  THEN flush' = "pending" /\ calls' = Append(calls, "flush")
  ELSE UNCHANGED <<flush, calls>>

(* cleanup(): runs once; afterwards it is inert. *)
Cleanup ==
  IF disposed THEN UNCHANGED <<timeout, signals, eofListening, disposed>>
  ELSE /\ disposed' = TRUE
       /\ timeout' = FALSE
       /\ signals' = FALSE
       /\ eofListening' = FALSE

Finish(final) ==
  /\ phase' = final
  /\ resolved' = TRUE
  /\ Cleanup
  /\ UNCHANGED early

-----------------------------------------------------------------------------
(* SIGINT, SIGTERM, and the controller's requestGraceful(). *)
Signal(sigint) ==
  /\ signals
  /\ Escalate(sigint)
  /\ UNCHANGED stdinEnded

RequestGraceful(sigint) ==
  /\ Escalate(sigint)
  /\ UNCHANGED stdinEnded

StdinEnd ==
  /\ ~stdinEnded
  /\ stdinEnded' = TRUE
  /\ IF eofListening /\ phase = "draining"
     THEN BeginForce /\ UNCHANGED graceful
     ELSE UNCHANGED <<phase, graceful, forcing, flush, server, timeout, signals,
                      eofArmed, eofListening, disposed, resolved, early, calls>>

ForceCall ==
  /\ BeginForce
  /\ UNCHANGED <<graceful, stdinEnded>>

TimeoutFires ==
  /\ timeout
  /\ IF phase = "draining"
     THEN BeginForce
     ELSE /\ timeout' = FALSE
          /\ UNCHANGED <<phase, forcing, flush, server, signals, eofArmed,
                         eofListening, disposed, resolved, early, calls>>
  /\ UNCHANGED <<graceful, stdinEnded>>

Dispose ==
  /\ MayDispose
  /\ ~disposed
  /\ Cleanup
  /\ early' = TRUE
  /\ UNCHANGED <<phase, graceful, forcing, flush, server, eofArmed, stdinEnded,
                 resolved, calls>>

-----------------------------------------------------------------------------
(* The graceful sequence has nothing more to do: it was overtaken. *)
GiveUp ==
  /\ graceful' = "done"
  /\ UNCHANGED <<phase, forcing, flush, server, timeout, signals, eofArmed,
                 eofListening, disposed, resolved, early, calls>>

(* beforeGraceful has settled: close the servers. *)
BeforeEnds ==
  /\ graceful = "before"
  /\ IF phase # "draining" THEN GiveUp
     ELSE /\ graceful' = "closing"
          /\ server' = ClosingAll
          /\ calls' = Append(calls, "close")
          /\ UNCHANGED <<phase, forcing, flush, timeout, signals, eofArmed,
                         eofListening, disposed, resolved, early>>
  /\ UNCHANGED stdinEnded

(* A server's close callback, with or without an error. *)
ServerCloses(s) ==
  /\ server[s] = "closing"
  /\ \E result \in {"closed", "failed"} : server' = [server EXCEPT ![s] = result]
  /\ UNCHANGED <<phase, graceful, forcing, flush, timeout, signals, eofArmed,
                 eofListening, stdinEnded, disposed, resolved, early, calls>>

ServersClosedSomehow ==   \* a slip: a server that failed to close is ignored
  /\ graceful = "closing"
  /\ \A s \in Servers : server[s] \in {"closed", "failed"}
  /\ IF phase # "draining" THEN GiveUp
     ELSE /\ graceful' = "flushing"
          /\ FlushOnce
          /\ UNCHANGED <<phase, forcing, server, timeout, signals, eofArmed,
                         eofListening, disposed, resolved, early>>
  /\ UNCHANGED stdinEnded

(* allSettled: every close has settled. A failure escalates. *)
ServersClosed ==
  /\ graceful = "closing"
  /\ \A s \in Servers : server[s] \in {"closed", "failed"}
  /\ IF phase # "draining" THEN GiveUp
     ELSE IF \E s \in Servers : server[s] = "failed"
     THEN graceful' = "done" /\ BeginForce
     ELSE /\ graceful' = "flushing"
          /\ FlushOnce
          /\ UNCHANGED <<phase, forcing, server, timeout, signals, eofArmed,
                         eofListening, disposed, resolved, early>>
  /\ UNCHANGED stdinEnded

FlushSettles ==
  /\ flush = "pending"
  /\ flush' = "settled"
  /\ UNCHANGED <<phase, graceful, forcing, server, timeout, signals, eofArmed,
                 eofListening, stdinEnded, disposed, resolved, early, calls>>

GracefulFlushedUnchecked ==   \* a slip: the phase is not looked at again
  /\ graceful = "flushing"
  /\ flush = "settled"
  /\ graceful' = "after"
  /\ calls' = Append(calls, "after")
  /\ UNCHANGED <<phase, forcing, flush, server, timeout, signals, eofArmed,
                 eofListening, stdinEnded, disposed, resolved, early>>

GracefulFlushed ==
  /\ graceful = "flushing"
  /\ flush = "settled"
  /\ IF phase # "draining" THEN GiveUp
     ELSE /\ graceful' = "after"
          /\ calls' = Append(calls, "after")
          /\ UNCHANGED <<phase, forcing, flush, server, timeout, signals, eofArmed,
                         eofListening, disposed, resolved, early>>
  /\ UNCHANGED stdinEnded

AfterEndsClosed ==            \* a slip: finish('closed') whatever the phase
  /\ graceful = "after"
  /\ graceful' = "done"
  /\ Finish("closed")
  /\ UNCHANGED <<forcing, flush, server, eofArmed, stdinEnded, calls>>

AfterEnds ==
  /\ graceful = "after"
  /\ IF phase # "draining" THEN GiveUp
     ELSE /\ graceful' = "done"
          /\ Finish("closed")
          /\ UNCHANGED <<forcing, flush, server, eofArmed, calls>>
  /\ UNCHANGED stdinEnded

-----------------------------------------------------------------------------
(* The force hook has settled or its deadline has passed. *)
ForceHookOver ==
  /\ forcing = "hook"
  /\ forcing' = "flushing"
  /\ FlushOnce
  /\ UNCHANGED <<phase, graceful, server, timeout, signals, eofArmed, eofListening,
                 stdinEnded, disposed, resolved, early>>

ForceFlushAwaited ==          \* a slip: the flush is awaited without a deadline
  /\ forcing = "flushing"
  /\ flush = "settled"
  /\ forcing' = "done"
  /\ Finish("forced")
  /\ UNCHANGED <<graceful, flush, server, eofArmed, stdinEnded, calls>>

(* So has the flush, whoever started it. *)
ForceFlushOver ==
  /\ forcing = "flushing"
  /\ forcing' = "done"
  /\ Finish("forced")
  /\ UNCHANGED <<graceful, flush, server, eofArmed, stdinEnded, calls>>

-----------------------------------------------------------------------------
(* All but the signals. *)
OtherStep ==
  \/ \E sigint \in BOOLEAN : RequestGraceful(sigint)
  \/ StdinEnd \/ ForceCall \/ TimeoutFires \/ Dispose
  \/ BeforeEnds \/ ServersClosed \/ FlushSettles \/ GracefulFlushed \/ AfterEnds
  \/ \E s \in Servers : ServerCloses(s)
  \/ ForceHookOver \/ ForceFlushOver

Next == OtherStep \/ \E sigint \in BOOLEAN : Signal(sigint)

Spec == Init /\ [][Next]_vars

(* Timers fire, so the three deadlines pass. No hook need ever settle. *)
Fairness ==
  WF_vars(TimeoutFires) /\ WF_vars(ForceHookOver) /\ WF_vars(ForceFlushOver)

-----------------------------------------------------------------------------
(* The application's hooks run at most once each, and telemetry is flushed  *)
(* exactly once under graceful/force races (contract, section 3 item 9):    *)
(* a resolved shutdown called flush, and did not call it twice. Once the    *)
(* forced phase has begun the graceful sequence starts no hook, wherever it *)
(* was waiting when it was overtaken (511, 526, 529), and "closed" is       *)
(* reported only of a shutdown in which nothing was forced and every server *)
(* really closed (513-535).                                                 *)
ClosedIsGraceful ==
  phase = "closed" =>
    /\ forcing = "none"
    /\ calls = <<"before", "close", "flush", "after">>
    /\ \A s \in Servers : server[s] = "closed"
HooksOnce ==
  /\ [](\A i, j \in 1..Len(calls) : calls[i] = calls[j] => i = j)
  /\ [](resolved => \E i \in 1..Len(calls) : calls[i] = "flush")
  /\ []ClosedIsGraceful
  /\ [][phase = "forced" => calls' = calls \/ calls' = Append(calls, "flush")]_vars

(* A drain has a deadline and a forced phase none, so that neither hangs    *)
(* nor is forced twice; nothing outlives the result. Only dispose() takes   *)
(* the deadline of a drain away, or leaves a later one behind.              *)
DeadlineKept ==
  /\ phase = "draining" => timeout \/ early
  /\ phase = "forced" => ~timeout
  /\ resolved => ~signals
  /\ resolved /\ ~early => ~timeout /\ ~eofListening

(* Whatever hangs, a shutdown that began is resolved (contract, section 3   *)
(* items 7 and 10), unless the handle was disposed of.                      *)
Resolves == phase # "running" ~> resolved \/ early

(* The contract's phases, read off this controller's. *)
TwoPhase == INSTANCE TwoPhaseShutdown WITH
  phase <- IF resolved THEN "stopped" ELSE IF phase = "forced" THEN "forcing" ELSE phase,
  forced <- phase = "forced",
  completed <- resolved
TwoPhaseSpec == TwoPhase!Spec
=============================================================================
