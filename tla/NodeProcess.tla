----------------------------- MODULE NodeProcess -----------------------------
(***************************************************************************)
(* A Node process whose signals have two listeners: src/node-logger.ts,    *)
(* which importing the module is enough to install, and the controller of  *)
(* src/server-lifecycle.ts. Both hear every signal in one turn; when the   *)
(* logger's drain ends it raises the signal again, for the controller.     *)
(***************************************************************************)
EXTENDS Naturals

CONSTANTS
  MaxEvents, Transports, Calls, OthersListen,
  Servers, Interactive, WatchStdinEof, MayDispose,
  MaxSignals              \* bound: signals sent to the process from outside

VARIABLES
  created, unsent, pending, kind, timed, stage, snapshot, flushing, exiting,
  result, due, handed, before, durable, registered, installed, onBeforeExit,
  shutdown, beforeExitDrain, ended, drains, late,           \* NodeLogger
  phase, graceful, forcing, flush, server, timeout, signals, eofArmed,
  eofListening, stdinEnded, disposed, resolved, early, calls,     \* ServerLifecycle
  sent,                   \* history: how many signals came from outside
  forcedBySignal          \* history: the controller was forced by a signal

logging == <<created, unsent, pending, kind, timed, stage, snapshot, flushing, exiting,
             result, due, handed, before, durable, registered, installed, onBeforeExit,
             shutdown, beforeExitDrain, ended, drains, late>>
serving == <<phase, graceful, forcing, flush, server, timeout, signals, eofArmed,
             eofListening, stdinEnded, disposed, resolved, early, calls>>
vars == <<logging, serving, sent, forcedBySignal>>

Logger == INSTANCE NodeLogger WITH others <- signals
Controller == INSTANCE ServerLifecycle

Init ==
  /\ Logger!Init
  /\ registered = {"default"}      \* the application's logger has flushOnShutdown: false
  /\ Controller!Init
  /\ sent = 0 /\ forcedBySignal = FALSE

-----------------------------------------------------------------------------
(* The controller's listener: it escalates, or ignores a later signal. *)
ControllerHears ==
  /\ \/ \E sigint \in BOOLEAN : Controller!Signal(sigint)
     \/ (~signals \/ phase \notin {"running", "draining"}) /\ UNCHANGED serving
  /\ forcedBySignal' = (forcedBySignal \/ (phase = "draining" /\ phase' = "forced"))

(* A signal from outside. *)
Signal ==
  /\ sent < MaxSignals
  /\ sent' = sent + 1
  /\ Logger!Alive /\ Logger!Quiet
  /\ IF installed /\ shutdown = "no" THEN Logger!Signal ELSE UNCHANGED logging
  /\ installed \/ signals
  /\ ControllerHears

(* One that neither hears. *)
Unheard ==
  /\ sent < MaxSignals
  /\ sent' = sent + 1
  /\ Logger!Unheard
  /\ UNCHANGED forcedBySignal

(* The logger's process.kill(process.pid, signal). *)
Reraise ==
  /\ Logger!Reraise
  /\ ControllerHears
  /\ UNCHANGED sent

LoggerStep == Logger!OtherStep /\ UNCHANGED <<serving, sent, forcedBySignal>>
ControllerStep ==
  Logger!Alive /\ Controller!OtherStep /\ UNCHANGED <<logging, sent, forcedBySignal>>

Next == Signal \/ Unheard \/ Reraise \/ LoggerStep \/ ControllerStep

Spec == Init /\ [][Next]_vars

-----------------------------------------------------------------------------
(* With the one NodeLogger of the application configured with               *)
(* flushOnShutdown: false, one coordinator owns the signals                 *)
(* (server-lifecycle.ts 6-7), and it takes a second signal to force         *)
(* (server-lifecycle.ts 236).                                               *)
SecondSignalForces == forcedBySignal => sent >= 2
=============================================================================
