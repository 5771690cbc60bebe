------------------------------ MODULE NodeLogger ------------------------------
(***************************************************************************)
(* The process lifecycle of src/node-logger.ts, over the delivery of one   *)
(* logger, "own". The module registers a second logger of its own when it  *)
(* is loaded, "default", which has no transports, so that draining it      *)
(* waits for nothing. A signal drains every registered logger and is then  *)
(* raised again; an event loop that runs empty drains them once and ends.  *)
(*                                                                         *)
(* An action is one JavaScript turn. Transports may hold the event loop or *)
(* not; an armed timer holds it, and shutdownTimeoutMillis is not 0. Left  *)
(* out: the handlers of uncaught errors, which only send one more event,   *)
(* and process.exit().                                                     *)
(***************************************************************************)
EXTENDS Naturals

CONSTANTS
  MaxEvents,              \* bound: how many events "own" creates
  Transports,             \* those of "own"
  Calls,                  \* calls on "own": "signal" is the drain for a signal, the others
                          \* those of an empty event loop and of the application
  OthersListen            \* the values that others may have

ASSUME ProcessAssumption ==
  /\ MaxEvents \in Nat /\ OthersListen \subseteq BOOLEAN
  /\ "signal" \in Calls /\ "none" \notin Calls

VARIABLES
  created, unsent, pending, kind, timed, stage, snapshot, flushing, exiting,
  result, due, handed, before, durable,          \* LoggerDelivery
  registered,             \* registeredNodeLoggers
  installed,              \* lifecycleHandlersInstalled, and the two signal listeners
  onBeforeExit,           \* the beforeExit listener is there
  shutdown,               \* "no"; shutdownInProgress: "draining", then "reraised"
  beforeExitDrain,        \* beforeExitDrainInProgress: the call it waits for, or "none"
  others,                 \* listeners of others for the signals: the process survives them
  ended,                  \* how the process ended: "no", "signal", "empty"
  drains,                 \* history: the calls the lifecycle made on "own"
  late                    \* history: "own" was registered when no drain was to come any more

L == INSTANCE LoggerDelivery

delivery == <<created, unsent, pending, kind, timed, stage, snapshot, flushing, exiting,
              result, due, handed, before, durable>>
life == <<registered, installed, onBeforeExit, shutdown, beforeExitDrain, others,
          ended, drains, late>>
vars == <<created, unsent, pending, kind, timed, stage, snapshot, flushing, exiting,
          result, due, handed, before, durable, registered, installed, onBeforeExit,
          shutdown, beforeExitDrain, others, ended, drains, late>>

Loggers == {"own", "default"}

(* "own" may be made with flushOnShutdown: false. *)
Init ==
  /\ L!Init
  /\ registered \in {{"default"}, Loggers}
  /\ installed = TRUE /\ onBeforeExit = TRUE
  /\ shutdown = "no" /\ beforeExitDrain = "none"
  /\ others \in OthersListen
  /\ ended = "no"
  /\ drains = {} /\ late = FALSE

-----------------------------------------------------------------------------
Alive == ended = "no"

(* registerNodeLogger, installLifecycleHandlers. *)
Register(l) ==
  /\ Alive
  /\ l \notin registered
  /\ registered' = registered \cup {l}
  /\ installed' = TRUE
  /\ onBeforeExit' = (onBeforeExit \/ ~installed)
  /\ late' = (IF l = "own" THEN shutdown # "no" \/ ~onBeforeExit' ELSE late)
  /\ UNCHANGED <<delivery, shutdown, beforeExitDrain, others, ended, drains>>

LeaveUninstalls(l) ==     \* a slip: the listeners go with any logger
  /\ registered' = registered \ {l}
  /\ installed' = FALSE /\ onBeforeExit' = FALSE
  /\ late' = (late /\ l # "own")
  /\ UNCHANGED <<shutdown, beforeExitDrain, others, ended, drains>>

(* unregisterNodeLogger: the last one to go takes the listeners with it. *)
Leave(l) ==
  /\ registered' = registered \ {l}
  /\ installed' = (installed /\ registered' # {})
  /\ onBeforeExit' = (onBeforeExit /\ installed')
  /\ late' = (late /\ l # "own")
  /\ UNCHANGED <<shutdown, beforeExitDrain, others, ended, drains>>

(* The function that installProcessHandlers() returned; close() of "default". *)
Unregister(l) ==
  /\ Alive
  /\ l \in registered
  /\ Leave(l)
  /\ UNCHANGED delivery

(* close() of "own". *)
CloseOwn(c, timeout) ==
  /\ Alive
  /\ L!ExitCall(c, TRUE, timeout)
  /\ IF "own" \in registered THEN Leave("own") ELSE UNCHANGED life

-----------------------------------------------------------------------------
(* flushRegisteredNodeLoggers() up to its first await. *)
FlushRegistered(c) ==
  IF "own" \in registered
  THEN L!ExitCall(c, FALSE, TRUE) /\ drains' = drains \cup {c} /\ late' = FALSE
  ELSE UNCHANGED <<delivery, drains, late>>

Settled(c) == result[c] # "waiting"
SignalDrained == shutdown = "draining" /\ Settled("signal")
EmptyDrained == beforeExitDrain # "none" /\ Settled(beforeExitDrain)
Quiet == L!Quiet /\ ~SignalDrained /\ ~EmptyDrained

(* SIGINT or SIGTERM; a second one finds shutdownInProgress. *)
Signal ==
  /\ Alive /\ Quiet
  /\ installed
  /\ shutdown = "no"
  /\ shutdown' = "draining"
  /\ FlushRegistered("signal")
  /\ UNCHANGED <<registered, installed, onBeforeExit, beforeExitDrain, others, ended>>

(* Without a listener a signal ends the process. *)
Unheard ==
  /\ Alive /\ Quiet
  /\ ~installed /\ ~others
  /\ ended' = "signal"
  /\ UNCHANGED <<delivery, registered, installed, onBeforeExit, shutdown, beforeExitDrain,
                 others, drains, late>>

ReraiseInstalled ==       \* a slip: the handlers stay, and ignore the signal
  /\ Alive
  /\ SignalDrained
  /\ shutdown' = "reraised"
  /\ ended' = IF others \/ installed THEN ended ELSE "signal"
  /\ UNCHANGED <<delivery, registered, installed, onBeforeExit, beforeExitDrain, others,
                 drains, late>>

(* handleSignal goes on: no handler of its own hears the signal again. *)
Reraise ==
  /\ Alive
  /\ SignalDrained
  /\ shutdown' = "reraised"
  /\ installed' = FALSE /\ onBeforeExit' = FALSE
  /\ ended' = IF others THEN ended ELSE "signal"
  /\ UNCHANGED <<delivery, registered, beforeExitDrain, others, drains, late>>

-----------------------------------------------------------------------------
(* The event loop has nothing left to wait for. *)
Empty == Quiet /\ \A c \in Calls : ~L!TimerArmed(c)

(* handleBeforeExit takes its listener off and drains. *)
Drains == onBeforeExit /\ beforeExitDrain = "none" /\ shutdown = "no"

BeforeExit(c) ==
  /\ Alive /\ Empty
  /\ Drains
  /\ kind[c] = "none"
  /\ onBeforeExit' = FALSE
  /\ beforeExitDrain' = c
  /\ FlushRegistered(c)
  /\ UNCHANGED <<registered, installed, shutdown, others, ended>>

BeforeExitOver ==
  /\ Alive
  /\ EmptyDrained
  /\ beforeExitDrain' = "none"
  /\ UNCHANGED <<delivery, registered, installed, onBeforeExit, shutdown, others, ended,
                 drains, late>>

(* An empty loop that nobody fills again ends the process. *)
LoopEnds ==
  /\ Alive /\ Empty
  /\ ~Drains
  /\ ended' = "empty"
  /\ UNCHANGED <<delivery, registered, installed, onBeforeExit, shutdown, beforeExitDrain,
                 others, drains, late>>

-----------------------------------------------------------------------------

Deliver(step) == Alive /\ step /\ UNCHANGED life
OtherCalls == Calls \ {"signal", beforeExitDrain}

Create == Deliver(L!Create)
Send(e) == Deliver(L!Send(e))
FlushCall(c, recover, timeout) == Deliver(L!FlushCall(c, recover, timeout))
Continue(c) == Deliver(L!Continue(c))
TransportStep == Deliver(L!TransportStep)

(* All but the signals. *)
OtherStep ==
  \/ Create \/ \E e \in L!Events : Send(e)
  \/ \E c \in OtherCalls, timeout \in BOOLEAN :
       CloseOwn(c, timeout) \/ \E recover \in BOOLEAN : FlushCall(c, recover, timeout)
  \/ \E l \in Loggers : Register(l) \/ Unregister(l)
  \/ \E c \in OtherCalls : BeforeExit(c)
  \/ BeforeExitOver \/ LoopEnds
  \/ \E c \in Calls : Continue(c)
  \/ TransportStep

Next == OtherStep \/ Signal \/ Unheard \/ Reraise

Spec == Init /\ [][Next]_vars

(* Continuations and timers run; transports owe nothing. *)
FairSpec ==
  /\ Spec
  /\ \A c \in Calls : WF_vars(Continue(c))
  /\ WF_vars(Reraise) /\ WF_vars(BeforeExitOver)

-----------------------------------------------------------------------------
(* LoggerDelivery's property, of the drains among other calls. *)
FlushCovers == L!FlushCovers

(* A process that ends by a signal or an empty loop while "own" is          *)
(* registered drained it on that account and saw the drain through, or out  *)
(* of time (README.md:651), whatever loggers came and went meanwhile. The   *)
(* exception is a logger registered when the last drain had begun (58, 66). *)
DiesDrained ==
  LET last == IF ended = "signal" THEN drains \cap {"signal"} ELSE drains IN
    ended # "no" /\ "own" \in registered /\ ~late =>
      last # {} /\ \A c \in last : Settled(c)

(* A signal that the logger takes ends the process, whatever its transports *)
(* do and although its own handlers were in the way (README.md:651: raised  *)
(* again so that normal exit semantics are kept), unless others listen too. *)
SignalEnds == shutdown = "draining" ~> ended # "no" \/ others
=============================================================================
