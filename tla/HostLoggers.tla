------------------------------ MODULE HostLoggers ------------------------------
(***************************************************************************)
(* The loggers that flush when their host ends: BrowserLogger              *)
(* (src/browser-logger.ts), BunLogger (src/bun-logger.ts) and DenoLogger   *)
(* (src/deno-logger.ts), one runtime in a behaviour. Their constructors,   *)
(* close(), anew() and the installers register with the page or process;   *)
(* the functions the installers return may be called later, and again.     *)
(*                                                                         *)
(* flushOnExit() is that of LoggerDelivery, here begun and ended: what was *)
(* taken has been written or has run out of its time. The runtime fields   *)
(* are left out.                                                           *)
(***************************************************************************)
EXTENDS Naturals

CONSTANTS
  Loggers,
  MaxInstalls,            \* bound: installations of global handlers
  MaxSignals              \* bound: signals

Browser == "browser"
Bun == "bun"
Deno == "deno"
Runtimes == {Browser, Bun, Deno}

VARIABLES
  runtime,
  hostable,               \* the host has addEventListener, or the global Bun
  otherListeners,         \* the application listens to the signals too
  made, closed,
  registered,             \* registeredBrowserLoggers, bunLoggers, or those with removeUnloadHandler
  installed,              \* unloadHandlersInstalled, bunHandlersInstalled
  handlers,               \* what listens at the host: "exit" (pagehide, beforeunload, unload;
                          \* beforeExit), "signals", and Deno's loggers themselves
  capturing,              \* the loggers with captureGlobalErrors
  globals,                \* logger -> the installations whose error handlers listen
  remover,                \* logger -> removeGlobalHandlers, as its installation; 0 is null
  returned,               \* the removers that were handed out: <<logger, installation>>
  repeated,               \* one of them was called after the logger had installed anew
  installs, signals,
  unsent, taken,          \* loggers with records unsent, and that flush what they had
  shutdown,               \* bunShutdownInProgress, with what became of it
  flushing,               \* the loggers whose flush the signal awaits
  dead                    \* how the process ended: "no", "raised" or "default"

registration == <<registered, installed, handlers>>
errors == <<capturing, globals, remover, returned, repeated, installs>>
host == <<runtime, hostable, otherListeners>>
process == <<signals, shutdown, flushing, dead>>
records == <<unsent, taken>>
vars == <<host, made, closed, registration, errors, process, records>>

Init ==
  /\ runtime \in Runtimes /\ hostable \in BOOLEAN
  /\ otherListeners \in (IF runtime = Bun THEN BOOLEAN ELSE {FALSE})
  /\ made = {} /\ closed = {} /\ registered = {} /\ installed = FALSE /\ handlers = {}
  /\ capturing = {} /\ returned = {} /\ repeated = FALSE /\ installs = 0 /\ signals = 0
  /\ globals = [l \in Loggers |-> {}] /\ remover = [l \in Loggers |-> 0]
  /\ unsent = {} /\ taken = {} /\ shutdown = "no" /\ flushing = {} /\ dead = "no"

Alive == dead = "no"

-----------------------------------------------------------------------------
(* Registration with the host.                                             *)
HostHandlers == IF runtime = Bun THEN {"exit", "signals"} ELSE {"exit"}

(* registerBrowserLogger, registerBunLogger; the Deno constructor. *)
Register(l) ==
  /\ registered' = IF runtime = Deno /\ ~hostable THEN registered ELSE registered \cup {l}
  /\ IF runtime = Deno
     THEN installed' = installed /\ handlers' = (IF hostable THEN handlers \cup {l} ELSE handlers)
     ELSE IF hostable /\ ~installed
          THEN installed' = TRUE /\ handlers' = handlers \cup HostHandlers
          ELSE UNCHANGED <<installed, handlers>>

RemoveHandlers ==
  IF hostable /\ installed
  THEN installed' = FALSE /\ handlers' = handlers \ HostHandlers
  ELSE UNCHANGED <<installed, handlers>>

UnregisterRemovingAlways(l) ==       \* a slip: the handlers go with any logger, not the last
  /\ registered' = registered \ {l}
  /\ IF runtime = Deno
     THEN installed' = installed /\ handlers' = handlers \ {l}
     ELSE RemoveHandlers

Unregister(l) ==
  /\ registered' = registered \ {l}
  /\ IF runtime = Deno
     THEN installed' = installed /\ handlers' = handlers \ {l}
     ELSE IF registered' = {} THEN RemoveHandlers ELSE UNCHANGED <<installed, handlers>>

InstallTwice(l, capture) ==       \* a slip: installed again though the handlers are there
  /\ installs < MaxInstalls
  /\ installs' = installs + 1
  /\ globals' = [globals EXCEPT ![l] = IF capture THEN @ \cup {installs'} ELSE @]
  /\ remover' = [remover EXCEPT ![l] = installs']

(* installGlobalHandlers: without an effect while its handlers are there. *)
Install(l, capture) ==
  IF remover[l] # 0 \/ ~hostable
  THEN UNCHANGED <<globals, remover, installs>>
  ELSE /\ installs < MaxInstalls
       /\ installs' = installs + 1
       /\ globals' = [globals EXCEPT ![l] = IF capture THEN @ \cup {installs'} ELSE @]
       /\ remover' = [remover EXCEPT ![l] = installs']

(* new, and anew() of another logger with its options. *)
Construct(l, flush, capture) ==
  /\ Alive /\ l \notin made /\ (capture => runtime = Browser)
  /\ made' = made \cup {l}
  /\ capturing' = IF capture THEN capturing \cup {l} ELSE capturing
  /\ IF capture THEN Install(l, TRUE) ELSE UNCHANGED <<globals, remover, installs>>
  /\ IF flush THEN Register(l) ELSE UNCHANGED registration
  /\ UNCHANGED <<host, closed, returned, repeated, process, records>>

Anew(m, l) ==
  /\ m \in made \ closed
  /\ Construct(l, m \in registered, m \in capturing)

(* installGlobalHandlers() of the application, and a call of what it returned. *)
InstallGlobalHandlers(l) ==
  /\ runtime = Browser /\ l \in made
  /\ Install(l, l \in capturing)
  /\ returned' = IF remover'[l] = 0 THEN returned ELSE returned \cup {<<l, remover'[l]>>}
  /\ UNCHANGED <<host, made, closed, registration, capturing, repeated, process, records>>

CallRemover(l, i) ==
  /\ <<l, i>> \in returned
  /\ globals' = [globals EXCEPT ![l] = @ \ {i}]
  /\ remover' = [remover EXCEPT ![l] = 0]
  /\ repeated' = (repeated \/ remover[l] \notin {0, i})
  /\ UNCHANGED <<host, made, closed, registration, capturing, returned, installs, process, records>>

(* installUnloadHandlers(), and a call of what it returned. *)
InstallUnloadHandlers(l) ==
  /\ runtime = Browser /\ l \in made \ registered
  /\ Register(l)
  /\ UNCHANGED <<host, made, closed, errors, process, records>>

RemoveUnloadHandlers(l) ==
  /\ runtime = Browser /\ l \in made \cap registered
  /\ Unregister(l)
  /\ UNCHANGED <<host, made, closed, errors, process, records>>

-----------------------------------------------------------------------------
(* Records, flushes and the end of the host.                               *)
Flush(ls) == unsent' = unsent \ ls /\ taken' = taken \cup (ls \cap unsent)

Log(l) ==
  /\ Alive /\ l \in made \ closed /\ l \notin unsent
  /\ unsent' = unsent \cup {l}
  /\ UNCHANGED <<host, made, closed, registration, errors, process, taken>>

(* An 'error' event of the page: each handler that listens makes a record. *)
PageError ==
  /\ runtime = Browser
  /\ unsent' = unsent \cup {l \in Loggers : globals[l] # {} /\ l \notin closed}
  /\ UNCHANGED <<host, made, closed, registration, errors, process, taken>>

FlushEnds(l) ==
  /\ Alive /\ l \in taken \cup flushing
  /\ taken' = taken \ {l} /\ flushing' = flushing \ {l}
  /\ UNCHANGED <<host, made, closed, registration, errors, signals, shutdown, dead, unsent>>

Close(l) ==
  /\ Alive /\ l \in made \ closed
  /\ closed' = closed \cup {l}
  /\ IF l \in registered THEN Unregister(l) ELSE UNCHANGED registration
  /\ Flush({l})
  /\ UNCHANGED <<host, made, errors, process>>

(* pagehide, beforeunload or unload; the page may come back. *)
Unload ==
  /\ runtime \in {Browser, Deno} /\ handlers # {}
  /\ Flush(registered)
  /\ UNCHANGED <<host, made, closed, registration, errors, process>>

(* handleBunBeforeExit: the event loop is empty, so nothing is being flushed. *)
BeforeExit ==
  /\ runtime = Bun /\ Alive /\ "exit" \in handlers /\ taken \cup flushing = {}
  /\ handlers' = handlers \ {"exit"}
  /\ Flush(registered)
  /\ UNCHANGED <<host, made, closed, registered, installed, errors, process>>

(* SIGINT or SIGTERM: handleBunSignal, or the default without a listener. *)
Signal ==
  /\ runtime = Bun /\ Alive /\ signals < MaxSignals
  /\ signals' = signals + 1
  /\ IF "signals" \in handlers /\ shutdown = "no"
     THEN /\ shutdown' = "flushing" /\ flushing' = registered /\ Flush(registered)
          /\ UNCHANGED dead
     ELSE /\ dead' = IF "signals" \in handlers \/ otherListeners THEN dead ELSE "default"
          /\ UNCHANGED <<shutdown, flushing, unsent, taken>>
  /\ UNCHANGED <<host, made, closed, registration, errors>>

RaiseUnflushed ==       \* a slip: the flush is not awaited
  /\ shutdown = "flushing" /\ Alive
  /\ shutdown' = "raised"
  /\ RemoveHandlers
  /\ dead' = IF otherListeners THEN dead ELSE "raised"
  /\ UNCHANGED <<host, made, closed, registered, errors, signals, flushing, records>>

(* The rest of handleBunSignal: every flush has settled. *)
Raise ==
  /\ shutdown = "flushing" /\ Alive /\ flushing = {}
  /\ shutdown' = "raised"
  /\ RemoveHandlers
  /\ dead' = IF otherListeners THEN dead ELSE "raised"
  /\ UNCHANGED <<host, made, closed, registered, errors, signals, flushing, records>>

Next ==
  \/ \E l \in Loggers, flush, capture \in BOOLEAN : Construct(l, flush, capture)
  \/ \E m, l \in Loggers : Anew(m, l)
  \/ \E l \in Loggers : InstallGlobalHandlers(l) \/ InstallUnloadHandlers(l) \/ RemoveUnloadHandlers(l)
  \/ \E l \in Loggers, i \in 1..MaxInstalls : CallRemover(l, i)
  \/ \E l \in Loggers : Log(l) \/ FlushEnds(l) \/ Close(l)
  \/ PageError \/ Unload \/ BeforeExit \/ Signal \/ Raise

(* A flush is bounded by its timeout, and its promise is handled. *)
Fairness == WF_vars(Raise) /\ \A l \in Loggers : WF_vars(FlushEnds(l))

Spec == Init /\ [][Next]_vars /\ Fairness

-----------------------------------------------------------------------------
(* The host calls the loggers back exactly as long as one of them is        *)
(* registered (src/browser-logger.ts:73-83, src/bun-logger.ts:93-103,       *)
(* src/deno-logger.ts:34-42), whatever the order in which loggers are made, *)
(* derived, closed, unhooked and hooked again; but for a Bun process that   *)
(* survived its signal, and for beforeExit, which is heard once.            *)
HandlersMatch ==
  LET listening == IF runtime = Bun THEN "signals" \in handlers ELSE handlers # {} IN
    hostable /\ shutdown # "raised" => (listening <=> registered # {})

(* An error of the page is one record of each logger that captures errors,  *)
(* none after its handlers were removed, as long as the application calls   *)
(* what installGlobalHandlers() returned no later than it should: the stale *)
(* one also forgets the handlers that are there (240-252).                  *)
ReportedOnce ==
  ~repeated => \A l \in Loggers :
    globals[l] = IF remover[l] # 0 /\ l \in capturing THEN {remover[l]} ELSE {}

(* A signal that the loggers caught first kills the process with nothing of *)
(* theirs half flushed, and one without listeners of its own does die of it *)
(* (src/bun-logger.ts:57-66), though loggers close or are made meanwhile.   *)
SignalKills ==
  /\ [](dead = "raised" => flushing = {})
  /\ (shutdown = "flushing") ~> (~Alive \/ otherListeners)
=============================================================================
