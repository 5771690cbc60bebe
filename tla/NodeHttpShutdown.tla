--------------------------- MODULE NodeHttpShutdown ---------------------------
(***************************************************************************)
(* createNodeHttpShutdown and installNodeShutdownSignals of                *)
(* src/node-shutdown.ts, composed with the coordinator they drive.         *)
(*                                                                         *)
(* The coordinator's drain hook closes every server and waits for all of   *)
(* their callbacks; its force hook closes each server again, destroys its  *)
(* connections at once, and awaits forceCloseUpgrades. SIGINT and SIGTERM  *)
(* always ask the coordinator; stdin's end does in an interactive process, *)
(* and fires once.                                                         *)
(*                                                                         *)
(* A server (node:http, external) accepts connections until close() and    *)
(* runs the close callback when the last one is gone, or with an error     *)
(* when it was not listening. Idle connections are not told apart from     *)
(* busy ones: a connection may end at any time.                            *)
(***************************************************************************)
EXTENDS ShutdownCoordinator, FiniteSets

CONSTANTS
  Servers,
  MaxConnections,         \* bound: connections accepted in all
  Interactive,            \* stdin is a terminal, or options.interactive
  Unbound                 \* the servers that may not be listening

ASSUME ServersAssumption ==
  /\ IsFiniteSet(Servers) /\ Servers # {}
  /\ MaxConnections \in Nat
  /\ Interactive \in BOOLEAN
  /\ Unbound \subseteq Servers

VARIABLES
  listening,              \* servers that accept connections
  open,                   \* each server's open connections
  callbacks,              \* each server's drain callback: "none", "due", "ok", "error"
  accepted,               \* connections accepted so far
  cut,                    \* history: connections destroyed before they ended
  stdinEnded,             \* stdin's 'end' has fired
  disposed,               \* the signal listeners were removed
  forceAsked              \* history: handle.request was called with force

coordinator == vars      \* the variables of ShutdownCoordinator
serverVars == <<listening, open, callbacks, accepted, cut>>
signalVars == <<stdinEnded, disposed, forceAsked>>
httpVars == <<coordinator, serverVars, signalVars>>

(* Both hooks are async functions, which do not throw before they have      *)
(* returned a promise. Left out: an onEvent that calls request() itself,    *)
(* which ShutdownCoordinator has.                                           *)
HttpHooks == Throwing = {} /\ Reentrant = FALSE

HttpInit ==
  /\ HttpHooks /\ Init
  /\ \E unbound \in SUBSET Unbound : listening = Servers \ unbound
  /\ open = [s \in Servers |-> 0]
  /\ callbacks = [s \in Servers |-> "none"]
  /\ accepted = 0 /\ cut = 0
  /\ stdinEnded = FALSE /\ disposed = FALSE /\ forceAsked = FALSE

-----------------------------------------------------------------------------
(* The drain hook: close() stops a listening server and its callback is     *)
(* due when its connections are gone; on a server that does not listen the  *)
(* callback gets an error.                                                  *)
CloseServers ==
  /\ listening' = {}
  /\ callbacks' = [s \in Servers |-> IF s \in listening THEN "due" ELSE "error"]
  /\ UNCHANGED <<open, accepted, cut>>

Sum(f) ==
  LET sum[S \in SUBSET Servers] ==
        IF S = {} THEN 0
        ELSE LET s == CHOOSE s \in S : TRUE IN f[s] + sum[S \ {s}]
  IN  sum[Servers]

CutWithoutClose ==        \* a slip: closeAllConnections() without close() first
  /\ open' = [s \in Servers |-> 0]
  /\ cut' = cut + Sum(open)
  /\ UNCHANGED <<listening, callbacks, accepted>>

(* The force hook's loop over the servers, before its first await. *)
CutConnections ==
  /\ listening' = {}
  /\ open' = [s \in Servers |-> 0]
  /\ cut' = cut + Sum(open)
  /\ UNCHANGED <<callbacks, accepted>>

(* The coordinator called the drain hook, the force hook, or neither. *)
RunHooks ==
  IF drain' = "pending" /\ drain = "none" THEN CloseServers
  ELSE IF force' = "pending" /\ force = "none" THEN CutConnections
  ELSE UNCHANGED serverVars

-----------------------------------------------------------------------------
SignalAlwaysForces ==     \* a slip: every signal asks for the forced phase
  /\ ~disposed
  /\ Request(TRUE)
  /\ RunHooks
  /\ UNCHANGED signalVars

(* SIGINT or SIGTERM. *)
Signal ==
  /\ ~disposed
  /\ Request(phase = "draining")
  /\ RunHooks
  /\ UNCHANGED signalVars

StdinEnd ==
  /\ Interactive /\ ~disposed /\ ~stdinEnded
  /\ stdinEnded' = TRUE
  /\ Request(phase = "draining")
  /\ RunHooks
  /\ UNCHANGED <<disposed, forceAsked>>

(* handle.request(trigger, force). *)
HandleRequest(force_) ==
  /\ Request(force_)
  /\ RunHooks
  /\ forceAsked' = (forceAsked \/ force_)
  /\ UNCHANGED <<stdinEnded, disposed>>

Dispose ==
  /\ ~disposed
  /\ disposed' = TRUE
  /\ UNCHANGED <<coordinator, serverVars, stdinEnded, forceAsked>>

TimerStops ==             \* a slip: the deadline stops without the forced phase
  /\ timer
  /\ Finish({})
  /\ UNCHANGED <<attempt, forced, drain, force, flush, completed, calls,
                 reentered, serverVars, signalVars>>

DeadlineFires ==
  /\ TimerFires
  /\ RunHooks
  /\ UNCHANGED signalVars

-----------------------------------------------------------------------------
Connect(s) ==
  /\ s \in listening
  /\ accepted < MaxConnections
  /\ accepted' = accepted + 1
  /\ open' = [open EXCEPT ![s] = @ + 1]
  /\ UNCHANGED <<coordinator, signalVars, listening, callbacks, cut>>

ConnectionEnds(s) ==
  /\ open[s] > 0
  /\ open' = [open EXCEPT ![s] = @ - 1]
  /\ UNCHANGED <<coordinator, signalVars, listening, callbacks, accepted, cut>>

(* A closing server's last connection is gone: its close callback runs. *)
CloseCallback(s) ==
  /\ callbacks[s] = "due"
  /\ open[s] = 0
  /\ callbacks' = [callbacks EXCEPT ![s] = "ok"]
  /\ UNCHANGED <<coordinator, signalVars, listening, open, accepted, cut>>

ServersDrainOnFirst ==   \* a slip: Promise.race in place of Promise.all
  /\ \E s \in Servers : callbacks[s] = "ok"
  /\ DrainResolves
  /\ UNCHANGED <<serverVars, signalVars>>

(* Promise.all over closeServer: all callbacks ran, or one had an error. *)
ServersDrain ==
  /\ \A s \in Servers : callbacks[s] = "ok"
  /\ DrainResolves
  /\ UNCHANGED <<serverVars, signalVars>>

ServerFails ==
  /\ \E s \in Servers : callbacks[s] = "error"
  /\ DrainRejects
  /\ RunHooks
  /\ UNCHANGED signalVars

Continues ==
  /\ ForceSettles \/ ObserverSettles \/ StartFlush \/ FlushSettles
  /\ UNCHANGED <<serverVars, signalVars>>

-----------------------------------------------------------------------------
HttpNext ==
  \/ Signal \/ StdinEnd \/ Dispose \/ DeadlineFires
  \/ \E force_ \in BOOLEAN : HandleRequest(force_)
  \/ \E s \in Servers : Connect(s) \/ ConnectionEnds(s) \/ CloseCallback(s)
  \/ ServersDrain \/ ServerFails
  \/ Continues

HttpSpec == HttpInit /\ [][HttpNext]_httpVars

(* The timer fires, the servers' callbacks run, and closeServer and #finish *)
(* go on. A connection may stay open for ever, and of the application no    *)
(* hook need settle, nor an observer.                                       *)
HttpFairness ==
  /\ WF_httpVars(DeadlineFires)
  /\ WF_httpVars(StartFlush /\ UNCHANGED <<serverVars, signalVars>>)
  /\ WF_httpVars(ServersDrain) /\ WF_httpVars(ServerFails)
  /\ \A s \in Servers : WF_httpVars(CloseCallback(s))

-----------------------------------------------------------------------------
(* A shutdown that was not forced destroyed nobody's connection and stopped *)
(* only when every server was closed and idle (163-166). Once the forced    *)
(* phase has begun no connection is open and none can be accepted any more, *)
(* the accept race that the comment at 168 names. And one terminating event *)
(* never cuts work short: without a caller's explicit force or a server     *)
(* that failed to close, the forced phase took two events, the timer's      *)
(* included, and stdin's end counts once (97-103,                           *)
(* docs/context-and-shutdown.md:148-153).                                   *)
OnlyForceCuts ==
  /\ ~forced => cut = 0
  /\ finished /\ ~forced => \A s \in Servers : callbacks[s] = "ok" /\ open[s] = 0
  /\ forced => listening = {} /\ \A s \in Servers : open[s] = 0
  /\ forced /\ ~forceAsked /\ drain # "failed" => attempt >= 2

(* Once anybody asked, it comes to where no server listens and no           *)
(* connection is open, and that for good: also when connections never end,  *)
(* a server was not listening, or the signal handlers were removed during   *)
(* the drain; and whatever the application's hooks do, since what cuts runs *)
(* before the force hook's first await (162-180, src/shutdown.ts:205-207).  *)
Emptied ==
  attempt > 0 ~> [](listening = {} /\ \A s \in Servers : open[s] = 0)
=============================================================================
