------------------------------ MODULE MCShutdown ------------------------------
(* The package's shutdown machines: the coordinator with any hooks, the      *)
(* coordinator with the hooks of a Node server, and the server lifecycle     *)
(* controller. A behaviour is about one of them, named by `part`; the others *)
(* stay as they begin. Two servers, of which the second may not be listening *)
(* (the controller's are).                                                   *)
EXTENDS NodeHttpShutdown

CONSTANTS
  s1, s2,
  Parts,
  MaxHttpRequests,        \* bound: requests, signals and ends of stdin of a Node server
  WatchStdinEof, MayDispose

VARIABLES
  part,
  stage, graceful, forcing, flushPromise, server, timeout, signals, eofArmed,
  eofListening, eof, disposedOf, resolved, early, called     \* ServerLifecycle

lifecycleVars == <<stage, graceful, forcing, flushPromise, server, timeout, signals, eofArmed,
                   eofListening, eof, disposedOf, resolved, early, called>>

TwoServers == {s1, s2}
SecondUnbound == {s2}

H == INSTANCE NodeHttpShutdown WITH
  Throwing <- {}, Reentrant <- FALSE, MaxRequests <- MaxHttpRequests
L == INSTANCE ServerLifecycle WITH
  phase <- stage, flush <- flushPromise, stdinEnded <- eof, disposed <- disposedOf, calls <- called

(* Beside a coordinator with other hooks all servers are closed, and who     *)
(* asked it to force is not written down.                                    *)
NoServers ==
  /\ listening = {} /\ open = [s \in Servers |-> 0]
  /\ callbacks = [s \in Servers |-> "ok"]
  /\ accepted = 0 /\ cut = 0
  /\ stdinEnded = FALSE /\ disposed = FALSE /\ forceAsked = TRUE

ShutdownInit ==
  /\ part \in Parts
  /\ IF part = "servers" THEN H!HttpInit ELSE Init /\ NoServers
  /\ L!Init

ShutdownNext ==
  /\ UNCHANGED part
  /\ \/ part = "hooks" /\ Next /\ UNCHANGED <<serverVars, signalVars, lifecycleVars>>
     \/ part = "servers" /\ H!HttpNext /\ UNCHANGED lifecycleVars
     \/ part = "lifecycle" /\ L!Next /\ UNCHANGED httpVars

ShutdownSpec ==
  /\ ShutdownInit
  /\ [][ShutdownNext]_<<part, httpVars, lifecycleVars>>
  /\ part = "hooks" => Fairness
  /\ part = "servers" => H!HttpFairness
  /\ part = "lifecycle" => L!Fairness

-----------------------------------------------------------------------------
(* A drain of the lifecycle controller has a deadline and a forced phase    *)
(* none, and a result leaves no deadline and no listener behind, unless     *)
(* dispose() came early (src/server-lifecycle.ts:380-428, 503).             *)
DeadlineKept == L!DeadlineKept

(* Its hooks run at most once, flush among them, and the forced phase stops *)
(* the graceful sequence wherever that waits                                *)
(* (src/server-lifecycle.ts:505-535).                                       *)
HooksOnce == L!HooksOnce

(* Whatever hangs, it comes to a result, unless dispose() came early        *)
(* (src/server-lifecycle.ts:470-486, 503).                                  *)
Resolves == L!Resolves

(* It implements TwoPhaseShutdown: one drain, one forced phase after it,    *)
(* one result (src/server-lifecycle.ts:400-535).                            *)
TwoPhaseSpec == L!TwoPhaseSpec
=============================================================================
