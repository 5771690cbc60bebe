--------------------------- MODULE TwoPhaseShutdown ---------------------------
(***************************************************************************)
(* What the repository's shutdown contract (docs/context-and-shutdown.md,  *)
(* section 2) asks of every two-phase shutdown, whatever runs underneath:  *)
(* one optional graceful drain, one optional forced phase after it, then   *)
(* stopped, then completion reported once. Nothing ever goes back.         *)
(*                                                                         *)
(* ShutdownCoordinator and ServerLifecycle are shown to implement it.      *)
(***************************************************************************)
VARIABLES
  phase,                  \* "running", "draining", "forcing" or "stopped"
  forced,                 \* the forced phase was entered
  completed               \* the result was handed to the waiters

vars == <<phase, forced, completed>>

Init ==
  /\ phase = "running"
  /\ forced = FALSE
  /\ completed = FALSE

BeginDrain ==
  /\ phase = "running"
  /\ phase' = "draining"
  /\ UNCHANGED <<forced, completed>>

BeginForce ==
  /\ phase \in {"running", "draining"}
  /\ phase' = "forcing"
  /\ forced' = TRUE
  /\ UNCHANGED completed

(* The result may be handed over at once, or later (Complete). *)
Stop ==
  /\ phase \in {"draining", "forcing"}
  /\ phase' = "stopped"
  /\ completed' \in BOOLEAN
  /\ UNCHANGED forced

Complete ==
  /\ phase = "stopped"
  /\ ~completed
  /\ completed' = TRUE
  /\ UNCHANGED <<phase, forced>>

Next == BeginDrain \/ BeginForce \/ Stop \/ Complete

Spec == Init /\ [][Next]_vars
=============================================================================
