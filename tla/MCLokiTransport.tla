---------------------------- MODULE MCLokiTransport ----------------------------
(* Two callers of flushOnExit, the logger and a page handler. *)
EXTENDS LokiTransport, TLC

CONSTANTS e1, e2
TwoExits == {e1, e2}
ExitSymmetry == Permutations(Exits)
=============================================================================
