----------------------------- MODULE MCNodeLogger -----------------------------
(* One transport; one call beside the drain for a signal. *)
EXTENDS NodeLogger

CONSTANT t1
OneTransport == {t1}
TwoCalls == {"signal", "other"}
=============================================================================
