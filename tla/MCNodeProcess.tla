---------------------------- MODULE MCNodeProcess ----------------------------
(* A process with one server and a logger with one transport. *)
EXTENDS NodeProcess

CONSTANTS t1, s1
OneTransport == {t1}
OneServer == {s1}
TwoCalls == {"signal", "other"}
=============================================================================
