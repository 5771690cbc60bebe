---------------------------- MODULE MCBrowserStream ----------------------------
(* BrowserStream needs no constant operators: every value is in a cfg. *)
EXTENDS BrowserStream
=============================================================================
