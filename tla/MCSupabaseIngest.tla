--------------------------- MODULE MCSupabaseIngest ---------------------------
(* Values for the constants of SupabaseIngest: the first record is refused,  *)
(* the fourth is larger than an exit batch may hold beside another one.      *)
EXTENDS SupabaseIngest

CONSTANT e1

MCBytes == [r \in Records |-> CASE r = 1 -> 9 [] r = 4 -> 4 [] OTHER -> 1]
OneExit == {e1}
=============================================================================
