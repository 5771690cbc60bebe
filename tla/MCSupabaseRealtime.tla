-------------------------- MODULE MCSupabaseRealtime --------------------------
(* SupabaseRealtime needs no constant operators: every value is in a cfg. *)
EXTENDS SupabaseRealtime
=============================================================================
