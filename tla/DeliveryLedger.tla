---------------------------- MODULE DeliveryLedger ----------------------------
(***************************************************************************)
(* What a buffering transport promises its caller, without saying how: a   *)
(* record that was admitted stays the transport's responsibility until it  *)
(* is acknowledged by the remote end or reported as dropped, it is         *)
(* acknowledged at most once, and nothing is ever un-acknowledged.         *)
(*                                                                         *)
(* This is the promise of LogTransport.write / flush / close as the        *)
(* buffering transports document it. SupabaseIngest and LokiTransport are  *)
(* shown to implement it, BrowserStream is shown where it does not. Only   *)
(* Loki gives up: its batches have a last attempt.                         *)
(***************************************************************************)
CONSTANTS
  Records,                \* every record that may ever be written
  GivesUp                 \* a batch may fail for good

VARIABLES
  pending,                \* admitted, and neither acknowledged nor dropped
  delivered,              \* acknowledged by the remote end
  dropped                 \* given up, visibly (onDrop, a counter)

vars == <<pending, delivered, dropped>>

Known == pending \cup delivered \cup dropped

Init ==
  /\ pending = {}
  /\ delivered = {}
  /\ dropped = {}

(* A new record is admitted; older ones may be evicted to make room. *)
Admit(r, evicted) ==
  /\ r \notin Known
  /\ evicted \subseteq pending
  /\ pending' = (pending \ evicted) \cup {r}
  /\ dropped' = dropped \cup evicted
  /\ UNCHANGED delivered

(* A new record is refused: too large, or the transport is closed. *)
Refuse(r) ==
  /\ r \notin Known
  /\ dropped' = dropped \cup {r}
  /\ UNCHANGED <<pending, delivered>>

(* The remote end acknowledges a batch. *)
Deliver(batch) ==
  /\ batch \subseteq pending
  /\ pending' = pending \ batch
  /\ delivered' = delivered \cup batch
  /\ UNCHANGED dropped

(* The last attempt at a batch failed, and its writers are told so. *)
GiveUp(batch) ==
  /\ GivesUp
  /\ batch \subseteq pending
  /\ pending' = pending \ batch
  /\ dropped' = dropped \cup batch
  /\ UNCHANGED delivered

Next ==
  \/ \E r \in Records, evicted \in SUBSET pending : Admit(r, evicted)
  \/ \E r \in Records : Refuse(r)
  \/ \E batch \in SUBSET pending : Deliver(batch) \/ GiveUp(batch)

Spec == Init /\ [][Next]_vars
=============================================================================
