-------------------------------- MODULE WasmHost --------------------------------
(***************************************************************************)
(* The imports that createWasmLoggerHost() of src/wasm-logger.ts gives to a *)
(* WebAssembly module: emit_json and emit_utf8 are synchronous, answer 0 or *)
(* -1, and leave the delivery to promises that flush() waits for. A payload *)
(* may be no text or no record ("bad"), or one whose members make the       *)
(* logger throw while the event is being built ("hurts"). Left out: levels, *)
(* what the record says, and waitUntil(), which is given the same promises. *)
(* The logger is seen from its promises: a send() settles at some time, and *)
(* its flush() waits for those of its own.                                  *)
(***************************************************************************)
EXTENDS Naturals

CONSTANTS MaxPayloads, MaxFlushes       \* bounds: calls of an import, and of flush()

VARIABLES
  answers,         \* call -> 0 or "-1"
  sent,            \* the records sent: [call, error]
  left,            \* calls whose event was built and not sent
  pending,         \* the host's promises, by record
  settled,         \* the promises that settled
  flushes          \* flush() -> its phase, what it waits for, what was sent before it

vars == <<answers, sent, left, pending, settled, flushes>>

Init ==
  /\ answers = <<>> /\ sent = {} /\ left = {} /\ pending = {} /\ settled = {}
  /\ flushes = <<>>

Calls == DOMAIN answers
Call == IF Calls = {} THEN 1 ELSE 1 + CHOOSE n \in Calls : \A m \in Calls : m <= n
Extend(f, x, y) == [z \in DOMAIN f \cup {x} |-> IF z = x THEN y ELSE f[z]]

TrackNothing(records) == pending       \* a slip: flush() is not told of them

(* track: what flush() looks at. *)
Track(records) == pending \cup records

(* The call sends these records; they are tracked. *)
Sends(records, answer) ==
  /\ sent' = sent \cup records
  /\ pending' = Track(records)
  /\ answers' = Extend(answers, Call, answer)
  /\ UNCHANGED <<settled, flushes>>

Payload(error) == [call |-> Call, error |-> error]

(* decode and emitPayload for a record. *)
Emit ==
  /\ Call <= MaxPayloads
  /\ Sends({Payload(FALSE)}, "0")
  /\ UNCHANGED left

(* reportDecodeError, for what decode() refuses and for what is no record;  *)
(* decorateEvent has left an event behind if it threw. A logger that throws *)
(* is told nothing.                                                        *)
Refuse(hurts, broken) ==
  /\ Call <= MaxPayloads
  /\ Sends(IF broken THEN {} ELSE {Payload(TRUE)}, "-1")
  /\ left' = IF hurts /\ ~broken THEN left \cup {Call} ELSE left

(* send() settles; the host forgets the promise in a reaction to it. *)
Settle(r) ==
  /\ r \in sent \ settled
  /\ settled' = settled \cup {r}
  /\ UNCHANGED <<answers, sent, left, pending, flushes>>

Cleanup(r) ==
  /\ r \in pending \cap settled
  /\ pending' = pending \ {r}
  /\ UNCHANGED <<answers, sent, left, settled, flushes>>

(* flush(): the promises of the host, then the logger's own flush(), which  *)
(* may run into its timeout.                                               *)
Flush ==
  /\ \A n \in 1..MaxFlushes : n \in DOMAIN flushes => flushes[n].phase = "over"
  /\ \E n \in 1..MaxFlushes :
       /\ n \notin DOMAIN flushes /\ \A m \in 1..(n - 1) : m \in DOMAIN flushes
       /\ flushes' = Extend(flushes, n, [phase |-> "host", awaits |-> pending, before |-> sent])
  /\ UNCHANGED <<answers, sent, left, pending, settled>>

LoggerFlush(n) ==
  /\ flushes[n].phase = "host" /\ flushes[n].awaits \subseteq settled
  /\ flushes' = [flushes EXCEPT ![n].phase = "logger", ![n].awaits = sent \ settled]
  /\ UNCHANGED <<answers, sent, left, pending, settled>>

FlushResolves(n, timeout) ==
  /\ flushes[n].phase = "logger" /\ (timeout \/ flushes[n].awaits \subseteq settled)
  /\ flushes' = [flushes EXCEPT ![n].phase = "over"]
  /\ UNCHANGED <<answers, sent, left, pending, settled>>

Next ==
  \/ Emit \/ \E hurts, broken \in BOOLEAN : Refuse(hurts, broken)
  \/ \E r \in sent : Settle(r) \/ Cleanup(r)
  \/ Flush
  \/ \E n \in DOMAIN flushes : LoggerFlush(n) \/ \E timeout \in BOOLEAN : FlushResolves(n, timeout)

Spec == Init /\ [][Next]_vars

-----------------------------------------------------------------------------
(* A flush() that resolved has seen the end of every record sent before it  *)
(* was called, although its timeout bounds only the logger's part and       *)
(* records come and settle meanwhile; and the module is told 0 exactly for  *)
(* a payload that was sent itself (src/wasm-logger.ts:168-231).             *)
FlushWaits ==
  /\ \A n \in DOMAIN flushes : flushes[n].phase = "over" => flushes[n].before \subseteq settled
  /\ \A n \in Calls : answers[n] = "0" <=> [call |-> n, error |-> FALSE] \in sent
  /\ \A n \in left : answers[n] = "-1"
=============================================================================
