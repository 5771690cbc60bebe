----------------------------- MODULE LokiTransport -----------------------------
(***************************************************************************)
(* LokiTransport of src/loki.ts: a bounded queue emptied one batch at a    *)
(* time, each batch with its own retries, the next one started from the    *)
(* finally of the last; a timer, flushOnExit() callers and close() beside  *)
(* it. Every write() returns a promise that its batch settles.             *)
(*                                                                         *)
(* An action is one JavaScript turn. The flush is "posting" while a fetch  *)
(* is outstanding, "sleeping" between two attempts, and "settled" when its *)
(* records' promises have settled but finally has not run: continuations   *)
(* of write() run in that gap, timers do not (Quiet).                      *)
(*                                                                         *)
(* Records are numbered in the order they are written; a write after       *)
(* close() is rejected and not counted. Left out: labels and payload, the  *)
(* delays, and which response is retryable (any failure may be).           *)
(***************************************************************************)
EXTENDS Naturals, Sequences, FiniteSets, SequencesExt

CONSTANTS
  MaxRecords,             \* bound: how many records are written
  BatchSize, MaxQueueSize, MaxRetries,
  Exits                   \* concurrent callers of flushOnExit

ASSUME LokiAssumption ==
  /\ MaxRecords \in Nat /\ MaxRetries \in Nat
  /\ BatchSize \in Nat \ {0}
  /\ MaxQueueSize \in Nat /\ MaxQueueSize >= BatchSize
  /\ "close" \notin Exits

Records == 1..MaxRecords
Callers == Exits \cup {"close"}

VARIABLES
  queue, written,
  timer,
  stage,                  \* the flush: "idle", "posting", "sleeping", "settled"
  batch, attempt,         \* the records it sends, and which attempt this is
  rejects,                \* flushPromise will reject
  pc,                     \* each flushOnExit: "idle", "waiting", "resumed"
  closing,                \* close(): "open", "closing", "closed", "failed"
  delivered, failed, evicted  \* history: how each write()'s promise settled

vars == <<queue, written, timer, stage, batch, attempt, rejects, pc, closing,
          delivered, failed, evicted>>

Flushing == stage # "idle"                \* flushPromise is not null
Quiet == stage # "settled" /\ \A c \in Callers : pc[c] # "resumed"

Init ==
  /\ queue = <<>> /\ written = 0
  /\ timer = FALSE
  /\ stage = "idle" /\ batch = <<>> /\ attempt = 0 /\ rejects = FALSE
  /\ pc = [c \in Callers |-> "idle"]
  /\ closing = "open"
  /\ delivered = {} /\ failed = {} /\ evicted = {}

-----------------------------------------------------------------------------
Least(a, b) == IF a <= b THEN a ELSE b

(* A new flush takes the first batch of q. *)
Start(q) ==
  LET n == Least(BatchSize, Len(q)) IN
    /\ batch' = SubSeq(q, 1, n)
    /\ queue' = SubSeq(q, n + 1, Len(q))
    /\ stage' = "posting"
    /\ attempt' = 1
    /\ rejects' = FALSE
    /\ timer' = FALSE

FlushAnew(q) ==           \* a slip: flushPromise is not looked at
  IF q = <<>>
  THEN queue' = q /\ timer' = FALSE /\ UNCHANGED <<stage, batch, attempt, rejects>>
  ELSE Start(q)

(* flush(): joins the one under way, or starts one if there is anything. *)
Flush(q) ==
  IF Flushing
  THEN queue' = q /\ UNCHANGED <<timer, stage, batch, attempt, rejects>>
  ELSE IF q = <<>>
  THEN queue' = q /\ timer' = FALSE /\ UNCHANGED <<stage, batch, attempt, rejects>>
  ELSE Start(q)

Full == Len(queue) >= MaxQueueSize

Enqueued(r) == Append(IF Full THEN Tail(queue) ELSE queue, r)

(* write(): evict the oldest, push, then flush a full batch or schedule. *)
Write ==
  LET r == written + 1
      q == Enqueued(r)
  IN
    /\ closing = "open"
    /\ r \in Records
    /\ written' = r
    /\ evicted' = IF Full THEN evicted \cup {Head(queue)} ELSE evicted
    /\ IF Len(q) >= BatchSize THEN Flush(q)
       ELSE /\ queue' = q
            /\ timer' = TRUE
            /\ UNCHANGED <<stage, batch, attempt, rejects>>
    /\ UNCHANGED <<pc, closing, delivered, failed>>

(* The application, or logger.flush(). *)
FlushCall ==
  /\ ~Flushing
  /\ Flush(queue)
  /\ UNCHANGED <<written, pc, closing, delivered, failed, evicted>>

TimerFires ==
  /\ Quiet
  /\ timer
  /\ IF Flushing
     THEN timer' = FALSE /\ UNCHANGED <<queue, stage, batch, attempt, rejects>>
     ELSE Flush(queue)
  /\ UNCHANGED <<written, pc, closing, delivered, failed, evicted>>

-----------------------------------------------------------------------------
(* push() resolves: the writes of the batch resolve. *)
PostSucceeds ==
  /\ stage = "posting"
  /\ stage' = "settled"
  /\ delivered' = delivered \cup Range(batch)
  /\ batch' = <<>>
  /\ UNCHANGED <<queue, written, timer, attempt, rejects, pc, closing, failed, evicted>>

(* An attempt fails in a way that may be tried again. *)
AttemptFails ==
  /\ stage = "posting"
  /\ attempt <= MaxRetries
  /\ stage' = "sleeping"
  /\ UNCHANGED <<queue, written, timer, batch, attempt, rejects, pc, closing,
                 delivered, failed, evicted>>

SleepEnds ==
  /\ stage = "sleeping"
  /\ stage' = "posting"
  /\ attempt' = attempt + 1
  /\ UNCHANGED <<queue, written, timer, batch, rejects, pc, closing,
                 delivered, failed, evicted>>

PostFailsRequeues ==      \* a slip: the batch goes back to the queue
  /\ stage = "posting"
  /\ stage' = "settled"
  /\ rejects' = TRUE
  /\ queue' = queue \o batch
  /\ batch' = <<>>
  /\ UNCHANGED <<written, timer, attempt, pc, closing, delivered, failed, evicted>>

(* The last attempt fails, or one that is not to be retried. *)
PostFails ==
  /\ stage = "posting"
  /\ stage' = "settled"
  /\ rejects' = TRUE
  /\ failed' = failed \cup Range(batch)
  /\ batch' = <<>>
  /\ UNCHANGED <<queue, written, timer, attempt, pc, closing, delivered, evicted>>

-----------------------------------------------------------------------------
(* What a caller's flushOnExit loop and its close() become when the flush  *)
(* they await settles.                                                     *)
Wake ==
  /\ pc' = [c \in Callers |->
             IF pc[c] # "waiting" THEN pc[c] ELSE IF rejects THEN "idle" ELSE "resumed"]
  /\ closing' = IF pc["close"] = "waiting" /\ rejects THEN "failed" ELSE closing

FlushEndsIdle ==          \* a slip: the next batch is left to somebody else
  /\ stage = "settled"
  /\ Wake
  /\ stage' = "idle"
  /\ UNCHANGED <<queue, written, timer, batch, attempt, rejects, delivered, failed, evicted>>

(* The flush's finally: the next batch starts before its callers wake. *)
FlushEnds ==
  /\ stage = "settled"
  /\ Wake
  /\ IF queue # <<>> THEN Start(queue)
     ELSE stage' = "idle" /\ UNCHANGED <<queue, timer, batch, attempt, rejects>>
  /\ UNCHANGED <<written, delivered, failed, evicted>>

-----------------------------------------------------------------------------
Busy == queue # <<>> \/ Flushing

(* One turn of flushOnExit's loop. *)
ExitTurn(c) ==
  IF Busy THEN Flush(queue) /\ pc' = [pc EXCEPT ![c] = "waiting"]
  ELSE /\ pc' = [pc EXCEPT ![c] = "idle"]
       /\ UNCHANGED <<queue, timer, stage, batch, attempt, rejects>>

ExitCall(c) ==
  /\ pc[c] = "idle"
  /\ Busy
  /\ ExitTurn(c)
  /\ UNCHANGED <<written, closing, delivered, failed, evicted>>

ExitResumes(c) ==
  /\ pc[c] = "resumed"
  /\ ExitTurn(c)
  /\ UNCHANGED <<written, closing, delivered, failed, evicted>>

CloseCall ==
  /\ closing = "open"
  /\ IF Busy
     THEN closing' = "closing" /\ ExitTurn("close")
     ELSE /\ closing' = "closed"
          /\ timer' = FALSE
          /\ UNCHANGED <<queue, stage, batch, attempt, rejects, pc>>
  /\ UNCHANGED <<written, delivered, failed, evicted>>

(* close()'s flushOnExit goes round again, or returns. *)
CloseResumes ==
  /\ pc["close"] = "resumed"
  /\ IF Busy
     THEN ExitTurn("close") /\ UNCHANGED closing
     ELSE /\ closing' = "closed"
          /\ timer' = FALSE
          /\ pc' = [pc EXCEPT !["close"] = "idle"]
          /\ UNCHANGED <<queue, stage, batch, attempt, rejects>>
  /\ UNCHANGED <<written, delivered, failed, evicted>>

-----------------------------------------------------------------------------
Next ==
  \/ Write \/ FlushCall \/ TimerFires
  \/ PostSucceeds \/ AttemptFails \/ SleepEnds \/ PostFails \/ FlushEnds
  \/ \E c \in Exits : ExitCall(c) \/ ExitResumes(c)
  \/ CloseCall \/ CloseResumes

Spec == Init /\ [][Next]_vars

(* Timers and continuations run, and each attempt ends: fetch settles or    *)
(* is aborted after timeoutMillis (202-205). No attempt need ever succeed.  *)
FairSpec ==
  /\ Spec
  /\ WF_vars(TimerFires) /\ WF_vars(SleepEnds) /\ WF_vars(FlushEnds)
  /\ WF_vars(PostSucceeds \/ AttemptFails \/ PostFails)
  /\ WF_vars(CloseResumes) /\ \A c \in Exits : WF_vars(ExitResumes(c))

-----------------------------------------------------------------------------
Settled == delivered \cup failed \cup evicted

(* Batches leave in the order of the writes and one at a time: whatever was *)
(* delivered or failed is older than the batch under way, which is older    *)
(* than the queue, though the timer, full batches, flushOnExit() callers    *)
(* and the last flush's finally all start flushes (169-276). Evictions, at  *)
(* the head of the queue, may be younger than the batch. A close() that     *)
(* resolved left nothing waiting, nothing in flight and no timer, and       *)
(* nothing starts again afterwards (279-294).                               *)
InOrder ==
  /\ \A r \in delivered \cup failed, s \in Range(batch \o queue) : r < s
  /\ \A i, j \in 1..Len(batch \o queue) : i < j => (batch \o queue)[i] < (batch \o queue)[j]
  /\ closing = "closed" => queue = <<>> /\ ~Flushing /\ ~timer /\ Settled = 1..written

(* Every write()'s promise settles, whatever fails and whoever closes.      *)
EverySettles == \A r \in Records : r <= written ~> r \in Settled

(* The transport implements the ledger.                                     *)
Ledger == INSTANCE DeliveryLedger WITH
  GivesUp <- TRUE,
  pending <- Range(batch \o queue),
  dropped <- failed \cup evicted
LedgerSpec == Ledger!Spec
=============================================================================
