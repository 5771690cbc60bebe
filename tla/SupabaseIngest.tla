---------------------------- MODULE SupabaseIngest ----------------------------
(***************************************************************************)
(* SupabaseIngestTransport of src/supabase-ingest.ts: a bounded queue of   *)
(* serialized records, one shared flush loop (flushPromise), any number of *)
(* flushOnExit loops running beside it, an interval timer, a retry timer,  *)
(* and close().                                                            *)
(*                                                                         *)
(* JavaScript runs one turn at a time, so an action is the code between    *)
(* two awaits. A loop is at "posting" while its fetch is outstanding; the  *)
(* flush loop has left drain() but has not yet cleared flushPromise at     *)
(* "drained" and "threw"; a flushOnExit that awaits flushPromise is        *)
(* "waiting", and "resumed" once that promise has settled. Timers are      *)
(* tasks, which never run while such microtasks are due (Quiet).           *)
(*                                                                         *)
(* Records are numbered in the order write() is called. Left out: the HTTP *)
(* details of post() (only whether it resolves or rejects matters), the    *)
(* length of the delays, and the failure counters of snapshot().           *)
(***************************************************************************)
EXTENDS Naturals, Sequences, FiniteSets, SequencesExt

CONSTANTS
  MaxRecords,             \* bound: how many records are written
  Bytes,                  \* the serialized size of each record
  BatchSize, MaxQueueSize, MaxRecordBytes, MaxBatchBytes, MaxExitBatchBytes,
  EnvelopeBudget,         \* BATCH_ENVELOPE_BUDGET
  AwaitOptions,           \* the values options.awaitDelivery may have
  Exits                   \* concurrent callers of flushOnExit (page handlers, logger.flushOnExit)

Records == 1..MaxRecords
Loops == {"flush", "close"} \cup Exits

ASSUME LimitsAssumption ==
  /\ MaxRecords \in Nat
  /\ Bytes \in [Records -> Nat]
  /\ BatchSize \in Nat \ {0}
  /\ MaxQueueSize \in Nat \ {0}
  /\ MaxRecordBytes \in Nat
  /\ MaxBatchBytes \in Nat
  /\ MaxExitBatchBytes \in Nat
  /\ EnvelopeBudget \in Nat
  /\ AwaitOptions \subseteq BOOLEAN
ASSUME ExitsAssumption ==
  /\ IsFiniteSet(Exits)
  /\ Exits \cap {"flush", "close"} = {}

VARIABLES
  awaitDelivery,          \* the option, fixed by the constructor
  queue,                  \* CursorQueue: the records waiting, oldest first
  pc,                     \* where each loop is
  batch,                  \* the records of each loop's outstanding request
  interval, retry,        \* intervalTimer and retryTimer are armed
  accepting, closed,
  written,                \* records handed to write() so far
  delivered, dropped,     \* history: acknowledged; reported through onDrop
  waiters,                \* writes awaiting the current flushPromise
  overlapped              \* history: two loops had requests outstanding at once

vars == <<awaitDelivery, queue, pc, batch, interval, retry, accepting, closed, written,
          delivered, dropped, waiters, overlapped>>

Flushing == pc["flush"] # "idle"          \* flushPromise is not null
Quiet == \A l \in Loops : pc[l] \in {"idle", "posting", "waiting"}
InFlight == UNION {Range(batch[l]) : l \in Loops}
Settled == delivered \cup dropped

-----------------------------------------------------------------------------
(* takeBatch: the longest prefix within the count and byte budgets, though *)
(* never fewer than one record.                                            *)
PrefixBytes(q, n) ==
  FoldSeq(LAMBDA r, sum : sum + Bytes[r] + 1, EnvelopeBudget, SubSeq(q, 1, n))

Fitting(q, budget) ==
  {n \in 1..Len(q) : n <= BatchSize /\ (n = 1 \/ PrefixBytes(q, n) <= budget)}

Budget(l) == IF l = "flush" THEN MaxBatchBytes ELSE MaxExitBatchBytes

(* A slip Post must not make: send the batch but leave it queued. *)
PostPeeks(l, q) ==
  \E n \in Fitting(q, Budget(l)) :
    /\ \A m \in Fitting(q, Budget(l)) : m <= n
    /\ batch' = [batch EXCEPT ![l] = SubSeq(q, 1, n)]
    /\ queue' = q
    /\ pc' = [pc EXCEPT ![l] = "posting"]
    /\ overlapped' = (overlapped \/ \E k \in Loops \ {l} : pc[k] = "posting")

(* Loop l takes the next batch of q and starts its request. *)
Post(l, q) ==
  \E n \in Fitting(q, Budget(l)) :
    /\ \A m \in Fitting(q, Budget(l)) : m <= n
    /\ batch' = [batch EXCEPT ![l] = SubSeq(q, 1, n)]
    /\ queue' = SubSeq(q, n + 1, Len(q))
    /\ pc' = [pc EXCEPT ![l] = "posting"]
    /\ overlapped' = (overlapped \/ \E k \in Loops \ {l} : pc[k] = "posting")

(* Loop l finds q empty and moves to pc at. *)
Halt(l, q, at) ==
  /\ queue' = q
  /\ batch' = [batch EXCEPT ![l] = <<>>]
  /\ pc' = [pc EXCEPT ![l] = at]
  /\ UNCHANGED overlapped

(* One turn of drain()'s loop, and of flushOnExit's. *)
DrainTurn(q) ==
  IF q = <<>> THEN Halt("flush", q, "drained") ELSE Post("flush", q)

ExitTurn(l, q) ==
  IF q = <<>> THEN Halt(l, q, "idle") ELSE Post(l, q)

(* Slips Restore must not make: lose the batch, or queue it at the back. *)
RestoreLoses(l, at) ==
  /\ batch' = [batch EXCEPT ![l] = <<>>]
  /\ pc' = [pc EXCEPT ![l] = at]
  /\ UNCHANGED queue

RestoreBehind(l, at) ==
  /\ queue' = queue \o batch[l]
  /\ batch' = [batch EXCEPT ![l] = <<>>]
  /\ pc' = [pc EXCEPT ![l] = at]

(* Loop l's request failed: its batch goes back in front, and l moves to at. *)
Restore(l, at) ==
  /\ queue' = batch[l] \o queue
  /\ batch' = [batch EXCEPT ![l] = <<>>]
  /\ pc' = [pc EXCEPT ![l] = at]

(* flush(): joins the running flush or starts drain(), which clears timers. *)
Flush(q) ==
  IF Flushing
  THEN queue' = q /\ UNCHANGED <<pc, batch, interval, retry, overlapped>>
  ELSE /\ interval' = FALSE
       /\ retry' = FALSE
       /\ DrainTurn(q)

-----------------------------------------------------------------------------
Init ==
  /\ awaitDelivery \in AwaitOptions
  /\ queue = <<>>
  /\ pc = [l \in Loops |-> "idle"]
  /\ batch = [l \in Loops |-> <<>>]
  /\ interval = FALSE /\ retry = FALSE
  /\ accepting = TRUE /\ closed = FALSE
  /\ written = 0
  /\ delivered = {} /\ dropped = {}
  /\ waiters = {}
  /\ overlapped = FALSE

Acceptable(r) == accepting /\ Bytes[r] <= MaxRecordBytes

(* write() of a record that enqueue() refuses. *)
WriteRefused ==
  LET r == written + 1 IN
    /\ r \in Records
    /\ ~Acceptable(r)
    /\ written' = r
    /\ dropped' = dropped \cup {r}
    /\ UNCHANGED <<awaitDelivery, queue, pc, batch, interval, retry, accepting, closed,
                   delivered, waiters, overlapped>>

Full == Len(queue) >= MaxQueueSize

EnqueuedUnbounded(r) == Append(queue, r)     \* a slip: no room is made

(* enqueue(): the queue after r is pushed, the oldest record making room. *)
Enqueued(r) == Append(IF Full THEN Tail(queue) ELSE queue, r)

(* write() of an accepted record: a full batch or awaitDelivery flushes, *)
(* anything else arms the interval timer unless one is armed.            *)
Write ==
  LET r == written + 1 IN
    /\ r \in Records
    /\ Acceptable(r)
    /\ written' = r
    /\ dropped' = IF Full THEN dropped \cup {Head(queue)} ELSE dropped
    /\ IF awaitDelivery \/ Len(Enqueued(r)) >= BatchSize
       THEN Flush(Enqueued(r))
       ELSE /\ queue' = Enqueued(r)
            /\ interval' = (interval \/ ~retry)
            /\ UNCHANGED <<pc, batch, retry, overlapped>>
    /\ waiters' = IF awaitDelivery THEN waiters \cup {r} ELSE waiters
    /\ UNCHANGED <<awaitDelivery, accepting, closed, delivered>>

(* The application, or logger.flush(), calls flush(). *)
FlushCall ==
  /\ ~Flushing
  /\ Flush(queue)
  /\ UNCHANGED <<awaitDelivery, accepting, closed, written, delivered, dropped, waiters>>

(* A timer callback: forget the timer, then flush(). *)
TimerFires ==
  /\ Quiet
  /\ interval \/ retry
  /\ IF Flushing
     THEN /\ \/ interval /\ interval' = FALSE /\ UNCHANGED retry
             \/ retry /\ retry' = FALSE /\ UNCHANGED interval
          /\ UNCHANGED <<queue, pc, batch, overlapped>>
     ELSE Flush(queue)
  /\ UNCHANGED <<awaitDelivery, accepting, closed, written, delivered, dropped, waiters>>

-----------------------------------------------------------------------------
(* post() resolves for drain(), and the loop turns. *)
DrainDelivers ==
  /\ pc["flush"] = "posting"
  /\ delivered' = delivered \cup Range(batch["flush"])
  /\ DrainTurn(queue)
  /\ UNCHANGED <<awaitDelivery, interval, retry, accepting, closed, written, dropped, waiters>>

(* post() rejects for drain(): the batch goes back in front. *)
DrainFails ==
  /\ pc["flush"] = "posting"
  /\ Restore("flush", "threw")
  /\ UNCHANGED <<awaitDelivery, interval, retry, accepting, closed, written, delivered,
                 dropped, waiters, overlapped>>

ReleaseForgets ==               \* a slip: nobody awaiting it is woken
  /\ pc' = [pc EXCEPT !["flush"] = "idle"]
  /\ UNCHANGED <<awaitDelivery, queue, batch, accepting, closed, written, delivered, dropped, waiters, overlapped>>

(* flushPromise settles: it is cleared, and those awaiting it wake up. *)
Release ==
  /\ pc' = [l \in Loops |-> IF l = "flush" THEN "idle"
                            ELSE IF pc[l] = "waiting" THEN "resumed" ELSE pc[l]]
  /\ waiters' = {}
  /\ UNCHANGED <<awaitDelivery, queue, batch, accepting, closed, written, delivered, dropped, overlapped>>

FlushResolves ==
  /\ pc["flush"] = "drained"
  /\ interval' = (interval \/ (accepting /\ ~retry /\ queue # <<>>))
  /\ Release
  /\ UNCHANGED retry

FlushRejectsUnarmed ==          \* a slip: no retry is scheduled
  /\ pc["flush"] = "threw"
  /\ Release
  /\ UNCHANGED <<interval, retry>>

FlushRejects ==
  /\ pc["flush"] = "threw"
  /\ IF accepting /\ ~retry /\ queue # <<>>
     THEN retry' = TRUE /\ interval' = FALSE
     ELSE UNCHANGED <<interval, retry>>
  /\ Release

-----------------------------------------------------------------------------
(* flushOnExit up to its first await: an empty queue returns at once, a *)
(* running flush is awaited, otherwise its own loop starts.             *)
ExitStart(l) ==
  IF queue # <<>> /\ Flushing
  THEN /\ pc' = [pc EXCEPT ![l] = "waiting"]
       /\ UNCHANGED <<queue, batch, overlapped>>
  ELSE ExitTurn(l, queue)

ExitCall(l) ==
  /\ pc[l] = "idle"
  /\ queue # <<>>
  /\ ExitStart(l)
  /\ UNCHANGED <<awaitDelivery, interval, retry, accepting, closed, written, delivered,
                 dropped, waiters>>

(* close(): stops accepting, clears the timers, and runs flushOnExit. *)
CloseCall ==
  /\ ~closed
  /\ pc["close"] = "idle"
  /\ accepting' = FALSE
  /\ interval' = FALSE
  /\ retry' = FALSE
  /\ ExitStart("close")
  /\ closed' = (queue = <<>>)
  /\ UNCHANGED <<awaitDelivery, written, delivered, dropped, waiters>>

(* performClose marks the transport closed once flushOnExit has returned. *)
ClosedAfter(l) == closed' = (closed \/ (l = "close" /\ queue = <<>>))

ExitResumes(l) ==
  /\ pc[l] = "resumed"
  /\ ExitTurn(l, queue)
  /\ ClosedAfter(l)
  /\ UNCHANGED <<awaitDelivery, interval, retry, accepting, written, delivered, dropped,
                 waiters>>

ExitDelivers(l) ==
  /\ pc[l] = "posting"
  /\ delivered' = delivered \cup Range(batch[l])
  /\ ExitTurn(l, queue)
  /\ ClosedAfter(l)
  /\ UNCHANGED <<awaitDelivery, interval, retry, accepting, written, dropped, waiters>>

(* post() rejects for a flushOnExit loop, which restores its batch and *)
(* rejects; a close() in progress may then be called again.            *)
ExitFails(l) ==
  /\ pc[l] = "posting"
  /\ Restore(l, "idle")
  /\ UNCHANGED <<awaitDelivery, interval, retry, accepting, closed, written, delivered,
                 dropped, waiters, overlapped>>

-----------------------------------------------------------------------------
ExitLoops == Loops \ {"flush"}

Calls ==
  \/ Write \/ WriteRefused \/ FlushCall \/ CloseCall
  \/ \E l \in Exits : ExitCall(l)

Settles ==
  \/ DrainDelivers \/ DrainFails \/ FlushResolves \/ FlushRejects
  \/ \E l \in ExitLoops : ExitResumes(l) \/ ExitDelivers(l) \/ ExitFails(l)

Next == Calls \/ TimerFires \/ Settles

Spec == Init /\ [][Next]_vars

(* Promise continuations and timers always run, and a request settles: post *)
(* aborts the fetch after timeoutMillis (unless 0), and the application's   *)
(* accessToken callback, which post awaits before that timer starts (493),  *)
(* is assumed to answer. Callers are under no obligation.                   *)
Fairness ==
  /\ WF_vars(TimerFires)
  /\ WF_vars(DrainDelivers \/ DrainFails \/ FlushResolves \/ FlushRejects)
  /\ \A l \in ExitLoops : WF_vars(ExitResumes(l) \/ ExitDelivers(l) \/ ExitFails(l))

FairSpec == Spec /\ Fairness

(* An endpoint that does not fail forever: a loop that keeps posting is *)
(* answered with success infinitely often.                             *)
RecoveringSpec == FairSpec /\ SF_vars(DrainDelivers)
-----------------------------------------------------------------------------
TypeOK ==
  /\ awaitDelivery \in AwaitOptions
  /\ queue \in Seq(Records)
  /\ pc \in [Loops -> {"idle", "posting", "drained", "threw", "waiting", "resumed"}]
  /\ pc["flush"] \in {"idle", "posting", "drained", "threw"}
  /\ \A l \in ExitLoops : pc[l] \in {"idle", "posting", "waiting", "resumed"}
  /\ batch \in [Loops -> Seq(Records)]
  /\ interval \in BOOLEAN /\ retry \in BOOLEAN
  /\ accepting \in BOOLEAN /\ closed \in BOOLEAN
  /\ written \in 0..MaxRecords
  /\ delivered \subseteq Records /\ dropped \subseteq Records
  /\ waiters \subseteq Records
  /\ overlapped \in BOOLEAN

(* Every record written is in exactly one place: waiting, in one loop's      *)
(* request, acknowledged, or dropped. So no failure, overflow or exit path   *)
(* loses a record, and no two requests outstanding at once carry the same    *)
(* one, though flush() and flushOnExit() loops share the queue (545-612).    *)
OnePlace ==
  /\ Range(queue) \cup InFlight \cup Settled = 1..written
  /\ \A l \in Loops : Range(batch[l]) \cap (Range(queue) \cup Settled) = {}
  /\ \A l, k \in Loops : l # k => Range(batch[l]) \cap Range(batch[k]) = {}
  /\ Range(queue) \cap Settled = {}
  /\ delivered \cap dropped = {}
  /\ IsInjective(queue)
  /\ \A l \in Loops : IsInjective(batch[l])

(* The queue and each outstanding request hold records in the order they    *)
(* were written, whatever failed and was restored, as long as two loops     *)
(* never had requests outstanding together (prepend at 557 and 607).        *)
Ascending(q) == \A i, j \in 1..Len(q) : i < j => q[i] < q[j]
OrderKept == ~overlapped => \A l \in Loops : Ascending(batch[l] \o queue)

(* Restored batches push the queue past maxQueueSize, but what is queued or *)
(* in flight, and so may be restored, never exceeds it by more than one     *)
(* batch for each loop that runs while records are accepted, and by one if  *)
(* no two of them ever overlapped (557, 607 against 376).                   *)
Allowance ==
  MaxQueueSize + BatchSize * IF overlapped THEN Cardinality(Loops \ {"close"}) ELSE 1
OverflowBounded == Cardinality(Range(queue) \cup InFlight) <= Allowance

(* The queue itself, against failures, overlapping loops and overflow. *)
QueueKept == OrderKept /\ OverflowBounded

(* Between them the loops do not miss a record written after they looked:   *)
(* the endpoint recovering, an accepting transport comes to have all its    *)
(* records acknowledged or dropped, if no page exit takes batches of its    *)
(* own. And a call that awaits a flush, be it write() under awaitDelivery   *)
(* or flushOnExit(), is always released (566, 592, 578).                    *)
NobodyWaitsForEver ==
  /\ [](\A l \in Exits : pc[l] = "idle") =>
       []<>(1..written \subseteq Settled \/ ~accepting)
  /\ \A l \in ExitLoops : pc[l] = "waiting" ~> pc[l] # "waiting"
  /\ waiters # {} ~> waiters = {}

(* The transport implements the ledger: queued and in-flight records are    *)
(* the pending ones.                                                        *)
Ledger == INSTANCE DeliveryLedger WITH
  GivesUp <- FALSE,
  pending <- Range(queue) \cup InFlight
LedgerSpec == Ledger!Spec

=============================================================================
