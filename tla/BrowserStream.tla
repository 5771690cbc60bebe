----------------------------- MODULE BrowserStream -----------------------------
(***************************************************************************)
(* BrowserStreamTransport of src/browser-stream.ts: a bounded queue that a *)
(* single flush loop drains in batches, over a WebSocket of its own or an  *)
(* inner transport, with a page-exit path and close() beside it.           *)
(*                                                                         *)
(* The loop peeks a batch, sends it across an await, and only then drains  *)
(* as many records as it peeked; write(), flushOnExit() and socket events  *)
(* run in between. An action is one JavaScript turn; at "connected" the    *)
(* loop's continuation is a microtask, so no timer or socket event runs.   *)
(*                                                                         *)
(* Records are numbered in the order they are written; a write after       *)
(* close() is ignored and not counted. Socket ids are used again once a    *)
(* socket is closed. Left out: levels (an urgent write only shortens the   *)
(* timer), encoding, and the records a logger may pass to flushOnExit.     *)
(***************************************************************************)
EXTENDS Naturals, Sequences, FiniteSets, SequencesExt

CONSTANTS
  MaxRecords,             \* bound: how many records are written
  MaxSockets,             \* bound: sockets in existence at once
  BatchSize, MaxQueueSize,
  Inners,                 \* values of inner
  Exits,                  \* page handlers may run
  Beacon                  \* what sendBeacon may do: subset of accepts, refuses,
                          \* throws; none of them when no beacon is configured

ASSUME StreamAssumption ==
  /\ MaxRecords \in Nat /\ MaxSockets \in Nat
  /\ BatchSize \in Nat \ {0} /\ MaxQueueSize \in Nat
  /\ Inners \subseteq BOOLEAN /\ Exits \in BOOLEAN
  /\ Beacon \subseteq {"accepts", "refuses", "throws"}

Records == 1..MaxRecords
Ids == 1..MaxSockets
None == 0
Rejected == MaxSockets + 1     \* a promise that is kept and has rejected

VARIABLES
  inner,                  \* an inner transport is given, no url
  queue, written,
  timer,                  \* flushTimer is armed
  loop,                   \* the flush loop; not "idle" is flushInFlight
  batch,                  \* the records it peeked
  done,                   \* how many of them the inner transport took
  socket,                 \* this.socket
  connecting,             \* the socket connectPromise waits for, None or Rejected
  sockets,                \* every socket's readyState, "none" when unused
  closing, closed,        \* close() awaits the flush it started; this.closed
  sent, beaconed, dropped,\* history: handed over, beaconed, counted as dropped
  overtaken               \* history: the queue's head moved under a running loop

vars == <<queue, written, timer, loop, batch, done, socket, connecting, sockets,
          closing, closed, sent, beaconed, dropped, overtaken>>
socketVars == <<socket, connecting, sockets>>
history == <<sent, beaconed, dropped, overtaken>>

Least(a, b) == IF a <= b THEN a ELSE b
Without(q, n) == SubSeq(q, Least(n, Len(q)) + 1, Len(q))      \* drain(n)
LoopRuns == loop # "idle"

Init ==
  /\ inner \in Inners
  /\ queue = <<>> /\ written = 0
  /\ timer = FALSE
  /\ loop = "idle" /\ batch = <<>> /\ done = 0
  /\ socket = None /\ connecting = None
  /\ sockets = [n \in Ids |-> "none"]
  /\ closing = FALSE /\ closed = FALSE
  /\ sent = {} /\ beaconed = {} /\ dropped = {}
  /\ overtaken = FALSE

-----------------------------------------------------------------------------
(* t is whether the timer is armed when a turn begins: a timer's callback  *)
(* and close() have already cleared it.                                    *)
LeaveLoopUnarmed(q, t) ==     \* a slip: the finally does not schedule
  /\ queue' = q
  /\ loop' = "idle" /\ batch' = <<>> /\ done' = 0
  /\ timer' = t

(* flush()'s finally: schedule(false) when records remain. *)
LeaveLoop(q, t) ==
  /\ queue' = q
  /\ loop' = "idle" /\ batch' = <<>> /\ done' = 0
  /\ timer' = (t \/ (q # <<>> /\ ~closed))

(* The loop goes on with the next batch of the queue. *)
Peek(at, t) ==
  /\ batch' = SubSeq(queue, 1, Least(BatchSize, Len(queue)))
  /\ done' = 0
  /\ loop' = at
  /\ timer' = t
  /\ UNCHANGED queue

Ready == socket # None /\ sockets[socket] = "open"

OpenSocket ==
  \E n \in Ids :
    /\ sockets[n] = "none"
    /\ sockets' = [sockets EXCEPT ![n] = "connecting"]
    /\ socket' = n
    /\ connecting' = n

(* A factory that throws: the executor nulls connectPromise (225) before   *)
(* 220 assigns it the promise that is by then rejected, and nobody takes   *)
(* that away again.                                                        *)
FactoryThrows ==
  /\ connecting' = Rejected
  /\ UNCHANGED <<socket, sockets>>

(* One turn of the loop: the inner transport, or connect(), which has the  *)
(* open socket, the attempt under way, a new one, a factory that throws,   *)
(* or the promise of one that threw before.                                *)
Turn(t) ==
  \/ inner /\ Peek("writing", t) /\ UNCHANGED socketVars
  \/ ~inner /\ Ready /\ Peek("connected", t) /\ UNCHANGED socketVars
  \/ ~inner /\ ~Ready /\ connecting \in Ids
       /\ Peek("connecting", t) /\ UNCHANGED socketVars
  \/ ~inner /\ ~Ready /\ connecting = None
       /\ Peek("connecting", t) /\ OpenSocket
  \/ ~inner /\ ~Ready /\ connecting = None
       /\ LeaveLoop(queue, t) /\ FactoryThrows
  \/ ~inner /\ ~Ready /\ connecting = Rejected
       /\ LeaveLoop(queue, t) /\ UNCHANGED socketVars

(* flush() when it has something to do. *)
CanFlush == ~LoopRuns /\ queue # <<>> /\ ~closed

-----------------------------------------------------------------------------
(* How many records trimToLast drops. *)
Excess(q) == IF Len(q) > MaxQueueSize THEN Len(q) - MaxQueueSize ELSE 0

(* write(): push, drop the oldest beyond maxQueueSize, schedule. *)
Write ==
  LET q == Append(queue, written + 1)
      excess == Excess(q)
  IN
    /\ ~closed
    /\ written < MaxRecords
    /\ written' = written + 1
    /\ queue' = Without(q, excess)
    /\ dropped' = dropped \cup Range(SubSeq(q, 1, excess))
    /\ overtaken' = (overtaken \/ (excess > 0 /\ LoopRuns))
    /\ timer' = (timer \/ (Without(q, excess) # <<>> /\ ~LoopRuns))
    /\ UNCHANGED <<loop, batch, done, socketVars, closing, closed, sent, beaconed>>

FlushCall ==
  /\ CanFlush
  /\ Turn(timer)
  /\ UNCHANGED <<written, closing, closed, history>>

TimerFires ==
  /\ timer
  /\ loop # "connected"
  /\ IF CanFlush
     THEN Turn(FALSE)
     ELSE timer' = FALSE /\ UNCHANGED <<queue, loop, batch, done, socketVars>>
  /\ UNCHANGED <<written, closing, closed, history>>

(* The page is hidden or unloads: flushOnExit([]). *)
PageHides ==
  /\ Exits /\ ~closed
  /\ loop # "connected"
  /\ timer' = FALSE
  /\ \/ /\ queue = <<>> \/ Beacon = {} \/ "throws" \in Beacon
        /\ UNCHANGED <<queue, beaconed, overtaken>>
     \/ /\ queue # <<>>
        /\ \/ "accepts" \in Beacon /\ beaconed' = beaconed \cup Range(queue)
           \/ "refuses" \in Beacon /\ UNCHANGED beaconed
        /\ queue' = <<>>
        /\ overtaken' = (overtaken \/ LoopRuns)
  /\ UNCHANGED <<written, loop, batch, done, socketVars, closing, closed, sent, dropped>>

-----------------------------------------------------------------------------
(* The batch is on its way: drain as many records as were peeked. A loop *)
(* that has more to do yields to the event loop.                         *)
Drain ==
  LET rest == Without(queue, Len(batch)) IN
    IF rest = <<>> THEN LeaveLoop(rest, timer)
    ELSE /\ queue' = rest
         /\ loop' = "yielding"
         /\ UNCHANGED <<timer, batch, done>>

Yielded ==
  /\ loop = "yielding"
  /\ IF queue = <<>>
     THEN LeaveLoop(queue, timer) /\ UNCHANGED socketVars
     ELSE Turn(timer)
  /\ UNCHANGED <<written, closing, closed, history>>

(* socket.send on the socket connect() resolved to. *)
Send ==
  /\ loop = "connected"
  /\ sent' = sent \cup Range(batch)
  /\ Drain
  /\ UNCHANGED <<written, socketVars, closing, closed, beaconed, dropped, overtaken>>

(* mapBatch or send throws: the records stay queued. *)
SendFails ==
  /\ loop = "connected"
  /\ LeaveLoop(queue, timer)
  /\ UNCHANGED <<written, socketVars, closing, closed, history>>

(* The inner transport takes the next record of the batch. *)
InnerTakes ==
  /\ loop = "writing"
  /\ sent' = sent \cup {batch[done + 1]}
  /\ IF done + 1 < Len(batch)
     THEN done' = done + 1 /\ UNCHANGED <<queue, loop, batch, timer>>
     ELSE Drain
  /\ UNCHANGED <<written, socketVars, closing, closed, beaconed, dropped, overtaken>>

InnerRejectsDrains ==         \* a slip: likewise
  /\ loop = "writing"
  /\ LeaveLoop(Without(queue, Len(batch)), timer)
  /\ UNCHANGED <<written, socketVars, closing, closed, history>>

InnerRejectsRequeues ==       \* a slip: a rejected batch goes to the back
  /\ loop = "writing"
  /\ LeaveLoop(Without(queue, Len(batch)) \o batch, timer)
  /\ UNCHANGED <<written, socketVars, closing, closed, history>>

InnerRejects ==
  /\ loop = "writing"
  /\ LeaveLoop(queue, timer)
  /\ UNCHANGED <<written, socketVars, closing, closed, history>>

-----------------------------------------------------------------------------
Quiet == loop # "connected"

SocketOpens(n) ==
  /\ Quiet
  /\ sockets[n] = "connecting"
  /\ sockets' = [sockets EXCEPT ![n] = "open"]
  /\ connecting' = IF connecting = n THEN None ELSE connecting
  /\ loop' = IF connecting = n /\ loop = "connecting" THEN "connected" ELSE loop
  /\ UNCHANGED <<queue, written, timer, batch, done, socket, closing, closed, history>>

AttemptFailsUnanswered ==     \* a slip: finish() does not reject the promise
  /\ connecting' = None
  /\ socket' = None
  /\ UNCHANGED <<queue, timer, loop, batch, done>>

(* The promise of the attempt on n rejects: a loop waiting for it fails. *)
AttemptFails ==
  /\ connecting' = None
  /\ socket' = None
  /\ IF loop = "connecting" THEN LeaveLoop(queue, timer)
     ELSE UNCHANGED <<queue, timer, loop, batch, done>>

(* onerror, or the connect timeout: finish(error) closes the socket. *)
AttemptGivesUp(n) ==
  /\ Quiet
  /\ connecting = n
  /\ sockets' = [sockets EXCEPT ![n] = "closing"]
  /\ AttemptFails
  /\ UNCHANGED <<written, closing, closed, history>>

(* onclose: whichever socket it is, this.socket is forgotten. *)
SocketCloses(n) ==
  /\ Quiet
  /\ sockets[n] # "none"
  /\ sockets' = [sockets EXCEPT ![n] = "none"]
  /\ IF connecting = n THEN AttemptFails
     ELSE socket' = None /\ UNCHANGED <<connecting, queue, timer, loop, batch, done>>
  /\ UNCHANGED <<written, closing, closed, history>>

-----------------------------------------------------------------------------
(* close() once its flush is over: the socket this transport still knows. *)
CloseNow ==
  /\ closed' = TRUE
  /\ closing' = FALSE
  /\ socket' = None
  /\ sockets' = IF socket = None THEN sockets
                ELSE [sockets EXCEPT ![socket] = "closing"]
  /\ UNCHANGED connecting

(* close(): a loop that is already running is not waited for. *)
CloseCall ==
  /\ ~closed /\ ~closing
  /\ IF CanFlush
     THEN closing' = TRUE /\ Turn(FALSE) /\ UNCHANGED closed
     ELSE CloseNow /\ timer' = FALSE /\ UNCHANGED <<queue, loop, batch, done>>
  /\ UNCHANGED <<written, history>>

CloseEnds ==
  /\ closing
  /\ ~LoopRuns
  /\ CloseNow
  /\ UNCHANGED <<queue, written, timer, loop, batch, done, history>>

-----------------------------------------------------------------------------
Next ==
  /\ UNCHANGED inner
  /\ \/ Write \/ FlushCall \/ TimerFires \/ PageHides
     \/ Yielded \/ Send \/ SendFails \/ InnerTakes \/ InnerRejects
     \/ \E n \in Ids : SocketOpens(n) \/ AttemptGivesUp(n) \/ SocketCloses(n)
     \/ CloseCall \/ CloseEnds

Spec == Init /\ [][Next]_<<inner, vars>>

(* Timers fire, the connect timeout included, and the loop's continuations *)
(* run; callers and sockets are under no obligation.                       *)
FairSpec ==
  /\ Spec
  /\ WF_vars(TimerFires) /\ WF_vars(Yielded) /\ WF_vars(Send \/ SendFails)
  /\ WF_vars(CloseEnds)
  /\ \A n \in Ids : WF_vars(AttemptGivesUp(n))

(* An inner transport, if there is one, settles and does not reject for ever. *)
RecoveringSpec ==
  /\ FairSpec
  /\ WF_vars(InnerTakes \/ InnerRejects)
  /\ \A r \in Records : SF_vars(InnerTakes /\ r \in Range(batch) /\ batch[done + 1] = r)

(* Whatever is tried again and again succeeds in the end: the factory, a   *)
(* socket's opening, a send. A socket that is closing closes.              *)
PersistentSpec ==
  /\ FairSpec
  /\ SF_vars(TimerFires /\ loop' = "connecting")
  /\ \A n \in Ids : SF_vars(SocketOpens(n)) /\ WF_vars(sockets[n] = "closing" /\ SocketCloses(n))
  /\ SF_vars(Send)

-----------------------------------------------------------------------------
(* As long as the head of the queue was never moved under a running loop, *)
(* every record written is queued, sent, beaconed, or counted as dropped, *)
(* and none is dropped after it was handed over (287-300, 172), and no    *)
(* failure, reconnect or retry lets a record overtake an older one that   *)
(* is still waiting. The comment at 272-276, that records are removed     *)
(* only after the send succeeds, asks for Accounted whatever else         *)
(* happens, which the code does not keep when the queue overflows under a *)
(* running loop, nor when a beacon answers false (338-339).               *)
Accounted ==
  1..written = Range(queue) \cup sent \cup beaconed \cup dropped
AccountedInOrder ==
  ~overtaken =>
    /\ Accounted
    /\ \A r \in sent, s \in Range(queue) : s < r => s \in sent \cup beaconed

(* No lost wakeup: while open, a queue with records has a timer armed or a *)
(* loop that will come round to them (176-182, 306-310). That is so as     *)
(* long as page exits take the queue: without a beacon, or with one that   *)
(* throws, flushOnExit() leaves it behind with the timer cleared (320-343). *)
WakeupArmed == queue # <<>> /\ ~closed => timer \/ LoopRuns

(* A socket wedged in CONNECTING does not stall the loop (the comment at  *)
(* 49-53): the attempt that it waits for ends, whatever that attempt's and *)
(* other sockets do. And with an inner transport that recovers every      *)
(* record is handed over, beaconed or counted as dropped, unless the      *)
(* transport is closed first or the head of the queue moved under the loop. *)
(* Of sockets nothing such holds: see RetriedLater.                       *)
NeverStalls ==
  /\ loop = "connecting" ~> loop # "connecting"
  /\ \A r \in Records :
       [](inner /\ r <= written =>
            <>(r \in sent \cup beaconed \cup dropped \/ closed \/ overtaken))

(* "Socket factory failures leave records queued for a later retry"       *)
(* (tests/browser-stream-adversarial.test.mjs:241): when whatever is      *)
(* tried again and again succeeds in the end, every record is sent. But   *)
(* after one failure the factory is never called again (200-202, 220-225). *)
RetriedLater ==
  \A r \in Records :
    [](r <= written => <>(r \in sent \cup beaconed \cup dropped \/ closed))
=============================================================================
