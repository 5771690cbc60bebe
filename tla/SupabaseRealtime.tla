--------------------------- MODULE SupabaseRealtime ---------------------------
(***************************************************************************)
(* SupabaseRealtimeTransport of src/base-logger.ts: writes go out over one *)
(* Phoenix channel on a WebSocket; a write that cannot is rejected and     *)
(* queued, and a reconnect timer, a flush() or the next ok reply sends it. *)
(*                                                                         *)
(* An action is one JavaScript turn. Socket events and the timer are tasks *)
(* and wait until no continuation of a connect() is due (Quiet). A socket  *)
(* id stands for a socket object from its creation until its onclose, and  *)
(* for the ref of its phx_join; it may be used again afterwards. Messages  *)
(* reach a socket only while it is open, as the WebSocket standard says.   *)
(*                                                                         *)
(* Left out: the back-off delay, the heartbeat's own messages, reconnect:  *)
(* false, and a send() that throws on an open socket.                      *)
(***************************************************************************)
EXTENDS Naturals, Sequences, FiniteSets, SequencesExt

CONSTANTS
  MaxRecords,             \* bound: how many records are written
  MaxSockets,             \* bound: how many sockets exist at once
  MaxQueueSize

ASSUME RealtimeAssumption ==
  MaxRecords \in Nat /\ MaxSockets \in Nat /\ MaxQueueSize \in Nat \ {0}

Records == 1..MaxRecords
Ids == 1..MaxSockets
None == 0                 \* no socket; the empty joinRef

VARIABLES
  sockets,                \* "none", "connecting", "open", or "closing": its onclose is due
  joinDue, acks,          \* the server's replies to come, to phx_join and to broadcasts
  socket, attempt,        \* this.socket; the socket connectPromise waits for
  joined, joinRef, heartbeat, closed,
  timer, retrying,        \* reconnectTimer; its callback awaits the attempt
  queue, written,
  awaiting,               \* writes awaiting connectPromise
  granted, denied,        \* writes about to resume, their connect() resolved or rejected
  flusher,                \* a flush() call: "idle", "awaiting", "granted"
  sent, evicted,          \* history: records sent; dropped from a full queue
  misaddressed,           \* history: sent with a join_ref other than their channel's
  stale                   \* history: onclose of a superseded socket ran

link == <<sockets, socket, attempt, joined, joinRef>>
server == <<joinDue, acks>>
callers == <<awaiting, granted, denied, flusher>>
fates == <<sent, misaddressed>>
vars == <<link, server, callers, fates, heartbeat, closed, timer, retrying, queue,
          written, evicted, stale>>

Live == {n \in Ids : sockets[n] \in {"connecting", "open"}}
Usable == socket # None /\ sockets[socket] = "open"
Connected == Usable /\ joined
Quiet == granted = {} /\ denied = {} /\ flusher # "granted"

Init ==
  /\ sockets = [n \in Ids |-> "none"]
  /\ joinDue = {} /\ acks = [n \in Ids |-> 0]
  /\ socket = None /\ attempt = None
  /\ joined = FALSE /\ joinRef = None /\ heartbeat = FALSE /\ closed = FALSE
  /\ timer = FALSE /\ retrying = FALSE
  /\ queue = <<>> /\ written = 0
  /\ awaiting = {} /\ granted = {} /\ denied = {} /\ flusher = "idle"
  /\ sent = {} /\ evicted = {} /\ misaddressed = {} /\ stale = FALSE

-----------------------------------------------------------------------------
(* connect() ends synchronously as closed, connected, joining the attempt   *)
(* under way, unable to create a socket, or with an attempt of its own.     *)
Connect(outcome) ==
  \/ /\ \/ closed /\ outcome = "rejected"
        \/ ~closed /\ Connected /\ outcome = "resolved"
        \/ ~closed /\ ~Connected /\ attempt # None /\ outcome = "pending"
        \/ ~closed /\ ~Connected /\ attempt = None /\ outcome = "rejected"
     /\ UNCHANGED link
  \/ /\ ~closed /\ ~Connected /\ attempt = None /\ outcome = "pending"
     /\ \E n \in Ids :
          /\ sockets[n] = "none"
          /\ sockets' = [sockets EXCEPT ![n] = "connecting"]
          /\ socket' = n /\ attempt' = n
     /\ joined' = FALSE /\ joinRef' = None

Outcomes == {"rejected", "resolved", "pending"}

(* The records of q go out on the current socket, whose server acknowledges *)
(* only what is addressed to the channel it joined; due are the             *)
(* acknowledgements that were to come already.                              *)
Send(q, due) ==
  /\ sent' = sent \cup Range(q)
  /\ IF joinRef = socket
     THEN acks' = [due EXCEPT ![socket] = @ + Len(q)] /\ UNCHANGED misaddressed
     ELSE acks' = due /\ misaddressed' = misaddressed \cup Range(q)

(* write() up to its await. *)
Write ==
  LET r == written + 1 IN
    /\ r \in Records
    /\ written' = r
    /\ \E outcome \in Outcomes :
         /\ Connect(outcome)
         /\ awaiting' = IF outcome = "pending" THEN awaiting \cup {r} ELSE awaiting
         /\ granted' = IF outcome = "resolved" THEN granted \cup {r} ELSE granted
         /\ denied' = IF outcome = "rejected" THEN denied \cup {r} ELSE denied
    /\ UNCHANGED <<server, fates, flusher, heartbeat, closed, timer, retrying, queue,
                   evicted, stale>>

(* write() after its await, in the order of the calls: sent if the channel  *)
(* is still there; otherwise queued, a reconnect scheduled, and rejected.   *)
WriteResumes(r) ==
  /\ r \in granted \cup denied
  /\ \A other \in granted \cup denied : r <= other
  /\ granted' = granted \ {r} /\ denied' = denied \ {r}
  /\ IF r \in granted /\ Connected
     THEN Send(<<r>>, acks) /\ UNCHANGED <<queue, timer, evicted>>
     ELSE /\ queue' = Append(IF Len(queue) >= MaxQueueSize THEN Tail(queue) ELSE queue, r)
          /\ evicted' = IF Len(queue) >= MaxQueueSize THEN evicted \cup {Head(queue)} ELSE evicted
          /\ timer' = ~closed
          /\ UNCHANGED <<fates, acks>>
  /\ UNCHANGED <<link, joinDue, awaiting, flusher, heartbeat, closed, retrying, written, stale>>

FlushCall ==
  /\ flusher = "idle"
  /\ queue # <<>>
  /\ \E outcome \in Outcomes :
       /\ Connect(outcome)
       /\ flusher' = CASE outcome = "pending" -> "awaiting"
                       [] outcome = "resolved" -> "granted"
                       [] outcome = "rejected" -> "idle"
  /\ UNCHANGED <<server, fates, awaiting, granted, denied, heartbeat, closed, timer,
                 retrying, queue, written, evicted, stale>>

FlushResumes ==
  /\ flusher = "granted"
  /\ flusher' = "idle"
  /\ IF Connected THEN Send(queue, acks) /\ queue' = <<>> ELSE UNCHANGED <<queue, fates, acks>>
  /\ UNCHANGED <<link, joinDue, awaiting, granted, denied, heartbeat, closed, timer,
                 retrying, written, evicted, stale>>

TimerFiresOnce ==         \* a slip: a rejected connect() is not caught
  /\ Quiet
  /\ timer
  /\ timer' = FALSE
  /\ \E outcome \in Outcomes : Connect(outcome)
  /\ UNCHANGED <<server, callers, fates, heartbeat, closed, retrying, queue, written,
                 evicted, stale>>

(* The reconnect timer: connect(), and schedule again if that is rejected,  *)
(* at once here or later where the attempt fails.                           *)
TimerFires ==
  /\ Quiet
  /\ timer
  /\ \E outcome \in Outcomes :
       /\ Connect(outcome)
       /\ timer' = (outcome = "rejected" /\ queue # <<>>)
       /\ retrying' = (retrying \/ outcome = "pending")
  /\ UNCHANGED <<server, callers, fates, heartbeat, closed, queue, written, evicted, stale>>

-----------------------------------------------------------------------------
(* finish(): the callers that awaited socket n's attempt resume. *)
Finish(n, ok) ==
  IF attempt # n THEN UNCHANGED <<attempt, callers, retrying>>
  ELSE /\ attempt' = None
       /\ awaiting' = {}
       /\ granted' = IF ok THEN awaiting ELSE {}
       /\ denied' = IF ok THEN {} ELSE awaiting
       /\ flusher' = IF flusher = "idle" THEN "idle" ELSE IF ok THEN "granted" ELSE "idle"
       /\ retrying' = FALSE

(* onopen: phx_join is sent. *)
Opens(n) ==
  /\ Quiet
  /\ sockets[n] = "connecting"
  /\ sockets' = [sockets EXCEPT ![n] = "open"]
  /\ joinRef' = n
  /\ joinDue' = joinDue \cup {n}
  /\ UNCHANGED <<acks, socket, attempt, joined, callers, fates, heartbeat, closed, timer,
                 retrying, queue, written, evicted, stale>>

OkReplyKeeps(n, due) ==   \* a slip: the queue is sent but not emptied
  /\ joined' = TRUE
  /\ timer' = FALSE
  /\ heartbeat' = TRUE
  /\ IF Usable THEN Send(queue, due) ELSE acks' = due /\ UNCHANGED fates
  /\ Finish(n, TRUE)
  /\ UNCHANGED <<queue, sockets, socket, joinRef, closed, written, evicted, stale>>

(* onmessage with an ok reply on the topic, whatever it replies to: the     *)
(* queue is drained on the current socket.                                  *)
OkReply(n, due) ==
  /\ joined' = TRUE
  /\ timer' = FALSE
  /\ heartbeat' = TRUE
  /\ IF Usable THEN Send(queue, due) /\ queue' = <<>>
     ELSE acks' = due /\ UNCHANGED <<queue, fates>>
  /\ Finish(n, TRUE)
  /\ UNCHANGED <<sockets, socket, joinRef, closed, written, evicted, stale>>

JoinAccepted(n) ==
  /\ Quiet
  /\ sockets[n] = "open" /\ n \in joinDue
  /\ joinDue' = joinDue \ {n}
  /\ OkReply(n, acks)

Acknowledged(n) ==
  /\ Quiet
  /\ sockets[n] = "open" /\ acks[n] > 0
  /\ OkReply(n, [acks EXCEPT ![n] = @ - 1])
  /\ UNCHANGED joinDue

FailOpen(n) ==            \* a slip: the socket is not closed
  /\ UNCHANGED sockets
  /\ timer' = (timer \/ (retrying /\ ~closed /\ queue # <<>>))
  /\ Finish(n, FALSE)

(* The attempt on socket n fails, and the socket is closed.   *)
Fail(n) ==
  /\ sockets' = [sockets EXCEPT ![n] = "closing"]
  /\ timer' = (timer \/ (retrying /\ ~closed /\ queue # <<>>))
  /\ Finish(n, FALSE)

(* An error reply to the join, ignored once joined. *)
JoinRefused(n) ==
  /\ Quiet
  /\ sockets[n] = "open" /\ n \in joinDue
  /\ joinDue' = joinDue \ {n}
  /\ IF joined \/ attempt # n THEN UNCHANGED <<sockets, attempt, timer, callers, retrying>>
     ELSE Fail(n)
  /\ UNCHANGED <<socket, joined, joinRef, acks, fates, heartbeat, closed, queue, written,
                 evicted, stale>>

(* The connect timeout, or onerror. *)
AttemptFails(n) ==
  /\ Quiet
  /\ attempt = n
  /\ Fail(n)
  /\ UNCHANGED <<socket, joined, joinRef, server, fates, heartbeat, closed, queue, written,
                 evicted, stale>>

(* phx_error or phx_close. *)
ChannelErrors(n) ==
  /\ Quiet
  /\ sockets[n] = "open"
  /\ sockets' = [sockets EXCEPT ![n] = "closing"]
  /\ UNCHANGED <<socket, attempt, joined, joinRef, server, callers, fates, heartbeat, closed,
                 timer, retrying, queue, written, evicted, stale>>

(* onclose of any socket, the current one or not. *)
Closes(n) ==
  /\ Quiet
  /\ sockets[n] # "none"
  /\ sockets' = [sockets EXCEPT ![n] = "none"]
  /\ joinDue' = joinDue \ {n} /\ acks' = [acks EXCEPT ![n] = 0]
  /\ joined' = FALSE /\ joinRef' = None /\ heartbeat' = FALSE
  /\ timer' = (timer \/ (~closed /\ queue # <<>>))
  /\ Finish(n, FALSE)
  /\ stale' = (stale \/ socket \notin {None, n})
  /\ UNCHANGED <<socket, fates, closed, queue, written, evicted>>

CloseCall ==
  /\ ~closed
  /\ closed' = TRUE
  /\ heartbeat' = FALSE /\ timer' = FALSE
  /\ sockets' = [n \in Ids |-> IF n = socket /\ n \in Live THEN "closing" ELSE sockets[n]]
  /\ socket' = None
  /\ joined' = FALSE /\ joinRef' = None
  /\ UNCHANGED <<attempt, server, callers, fates, retrying, queue, written, evicted, stale>>

-----------------------------------------------------------------------------
Next ==
  \/ Write \/ (\E r \in Records : WriteResumes(r))
  \/ FlushCall \/ FlushResumes \/ TimerFires \/ CloseCall
  \/ \E n \in Ids :
       \/ Opens(n) \/ JoinAccepted(n) \/ Acknowledged(n) \/ JoinRefused(n)
       \/ AttemptFails(n) \/ ChannelErrors(n) \/ Closes(n)

Spec == Init /\ [][Next]_vars

(* Continuations, timers and the connect timeout run; a socket that is      *)
(* closing closes, and the server drops one that is open but no longer the  *)
(* transport's own, since no heartbeat reaches it. The endpoint recovers:   *)
(* of ever more attempts some create a socket, open it and join.            *)
RecoveringSpec ==
  /\ Spec
  /\ \A r \in Records : WF_vars(WriteResumes(r))
  /\ WF_vars(FlushResumes)
  /\ SF_vars(TimerFires /\ attempt' # None)
  /\ \A n \in Ids :
       /\ WF_vars(AttemptFails(n))
       /\ WF_vars(Closes(n) /\ (sockets[n] = "closing" \/ n # socket))
       /\ SF_vars(Opens(n)) /\ SF_vars(JoinAccepted(n))

-----------------------------------------------------------------------------
(* One channel, and one that will be used: unless the onclose of a          *)
(* superseded socket cleared the state of the current one (961-964), there  *)
(* is at most one live socket, every message carries the join_ref of the    *)
(* channel it goes out on (tests/logger.test.mjs:253), a closed transport   *)
(* leaves neither a live socket nor a heartbeat behind, and records wait    *)
(* only while a timer is armed, an attempt is under way, or a socket about  *)
(* to report its close will schedule one (875-888, 961-969).                *)
OneChannel ==
  ~stale =>
    /\ Cardinality(Live) <= 1
    /\ misaddressed = {}
    /\ closed => Live = {} /\ ~heartbeat
    /\ Quiet /\ ~closed /\ queue # <<>> =>
         timer \/ attempt # None \/ \E n \in Ids : sockets[n] = "closing"

(* Every write of an open transport is eventually sent, or evicted from a   *)
(* full queue: its attempt ends, its reconnect comes, and the join drains.  *)
EventuallySent == \A r \in Records : r <= written ~> r \in sent \cup evicted \/ closed

(* The transport implements the ledger: a record is pending while its write *)
(* is, and then while it is queued; it is sent once, though its write was   *)
(* rejected. A full queue gives up its oldest.                              *)
Ledger == INSTANCE DeliveryLedger WITH
  GivesUp <- TRUE,
  pending <- awaiting \cup granted \cup denied \cup Range(queue),
  delivered <- sent,
  dropped <- evicted
LedgerSpec == Ledger!Spec
=============================================================================
