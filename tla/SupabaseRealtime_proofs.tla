------------------------ MODULE SupabaseRealtime_proofs ------------------------
(***************************************************************************)
(* Theorems about SupabaseRealtime, for any number of records and sockets  *)
(* and any size of the queue: the types, OneChannel and the refinement of  *)
(* DeliveryLedger.                                                         *)
(*                                                                         *)
(* The argument has two halves that need nothing of each other. The        *)
(* records: a turn makes one of five moves with them (Moves), each of      *)
(* which keeps Placed and is a step of the ledger or a stutter; this holds *)
(* whatever the sockets do. The channel: as long as no superseded socket   *)
(* reported its close, the only live socket is the current one (Current),  *)
(* and over a channel that is up nothing waits (Woken). The second is why  *)
(* a reply may disarm the reconnect timer: the queue went out with it.     *)
(***************************************************************************)
EXTENDS SupabaseRealtime, FiniteSetTheorems, SequenceTheorems, TLAPS

States == {"none", "connecting", "open", "closing"}

TypeOK ==
  /\ sockets \in [Ids -> States]
  /\ joinDue \subseteq Ids /\ acks \in [Ids -> Nat]
  /\ socket \in Ids \cup {None} /\ attempt \in Ids \cup {None}
  /\ joined \in BOOLEAN /\ joinRef \in Ids \cup {None} /\ heartbeat \in BOOLEAN
  /\ closed \in BOOLEAN /\ timer \in BOOLEAN /\ retrying \in BOOLEAN
  /\ queue \in Seq(Records) /\ written \in 0..MaxRecords
  /\ awaiting \subseteq Records /\ granted \subseteq Records /\ denied \subseteq Records
  /\ flusher \in {"idle", "awaiting", "granted"}
  /\ sent \subseteq Records /\ evicted \subseteq Records
  /\ misaddressed \subseteq Records /\ stale \in BOOLEAN

(* The records whose write() has not come back. *)
InCall == awaiting \cup granted \cup denied
Settled == sent \cup evicted

(* Every record is in a write that awaits or resumes, queued, or settled,   *)
(* and in one of these only.                                                *)
Placed ==
  /\ IsInjective(queue)
  /\ InCall \cup Range(queue) \cup Settled = 1..written
  /\ awaiting \cap (granted \cup denied) = {}
  /\ InCall \cap Range(queue) = {}
  /\ (InCall \cup Range(queue)) \cap Settled = {}

(* The only live socket is the current one, which is connected or has an    *)
(* attempt of its own, and its channel is the one addressed.                *)
Current ==
  /\ Live \subseteq {socket}
  /\ attempt # None /\ socket # None => attempt = socket
  /\ attempt # None => ~joined
  /\ socket \in Live /\ attempt = None => Connected
  /\ Usable => joinRef = socket
  /\ misaddressed = {}
  /\ closed => socket = None /\ ~heartbeat

(* Over a channel that is up nothing waits, and whoever was told that it is *)
(* up finds it so. What waits otherwise will be found.                      *)
Woken ==
  /\ ~closed /\ Connected => queue = <<>> /\ denied = {}
  /\ granted # {} \/ flusher = "granted" => closed \/ Connected
  /\ ~closed /\ queue # <<>> =>
       timer \/ attempt # None \/ \E n \in Ids : sockets[n] = "closing"

Channel == ~stale => Current /\ Woken

Inv == TypeOK /\ Placed /\ Channel
-----------------------------------------------------------------------------
(* An element appended, and the first one taken off. *)
LEMMA AppendSeq ==
  ASSUME NEW q \in Seq(Records), NEW r \in Records
  PROVE  /\ Append(q, r) \in Seq(Records)
         /\ Range(Append(q, r)) = Range(q) \cup {r}
         /\ IsInjective(q) /\ r \notin Range(q) => IsInjective(Append(q, r))
<1> DEFINE a == Append(q, r)
<1>1. /\ a \in Seq(Records) /\ Len(a) = Len(q) + 1 /\ Len(q) \in Nat
      /\ a[Len(q) + 1] = r /\ \A i \in 1..Len(q) : a[i] = q[i]
  OBVIOUS
<1>2. /\ DOMAIN q = 1..Len(q) /\ DOMAIN a = 1..(Len(q) + 1)
      /\ 1..(Len(q) + 1) = 1..Len(q) \cup {Len(q) + 1} /\ Len(q) + 1 \notin 1..Len(q)
  BY <1>1
<1> HIDE DEF a
<1>3. Range(a) = Range(q) \cup {r}
  BY <1>1, <1>2 DEF Range
<1>4. IsInjective(q) /\ r \notin Range(q) => IsInjective(a)
  BY <1>1, <1>2 DEF Range, IsInjective
<1> QED BY <1>1, <1>3, <1>4 DEF a

LEMMA TailSeq ==
  ASSUME NEW q \in Seq(Records), q # <<>>
  PROVE  /\ Head(q) \in Range(q) /\ Tail(q) \in Seq(Records)
         /\ Range(q) = Range(Tail(q)) \cup {Head(q)}
         /\ IsInjective(q) => IsInjective(Tail(q)) /\ Head(q) \notin Range(Tail(q))
<1> DEFINE t == Tail(q)
           n == Len(q)
<1>1. /\ t \in Seq(Records) /\ n \in Nat /\ n >= 1 /\ Len(t) = n - 1
      /\ Head(q) = q[1] /\ \A i \in 1..(n - 1) : t[i] = q[i + 1]
  OBVIOUS
<1>2. DOMAIN q = 1..n /\ DOMAIN t = 1..(n - 1)
  BY <1>1
<1> HIDE DEF t, n
<1>3. /\ 1 \in 1..n /\ \A i \in 1..(n - 1) : i + 1 \in 1..n /\ i + 1 # 1
      /\ \A i \in 1..n : i = 1 \/ (i - 1 \in 1..(n - 1) /\ (i - 1) + 1 = i)
  BY <1>1
<1>4. Range(q) = Range(t) \cup {q[1]}
  <2>1. ASSUME NEW i \in 1..n PROVE q[i] \in Range(t) \cup {q[1]}
    <3>1. CASE i # 1
      <4>1. i - 1 \in 1..(n - 1) /\ t[i - 1] = q[i]
        BY <1>1, <1>3, <3>1
      <4> QED BY <4>1, <1>2 DEF Range
    <3> QED BY <3>1
  <2>2. ASSUME NEW i \in 1..(n - 1) PROVE t[i] \in Range(q)
    BY <1>1, <1>2, <1>3 DEF Range
  <2>3. Range(t) \subseteq Range(q) /\ q[1] \in Range(q)
    BY <1>2, <1>3, <2>2 DEF Range
  <2>4. Range(q) \subseteq Range(t) \cup {q[1]}
    BY <1>2, <2>1 DEF Range
  <2> QED BY <2>3, <2>4
<1>5. ASSUME IsInjective(q) PROVE IsInjective(t) /\ q[1] \notin Range(t)
  <2>1. q[1] \notin Range(t)
    <3> SUFFICES ASSUME NEW i \in 1..(n - 1), t[i] = q[1] PROVE FALSE
      BY <1>2 DEF Range
    <3>1. i + 1 \in 1..n /\ i + 1 # 1 /\ q[i + 1] = q[1]
      BY <1>1, <1>3
    <3> QED BY <1>2, <1>3, <1>5, <3>1 DEF IsInjective
  <2> SUFFICES ASSUME NEW i \in 1..(n - 1), NEW j \in 1..(n - 1), t[i] = t[j] PROVE i = j
    BY <1>2, <2>1 DEF IsInjective
  <2>2. i + 1 = j + 1
    BY <1>1, <1>2, <1>3, <1>5 DEF IsInjective
  <2> QED BY <2>2
<1> QED BY <1>1, <1>4, <1>5 DEF t

LEMMA NothingSeq == <<>> \in Seq(Records) /\ Range(<<>>) = {} /\ IsInjective(<<>>)
BY DEF Range, IsInjective

LEMMA RangeRecords == ASSUME NEW q \in Seq(Records) PROVE Range(q) \subseteq Records
BY DEF Range

-----------------------------------------------------------------------------
(* Types. *)
LEMMA InitTypes == Init => TypeOK
<1> SUFFICES ASSUME Init PROVE TypeOK
  OBVIOUS
<1>1. queue \in Seq(Records) /\ written \in 0..MaxRecords
  BY RealtimeAssumption DEF Init
<1>2. /\ sockets \in [Ids -> States] /\ acks \in [Ids -> Nat]
      /\ socket \in Ids \cup {None} /\ attempt \in Ids \cup {None} /\ joinRef \in Ids \cup {None}
  BY DEF Init, States
<1> QED BY <1>1, <1>2 DEF Init, TypeOK

LEMMA ConnectTypes ==
  ASSUME TypeOK, NEW o, Connect(o)
  PROVE  /\ sockets' \in [Ids -> States]
         /\ socket' \in Ids \cup {None} /\ attempt' \in Ids \cup {None}
         /\ joined' \in BOOLEAN /\ joinRef' \in Ids \cup {None}
BY DEF TypeOK, Connect, link, States

LEMMA SendTypes ==
  ASSUME TypeOK, NEW q \in Seq(Records), NEW due \in [Ids -> Nat], Send(q, due)
  PROVE  sent' \subseteq Records /\ misaddressed' \subseteq Records /\ acks' \in [Ids -> Nat]
<1>1. Range(q) \subseteq Records /\ Len(q) \in Nat
  BY RangeRecords
<1>2. sent' \subseteq Records /\ misaddressed' \subseteq Records
  BY <1>1 DEF TypeOK, Send
<1>3. [due EXCEPT ![socket] = @ + Len(q)] \in [Ids -> Nat]
  <2> DEFINE k == Len(q)
  <2>1. k \in Nat /\ \A n \in Ids : due[n] + k \in Nat
    BY <1>1
  <2> HIDE DEF k
  <2> QED BY <2>1 DEF k
<1> QED BY <1>2, <1>3 DEF Send

LEMMA FinishTypes ==
  ASSUME TypeOK, NEW n, NEW ok \in BOOLEAN, Finish(n, ok)
  PROVE  /\ attempt' \in Ids \cup {None} /\ retrying' \in BOOLEAN
         /\ awaiting' \subseteq Records /\ granted' \subseteq Records /\ denied' \subseteq Records
         /\ flusher' \in {"idle", "awaiting", "granted"}
BY DEF TypeOK, Finish, callers

LEMMA NextTypes == ASSUME TypeOK, [Next]_vars PROVE TypeOK'
<1>1. CASE Write
  <2>1. PICK o \in Outcomes : Connect(o) /\ written + 1 \in Records /\ written' = written + 1
          /\ awaiting' = (IF o = "pending" THEN awaiting \cup {written + 1} ELSE awaiting)
          /\ granted' = (IF o = "resolved" THEN granted \cup {written + 1} ELSE granted)
          /\ denied' = (IF o = "rejected" THEN denied \cup {written + 1} ELSE denied)
    BY <1>1 DEF Write
  <2> QED BY <1>1, <2>1, ConnectTypes DEF Write, TypeOK, Records, server, fates
<1>2. ASSUME NEW r \in Records, WriteResumes(r) PROVE TypeOK'
  <2>1. CASE r \in granted /\ Connected
    <3>1. <<r>> \in Seq(Records) /\ Send(<<r>>, acks)
      BY <1>2, <2>1 DEF WriteResumes
    <3>2. sent' \subseteq Records /\ misaddressed' \subseteq Records /\ acks' \in [Ids -> Nat]
      BY <3>1, SendTypes DEF TypeOK
    <3> QED BY <1>2, <2>1, <3>2 DEF WriteResumes, TypeOK, link
  <2>2. CASE ~(r \in granted /\ Connected)
    <3> DEFINE kept == IF Len(queue) >= MaxQueueSize THEN Tail(queue) ELSE queue
    <3>1. kept \in Seq(Records) /\ (Len(queue) >= MaxQueueSize => Head(queue) \in Records)
      BY RealtimeAssumption DEF TypeOK
    <3>2. queue' = Append(kept, r)
      BY <1>2, <2>2 DEF WriteResumes
    <3> HIDE DEF kept
    <3>3. queue' \in Seq(Records) /\ evicted' \subseteq Records
      BY <1>2, <2>2, <3>1, <3>2 DEF WriteResumes, TypeOK
    <3> QED BY <1>2, <2>2, <3>3 DEF WriteResumes, TypeOK, link, fates
  <2> QED BY <2>1, <2>2
<1>3. CASE FlushCall
  <2>1. PICK o \in Outcomes : Connect(o) /\ flusher' \in {"idle", "awaiting", "granted"}
    BY <1>3 DEF FlushCall, Outcomes
  <2> QED BY <1>3, <2>1, ConnectTypes DEF FlushCall, TypeOK, server, fates
<1>4. CASE FlushResumes
  <2>1. CASE Connected
    <3>1. sent' \subseteq Records /\ misaddressed' \subseteq Records /\ acks' \in [Ids -> Nat]
      BY <1>4, <2>1, SendTypes DEF FlushResumes, TypeOK
    <3> QED BY <1>4, <2>1, <3>1 DEF FlushResumes, TypeOK, link
  <2>2. CASE ~Connected
    BY <1>4, <2>2 DEF FlushResumes, TypeOK, link, fates
  <2> QED BY <2>1, <2>2
<1>5. CASE TimerFires
  <2>1. PICK o \in Outcomes : Connect(o) /\ timer' \in BOOLEAN /\ retrying' \in BOOLEAN
    BY <1>5 DEF TimerFires, TypeOK
  <2> QED BY <1>5, <2>1, ConnectTypes DEF TimerFires, TypeOK, server, callers, fates
<1>6. CASE CloseCall
  BY <1>6 DEF CloseCall, TypeOK, States, None, server, callers, fates
<1>7. ASSUME NEW n \in Ids, Opens(n) PROVE TypeOK'
  BY <1>7 DEF Opens, TypeOK, States, callers, fates
<1>8. ASSUME NEW n \in Ids, JoinAccepted(n) \/ Acknowledged(n) PROVE TypeOK'
  <2>1. PICK due \in [Ids -> Nat] : OkReply(n, due) /\ joinDue' \subseteq Ids
    <3>1. CASE JoinAccepted(n)
      BY <3>1 DEF JoinAccepted, TypeOK
    <3>2. CASE Acknowledged(n)
      <4>1. acks[n] \in Nat \ {0} /\ [acks EXCEPT ![n] = @ - 1] \in [Ids -> Nat]
        BY <3>2 DEF Acknowledged, TypeOK
      <4> QED BY <3>2, <4>1 DEF Acknowledged, TypeOK
    <3> QED BY <1>8, <3>1, <3>2
  <2>2. Finish(n, TRUE)
    BY <2>1 DEF OkReply
  <2>3. sent' \subseteq Records /\ misaddressed' \subseteq Records /\ acks' \in [Ids -> Nat]
    <3>1. CASE Usable
      BY <2>1, <3>1, SendTypes DEF OkReply, TypeOK
    <3>2. CASE ~Usable
      BY <2>1, <3>2 DEF OkReply, TypeOK, fates
    <3> QED BY <3>1, <3>2
  <2>4. queue' \in Seq(Records)
    BY <2>1, NothingSeq DEF OkReply, TypeOK
  <2> QED BY <2>1, <2>2, <2>3, <2>4, FinishTypes DEF OkReply, TypeOK
<1>9. ASSUME NEW n \in Ids, JoinRefused(n) \/ AttemptFails(n) PROVE TypeOK'
  <2>1. CASE Fail(n)
    <3>1. Finish(n, FALSE) /\ sockets' \in [Ids -> States] /\ timer' \in BOOLEAN
      BY <2>1 DEF Fail, TypeOK, States
    <3>2. joinDue' \subseteq Ids /\ UNCHANGED <<socket, joined, joinRef, acks, fates, heartbeat,
             closed, queue, written, evicted, stale>>
      BY <1>9 DEF JoinRefused, AttemptFails, TypeOK, server
    <3> QED BY <3>1, <3>2, FinishTypes DEF TypeOK, fates
  <2>2. CASE ~Fail(n)
    BY <1>9, <2>2 DEF JoinRefused, AttemptFails, TypeOK, callers, fates
  <2> QED BY <2>1, <2>2
<1>10. ASSUME NEW n \in Ids, ChannelErrors(n) PROVE TypeOK'
  BY <1>10 DEF ChannelErrors, TypeOK, States, server, callers, fates
<1>11. ASSUME NEW n \in Ids, Closes(n) PROVE TypeOK'
  <2>1. Finish(n, FALSE)
    BY <1>11 DEF Closes
  <2> QED BY <1>11, <2>1, FinishTypes DEF Closes, TypeOK, States, None, fates
<1>12. CASE UNCHANGED vars
  BY <1>12 DEF vars, link, server, callers, fates, TypeOK
<1> QED BY <1>1, <1>2, <1>3, <1>4, <1>5, <1>6, <1>7, <1>8, <1>9, <1>10, <1>11, <1>12 DEF Next

-----------------------------------------------------------------------------
(* What a step does to the records is one of five moves. *)
Rests == UNCHANGED <<queue, written, sent, evicted>> /\ InCall' = InCall

Admits ==
  /\ written + 1 \in Records /\ written' = written + 1
  /\ InCall' = InCall \cup {written + 1}
  /\ UNCHANGED <<queue, sent, evicted>>

Leaves(r) == r \in InCall /\ InCall' = InCall \ {r} /\ UNCHANGED written

SendsOne(r) == Leaves(r) /\ sent' = sent \cup {r} /\ UNCHANGED <<queue, evicted>>

Queues(r) ==
  /\ Leaves(r)
  /\ UNCHANGED sent
  /\ queue' = Append(IF Len(queue) >= MaxQueueSize THEN Tail(queue) ELSE queue, r)
  /\ evicted' = IF Len(queue) >= MaxQueueSize THEN evicted \cup {Head(queue)} ELSE evicted

Drains ==
  /\ sent' = sent \cup Range(queue) /\ queue' = <<>>
  /\ UNCHANGED <<written, evicted>> /\ InCall' = InCall

Moves ==
  /\ awaiting' \cap (granted' \cup denied') = {}
  /\ Rests \/ Admits \/ Drains \/ \E r \in Records : SendsOne(r) \/ Queues(r)

(* What an eviction leaves of the queue. *)
LEMMA QueuesRange ==
  ASSUME TypeOK, Placed, NEW r \in Records, Queues(r)
  PROVE  \E E \in SUBSET Range(queue) :
           /\ evicted' = evicted \cup E
           /\ Range(queue') = (Range(queue) \ E) \cup {r}
           /\ IsInjective(queue')
<1>1. r \notin Range(queue)
  BY DEF Queues, Leaves, Placed
<1>2. CASE Len(queue) >= MaxQueueSize
  <2>1. queue # <<>>
    BY <1>2, RealtimeAssumption DEF TypeOK
  <2>2. /\ Head(queue) \in Range(queue) /\ Tail(queue) \in Seq(Records)
        /\ Range(queue) = Range(Tail(queue)) \cup {Head(queue)}
        /\ IsInjective(Tail(queue)) /\ Head(queue) \notin Range(Tail(queue))
    BY <2>1, TailSeq DEF TypeOK, Placed
  <2>3. Range(queue') = Range(Tail(queue)) \cup {r} /\ IsInjective(queue')
    BY <1>1, <1>2, <2>2, AppendSeq DEF Queues
  <2>4. evicted' = evicted \cup {Head(queue)} /\ {Head(queue)} \in SUBSET Range(queue)
    BY <1>2, <2>2 DEF Queues
  <2>5. Range(queue') = (Range(queue) \ {Head(queue)}) \cup {r}
    BY <2>2, <2>3
  <2> QED BY <2>3, <2>4, <2>5
<1>3. CASE ~(Len(queue) >= MaxQueueSize)
  <2>1. Range(queue') = Range(queue) \cup {r} /\ IsInjective(queue') /\ evicted' = evicted
    BY <1>1, <1>3, AppendSeq DEF Queues, TypeOK, Placed
  <2> WITNESS {} \in SUBSET Range(queue)
  <2> QED BY <2>1
<1> QED BY <1>2, <1>3

LEMMA MovesKeep == ASSUME TypeOK, Placed, Moves PROVE Placed'
<1>1. CASE Rests
  BY <1>1 DEF Moves, Rests, Placed, Settled
<1>2. CASE Admits
  <2>1. 1..written' = 1..written \cup {written + 1} /\ written + 1 \notin 1..written
    BY <1>2 DEF Admits, TypeOK, Records
  <2> QED BY <1>2, <2>1 DEF Moves, Admits, Placed, Settled
<1>3. CASE Drains
  BY <1>3, NothingSeq DEF Moves, Drains, Placed, Settled
<1>4. ASSUME NEW r \in Records, SendsOne(r) PROVE Placed'
  BY <1>4 DEF Moves, SendsOne, Leaves, Placed, Settled
<1>5. ASSUME NEW r \in Records, Queues(r) PROVE Placed'
  <2>1. PICK E \in SUBSET Range(queue) :
          /\ evicted' = evicted \cup E
          /\ Range(queue') = (Range(queue) \ E) \cup {r}
          /\ IsInjective(queue')
    BY <1>5, QueuesRange
  <2>2. r \in InCall /\ InCall' = InCall \ {r} /\ sent' = sent /\ written' = written
    BY <1>5 DEF Queues, Leaves
  <2> QED BY <2>1, <2>2 DEF Moves, Placed, Settled
<1> QED BY <1>1, <1>2, <1>3, <1>4, <1>5 DEF Moves

(* finish() moves the callers of an attempt on, and loses none. *)
LEMMA FinishMoves ==
  ASSUME Placed, Quiet, NEW n, NEW ok \in BOOLEAN, Finish(n, ok)
  PROVE  InCall' = InCall /\ awaiting' \cap (granted' \cup denied') = {}
BY DEF Quiet, Finish, callers, InCall, Placed

LEMMA NextMoves == ASSUME TypeOK, Placed, [Next]_vars PROVE Moves
<1>0. UNCHANGED <<callers, queue, written, sent, evicted>> => Moves
  BY DEF callers, Moves, Rests, InCall, Placed
<1>1. CASE Write
  <2> DEFINE r == written + 1
  <2>1. r \in Records /\ r \notin InCall
    BY <1>1 DEF Write, Placed, TypeOK
  <2>2. \/ awaiting' = awaiting \cup {r} /\ granted' = granted /\ denied' = denied
        \/ awaiting' = awaiting /\ granted' = granted \cup {r} /\ denied' = denied
        \/ awaiting' = awaiting /\ granted' = granted /\ denied' = denied \cup {r}
    BY <1>1 DEF Write, Outcomes
  <2>3. Admits
    BY <1>1, <2>1, <2>2 DEF Write, Admits, InCall, fates
  <2> QED BY <2>1, <2>2, <2>3 DEF Moves, Placed, InCall
<1>2. ASSUME NEW r \in Records, WriteResumes(r) PROVE Moves
  <2>1. Leaves(r) /\ awaiting' \cap (granted' \cup denied') = {}
    BY <1>2 DEF WriteResumes, Leaves, InCall, Placed
  <2>2. CASE r \in granted /\ Connected
    <3>1. Range(<<r>>) = {r}
      BY DEF Range
    <3> QED BY <1>2, <2>1, <2>2, <3>1 DEF WriteResumes, Send, SendsOne, Moves
  <2>3. CASE ~(r \in granted /\ Connected)
    BY <1>2, <2>1, <2>3 DEF WriteResumes, Queues, Moves, fates
  <2> QED BY <2>2, <2>3
<1>3. CASE FlushCall
  BY <1>3 DEF FlushCall, Moves, Rests, InCall, Placed, fates
<1>4. CASE FlushResumes
  <2>1. InCall' = InCall /\ awaiting' \cap (granted' \cup denied') = {}
    BY <1>4 DEF FlushResumes, InCall, Placed
  <2> QED BY <1>4, <2>1 DEF FlushResumes, Send, Drains, Rests, Moves, fates
<1>5. CASE TimerFires
  BY <1>5, <1>0 DEF TimerFires, fates
<1>6. CASE CloseCall
  BY <1>6, <1>0 DEF CloseCall, fates
<1>7. ASSUME NEW n \in Ids, Opens(n) \/ ChannelErrors(n) PROVE Moves
  BY <1>7, <1>0 DEF Opens, ChannelErrors, fates
<1>8. ASSUME NEW n \in Ids, JoinAccepted(n) \/ Acknowledged(n) PROVE Moves
  <2>1. PICK due : OkReply(n, due) /\ Quiet
    BY <1>8 DEF JoinAccepted, Acknowledged
  <2>2. InCall' = InCall /\ awaiting' \cap (granted' \cup denied') = {}
    BY <2>1, FinishMoves DEF OkReply
  <2> QED BY <2>1, <2>2 DEF OkReply, Send, Drains, Rests, Moves, fates
<1>9. ASSUME NEW n \in Ids, JoinRefused(n) \/ AttemptFails(n) \/ Closes(n) PROVE Moves
  <2>1. UNCHANGED <<queue, written, sent, evicted>> /\ (Finish(n, FALSE) \/ UNCHANGED callers)
    BY <1>9 DEF JoinRefused, AttemptFails, Closes, Fail, fates
  <2>2. CASE Finish(n, FALSE)
    <3>1. InCall' = InCall /\ awaiting' \cap (granted' \cup denied') = {}
      BY <1>9, <2>2, FinishMoves DEF JoinRefused, AttemptFails, Closes
    <3> QED BY <2>1, <3>1 DEF Moves, Rests
  <2> QED BY <2>1, <2>2, <1>0
<1>10. CASE UNCHANGED vars
  BY <1>10, <1>0 DEF vars, callers, fates
<1> QED BY <1>1, <1>2, <1>3, <1>4, <1>5, <1>6, <1>7, <1>8, <1>9, <1>10 DEF Next

-----------------------------------------------------------------------------
(* The channel, as long as no superseded socket reported its close.         *)
Fresh == TypeOK /\ Current /\ Woken /\ ~stale

LEMMA NoSocket == None \notin Ids
BY DEF None, Ids

(* While one socket is live it is the current one. *)
LEMMA OpenIsCurrent ==
  ASSUME Fresh, NEW n \in Ids, sockets[n] \in {"connecting", "open"}
  PROVE  socket = n /\ ~closed
BY NoSocket DEF Fresh, Current, Live

(* connect() replaces only a socket that is dead. *)
LEMMA ConnectKeeps ==
  ASSUME Fresh, NEW o \in Outcomes, Connect(o), UNCHANGED <<misaddressed, heartbeat, closed>>
  PROVE  /\ Current'
         /\ Connected' <=> Connected
         /\ o = "resolved" <=> ~closed /\ Connected
         /\ o = "pending" => attempt' # None
         /\ attempt # None => attempt' # None
         /\ \A n \in Ids : sockets[n] = "closing" => sockets'[n] = "closing"
<1>1. CASE UNCHANGED link
  <2>1. UNCHANGED <<Live, Usable, Connected, sockets, socket, attempt, joined, joinRef>>
    BY <1>1 DEF link, Live, Usable, Connected
  <2>2. Current'
    BY <2>1 DEF Fresh, Current
  <2>3. /\ o = "resolved" <=> ~closed /\ Connected
        /\ o = "pending" => attempt' # None
    BY <2>1, NoSocket DEF Connect, Outcomes
  <2> QED BY <2>1, <2>2, <2>3
<1>2. CASE ~UNCHANGED link
  <2>1. PICK n \in Ids :
          /\ sockets[n] = "none" /\ sockets' = [sockets EXCEPT ![n] = "connecting"]
          /\ socket' = n /\ attempt' = n /\ joined' = FALSE
          /\ ~closed /\ ~Connected /\ attempt = None /\ o = "pending"
    BY <1>2 DEF Connect, link
  <2>2. \A m \in Ids : sockets[m] \notin {"connecting", "open"}
    BY <2>1 DEF Fresh, Current, Live
  <2>3. /\ sockets'[n] = "connecting"
        /\ \A m \in Ids : m # n => sockets'[m] = sockets[m]
    BY <2>1 DEF Fresh, TypeOK
  <2>4. Live' = {n}
    BY <2>2, <2>3 DEF Live
  <2>5. ~Usable' /\ ~Connected'
    BY <2>1, <2>3 DEF Usable, Connected
  <2> QED BY <2>1, <2>2, <2>3, <2>4, <2>5, NoSocket DEF Fresh, Current
<1> QED BY <1>1, <1>2

(* What goes out on the current socket is addressed to its channel. *)
LEMMA SendKeeps ==
  ASSUME Fresh, Usable, NEW q, NEW due, Send(q, due)
  PROVE  misaddressed' = {}
BY DEF Fresh, Current, Send

LEMMA WriteChannel == ASSUME Fresh, Write PROVE Current' /\ Woken'
<1>1. PICK o \in Outcomes :
        /\ Connect(o)
        /\ granted' = (IF o = "resolved" THEN granted \cup {written + 1} ELSE granted)
        /\ denied' = (IF o = "rejected" THEN denied \cup {written + 1} ELSE denied)
  BY DEF Write
<1>2. UNCHANGED <<misaddressed, heartbeat, closed, timer, queue, flusher>>
  BY DEF Write, fates
<1> QED BY <1>1, <1>2, ConnectKeeps DEF Fresh, Woken, Outcomes

LEMMA FlushChannel == ASSUME Fresh, FlushCall PROVE Current' /\ Woken'
<1>1. PICK o \in Outcomes : Connect(o) /\ (flusher' = "granted" => o = "resolved")
  BY DEF FlushCall, Outcomes
<1>2. UNCHANGED <<misaddressed, heartbeat, closed, timer, queue, granted, denied>>
  BY DEF FlushCall, fates
<1> QED BY <1>1, <1>2, ConnectKeeps DEF Fresh, Woken

LEMMA TimerChannel == ASSUME Fresh, TimerFires PROVE Current' /\ Woken'
<1>1. PICK o \in Outcomes : Connect(o) /\ timer' = (o = "rejected" /\ queue # <<>>)
  BY DEF TimerFires
<1>2. UNCHANGED <<misaddressed, heartbeat, closed, queue, flusher, granted, denied>>
  BY DEF TimerFires, fates, callers
<1> QED BY <1>1, <1>2, ConnectKeeps DEF Fresh, Woken, Outcomes

LEMMA ResumeChannel ==
  ASSUME Fresh, NEW r \in Records, WriteResumes(r)
  PROVE  Current' /\ Woken'
<1>1. UNCHANGED link /\ UNCHANGED <<heartbeat, closed, flusher>>
      /\ granted' = granted \ {r} /\ denied' = denied \ {r}
  BY DEF WriteResumes
<1>2. Connected' = Connected /\ Usable' = Usable /\ Live' = Live
  BY <1>1 DEF link, Connected, Usable, Live
<1>3. CASE r \in granted /\ Connected
  <2>1. misaddressed' = {} /\ queue' = queue /\ timer' = timer
    BY <1>3, SendKeeps DEF WriteResumes, Connected
  <2> QED BY <1>1, <1>2, <2>1 DEF Fresh, Current, Woken, link
<1>4. CASE ~(r \in granted /\ Connected)
  <2>1. misaddressed' = {} /\ timer' = ~closed
    BY <1>4 DEF WriteResumes, fates, Fresh, Current
  <2>2. closed \/ ~Connected
    BY <1>4 DEF WriteResumes, Fresh, Woken
  <2> QED BY <1>1, <1>2, <2>1, <2>2 DEF Fresh, Current, Woken, link
<1> QED BY <1>3, <1>4

LEMMA FlushResumesChannel == ASSUME Fresh, FlushResumes PROVE Current' /\ Woken'
<1>1. UNCHANGED link /\ UNCHANGED <<heartbeat, closed, granted, denied, timer>> /\ flusher' = "idle"
  BY DEF FlushResumes
<1>2. Connected' = Connected /\ Usable' = Usable /\ Live' = Live
  BY <1>1 DEF link, Connected, Usable, Live
<1>3. misaddressed' = {} /\ (queue' = <<>> \/ queue' = queue)
  BY SendKeeps DEF FlushResumes, Connected, fates, Fresh, Current
<1> QED BY <1>1, <1>2, <1>3 DEF Fresh, Current, Woken, link

LEMMA CloseChannel == ASSUME Fresh, CloseCall PROVE Current' /\ Woken'
<1>1. /\ socket' = None /\ ~heartbeat' /\ ~joined' /\ closed' /\ attempt' = attempt
      /\ sockets' = [n \in Ids |-> IF n = socket /\ n \in Live THEN "closing" ELSE sockets[n]]
      /\ misaddressed' = {}
  BY DEF CloseCall, fates, Fresh, Current
<1>2. Live' = {}
  BY <1>1 DEF Fresh, Current, Live
<1> QED BY <1>1, <1>2, NoSocket DEF Current, Woken, Usable, Connected

LEMMA OpensChannel == ASSUME Fresh, NEW n \in Ids, Opens(n) PROVE Current' /\ Woken'
<1>1. socket = n /\ ~closed /\ sockets[n] = "connecting"
  BY OpenIsCurrent DEF Opens
<1>2. sockets'[n] = "open" /\ \A m \in Ids : m # n => sockets'[m] = sockets[m]
  BY DEF Opens, Fresh, TypeOK
<1>3. Live' = Live /\ ~Connected
  BY <1>1, <1>2 DEF Live, Connected, Usable
<1>4. attempt = n /\ ~joined
  BY <1>1, <1>3, NoSocket DEF Fresh, Current, Live
<1>5. ~Connected'
  BY <1>4 DEF Opens, Connected
<1> QED BY <1>1, <1>2, <1>3, <1>4, <1>5, NoSocket
        DEF Opens, Fresh, Current, Woken, callers, fates, Quiet

(* An ok reply finds the current socket open, and what waited goes out. *)
LEMMA ReplyChannel ==
  ASSUME Fresh, Quiet, NEW n \in Ids, NEW due, sockets[n] = "open", OkReply(n, due)
  PROVE  Current' /\ Woken'
<1>1. socket = n /\ ~closed /\ Usable /\ joinRef = n
  BY OpenIsCurrent, NoSocket DEF Usable, Fresh, Current
<1>2. /\ queue' = <<>> /\ misaddressed' = {} /\ joined' /\ Finish(n, TRUE)
      /\ UNCHANGED <<sockets, socket, joinRef, closed>>
  BY <1>1, SendKeeps DEF OkReply
<1>3. attempt' = None /\ denied' = {}
  BY <1>1, <1>2, NoSocket DEF Finish, callers, Quiet, Fresh, Current
<1>4. Live' = Live /\ Usable' /\ Connected'
  BY <1>1, <1>2 DEF Live, Usable, Connected
<1> QED BY <1>1, <1>2, <1>3, <1>4, NoSocket DEF Fresh, Current, Woken

(* A socket that is closing or gone is not live, and its attempt is over. *)
LEMMA EndsChannel ==
  ASSUME Fresh, Quiet, NEW n \in Ids, NEW state \in {"none", "closing"},
         sockets' = [sockets EXCEPT ![n] = state],
         Finish(n, FALSE) \/ (UNCHANGED attempt /\ UNCHANGED callers),
         UNCHANGED <<socket, misaddressed, closed, queue>>,
         heartbeat' => heartbeat,
         joined' => joined, joinRef' = joinRef \/ socket \in {None, n},
         joined' = joined \/ socket \in {None, n},
         timer => timer',
         state = "closing" \/ timer' \/ closed \/ queue = <<>>
  PROVE  Current' /\ Woken'
<1>1. sockets'[n] = state /\ \A m \in Ids : m # n => sockets'[m] = sockets[m]
  BY DEF Fresh, TypeOK
<1>2. Live' = Live \ {n}
  BY <1>1 DEF Live
<1>3. Usable' => Usable /\ socket # n /\ joinRef' = joinRef
  BY <1>1, NoSocket DEF Usable, Fresh, TypeOK
<1>4. Connected' => Connected
  BY <1>3 DEF Connected
<1>5. attempt' \in {attempt, None} /\ (attempt # None /\ attempt # n => attempt' = attempt)
  BY DEF Finish
<1>6. granted' = {} /\ flusher' # "granted" /\ (attempt' = attempt => denied' = {})
  BY NoSocket DEF Finish, callers, Quiet
<1>7. Current'
  BY <1>2, <1>3, <1>4, <1>5, <1>1, NoSocket DEF Fresh, Current, Connected, Usable, Live
<1>8. Woken'
  BY <1>1, <1>3, <1>4, <1>5, <1>6, NoSocket DEF Fresh, Current, Woken, Connected
<1> QED BY <1>7, <1>8

LEMMA ClosesChannel == ASSUME Fresh, NEW n \in Ids, Closes(n), ~stale' PROVE Current' /\ Woken'
<1>1. socket \in {None, n}
  BY DEF Closes
<1> QED BY <1>1, EndsChannel DEF Closes, fates, Fresh, TypeOK

LEMMA FailsChannel ==
  ASSUME Fresh, NEW n \in Ids, JoinRefused(n) \/ AttemptFails(n) \/ ChannelErrors(n)
  PROVE  Current' /\ Woken'
<1>1. CASE sockets' = [sockets EXCEPT ![n] = "closing"]
  <2>1. UNCHANGED <<socket, joined, joinRef, misaddressed, heartbeat, closed, queue>> /\ Quiet
    BY DEF JoinRefused, AttemptFails, ChannelErrors, fates
  <2>2. Fail(n) \/ (UNCHANGED <<attempt, timer>> /\ UNCHANGED callers)
    BY DEF JoinRefused, AttemptFails, ChannelErrors
  <2>3. Finish(n, FALSE) \/ (UNCHANGED attempt /\ UNCHANGED callers)
    BY <2>2 DEF Fail
  <2>4. timer => timer'
    BY <2>2 DEF Fail
  <2> QED BY <1>1, <2>1, <2>3, <2>4, EndsChannel
<1>2. CASE sockets' # [sockets EXCEPT ![n] = "closing"]
  <2>1. UNCHANGED <<sockets, socket, attempt, joined, joinRef, misaddressed, heartbeat, closed,
                    queue, timer, granted, denied, flusher>>
    BY <1>2 DEF JoinRefused, AttemptFails, ChannelErrors, Fail, fates, callers
  <2>2. UNCHANGED <<Live, Usable, Connected>>
    BY <2>1 DEF Live, Usable, Connected
  <2> QED BY <2>1, <2>2 DEF Fresh, Current, Woken
<1> QED BY <1>1, <1>2

LEMMA NextChannel == ASSUME TypeOK, Channel, [Next]_vars PROVE Channel'
<1> SUFFICES ASSUME ~stale' PROVE Current' /\ Woken'
  BY DEF Channel
<1>1. ~stale
  <2>1. CASE UNCHANGED vars
    BY <2>1 DEF vars
  <2>2. stale' = stale \/ (\E n \in Ids : Closes(n)) \/ UNCHANGED vars
    BY DEF Next, Write, WriteResumes, FlushCall, FlushResumes, TimerFires, CloseCall, Opens,
           JoinAccepted, Acknowledged, OkReply, JoinRefused, AttemptFails, ChannelErrors
  <2> QED BY <2>1, <2>2 DEF Closes, TypeOK
<1>2. Fresh
  BY <1>1 DEF Fresh, Channel
<1>3. ASSUME NEW n \in Ids, JoinAccepted(n) \/ Acknowledged(n) PROVE Current' /\ Woken'
  <2>1. \E due : OkReply(n, due)
    BY <1>3 DEF JoinAccepted, Acknowledged
  <2> QED BY <1>2, <1>3, <2>1, ReplyChannel DEF JoinAccepted, Acknowledged
<1>4. CASE UNCHANGED vars
  <2>1. UNCHANGED <<Live, Usable, Connected>>
    BY <1>4 DEF vars, link, Live, Usable, Connected
  <2> QED BY <1>2, <1>4, <2>1 DEF vars, link, callers, fates, Fresh, Current, Woken
<1> QED BY <1>2, <1>3, <1>4, WriteChannel, ResumeChannel, FlushChannel, FlushResumesChannel,
          TimerChannel, CloseChannel, OpensChannel, FailsChannel, ClosesChannel DEF Next

-----------------------------------------------------------------------------
LEMMA InitInv == Init => Inv
<1> SUFFICES ASSUME Init PROVE Inv
  OBVIOUS
<1>1. Placed
  <2>1. 1..written = {}
    BY DEF Init
  <2> QED BY <2>1, NothingSeq DEF Init, Placed, InCall, Settled
<1>2. Current /\ Woken
  BY DEF Init, Current, Woken, Live, Usable, Connected
<1> QED BY <1>1, <1>2, InitTypes DEF Inv, Channel

(* The inductive invariant holds. *)
THEOREM Invariance == Spec => []Inv
<1>1. Inv /\ [Next]_vars => Inv'
  BY NextTypes, NextMoves, MovesKeep, NextChannel DEF Inv
<1> QED BY <1>1, InitInv, PTL DEF Spec

(* Every variable keeps its type, whatever sockets and callers do. *)
THEOREM TypeCorrect == Spec => []TypeOK
<1>1. Inv => TypeOK
  BY DEF Inv
<1> QED BY <1>1, Invariance, PTL

(* A record that was written is in a write() that has not come back, in the *)
(* queue, sent or evicted, and in one of these only, also after a late      *)
(* close of a superseded socket (871-969).                                  *)
THEOREM PlacedHolds == Spec => []Placed
<1>1. Inv => Placed
  BY DEF Inv
<1> QED BY <1>1, Invariance, PTL

(* Until the onclose of a superseded socket ran there is one live channel,  *)
(* every message carries its join_ref, a closed transport leaves no socket  *)
(* behind, and what waits will be found (875-888, 961-969).                 *)
THEOREM OneChannelHolds == Spec => []OneChannel
<1>1. ASSUME Inv PROVE OneChannel
  <2> SUFFICES ASSUME ~stale
               PROVE  /\ Cardinality(Live) <= 1
                      /\ misaddressed = {}
                      /\ closed => Live = {} /\ ~heartbeat
                      /\ Quiet /\ ~closed /\ queue # <<>> =>
                           timer \/ attempt # None \/ \E n \in Ids : sockets[n] = "closing"
    BY DEF OneChannel
  <2>1. Current /\ Woken
    BY <1>1 DEF Inv, Channel
  <2>2. Cardinality(Live) <= 1
    <3>1. IsFiniteSet({socket}) /\ Cardinality({socket}) = 1
      BY FS_Singleton
    <3>2. Cardinality(Live) <= Cardinality({socket})
      BY <2>1, <3>1, FS_Subset DEF Current
    <3> QED BY <3>1, <3>2
  <2>3. closed => Live = {}
    BY <2>1, NoSocket DEF Current, Live
  <2> QED BY <2>1, <2>2, <2>3 DEF Current, Woken
<1> QED BY <1>1, Invariance, PTL

-----------------------------------------------------------------------------
(* The transport implements DeliveryLedger: a write() admits its record, a  *)
(* send delivers, an eviction gives up, and every other turn is a stutter   *)
(* (848-888, 931-969).                                                      *)
THEOREM LedgerRefinement == Spec => LedgerSpec
<1> DEFINE held == awaiting \cup granted \cup denied \cup Range(queue)
<1>0. held = InCall \cup Range(queue)
  BY DEF InCall
<1>1. Init => Ledger!Init
  BY NothingSeq DEF Init, Ledger!Init
<1>2. ASSUME TypeOK, Placed, Moves PROVE Ledger!Next \/ UNCHANGED Ledger!vars
  <2>1. CASE Rests
    BY <2>1, <1>0 DEF Rests, Ledger!vars, InCall
  <2>2. CASE Admits
    <3>1. written + 1 \in Records /\ written + 1 \notin held \cup sent \cup evicted
      BY <1>2, <2>2, <1>0 DEF Admits, Placed, Settled, TypeOK
    <3>2. held' = held \cup {written + 1} /\ UNCHANGED <<sent, evicted>>
      BY <2>2 DEF Admits, InCall
    <3>3. Ledger!Admit(written + 1, {})
      BY <3>1, <3>2 DEF Ledger!Admit, Ledger!Known
    <3> QED BY <3>1, <3>3 DEF Ledger!Next
  <2>3. CASE Drains
    <3>1. held' = held \ Range(queue) /\ evicted' = evicted /\ sent' = sent \cup Range(queue)
      BY <1>2, <2>3, NothingSeq DEF Drains, InCall, Placed
    <3>2. Ledger!Deliver(Range(queue))
      BY <3>1 DEF Ledger!Deliver
    <3> QED BY <3>2 DEF Ledger!Next
  <2>4. ASSUME NEW r \in Records, SendsOne(r) PROVE Ledger!Next
    <3>1. r \in held /\ held' = held \ {r} /\ evicted' = evicted /\ sent' = sent \cup {r}
      BY <1>2, <2>4 DEF SendsOne, Leaves, InCall, Placed
    <3>2. Ledger!Deliver({r})
      BY <3>1 DEF Ledger!Deliver
    <3> QED BY <3>1, <3>2 DEF Ledger!Next
  <2>5. ASSUME NEW r \in Records, Queues(r) PROVE Ledger!Next
    <3>1. PICK E \in SUBSET Range(queue) :
            evicted' = evicted \cup E /\ Range(queue') = (Range(queue) \ E) \cup {r}
      BY <1>2, <2>5, QueuesRange
    <3>2. r \in InCall /\ InCall' = InCall \ {r} /\ sent' = sent
      BY <2>5 DEF Queues, Leaves
    <3>3. held' = held \ E
      BY <1>2, <3>1, <3>2 DEF Placed, InCall
    <3>4. Ledger!GiveUp(E)
      BY <3>1, <3>2, <3>3 DEF Ledger!GiveUp
    <3>5. E \in SUBSET held
      BY <3>1
    <3> QED BY <3>4, <3>5 DEF Ledger!Next
  <2> QED BY <1>2, <2>1, <2>2, <2>3, <2>4, <2>5 DEF Moves
<1>3. Inv /\ [Next]_vars => [Ledger!Next]_(Ledger!vars)
  BY <1>2, NextMoves DEF Inv
<1> QED BY <1>1, <1>3, Invariance, PTL DEF Spec, LedgerSpec, Ledger!Spec
=============================================================================
