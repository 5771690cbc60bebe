-------------------------- MODULE LokiTransport_proofs --------------------------
(***************************************************************************)
(* Theorems about LokiTransport, for any number of records, of retries and *)
(* of flushOnExit() callers and any limits: the types, InOrder, that every *)
(* write settles at most once, and the refinement of DeliveryLedger.       *)
(*                                                                         *)
(* The argument: seen from the queue and the batch a step has one of four  *)
(* shapes (Shape). It leaves both alone, starts a flush with the first     *)
(* records of the queue, settles the batch, or admits a record. A flush    *)
(* starts only while the batch is empty (Free), so the batch stays older   *)
(* than the queue (InLine) and what was sent older than both (Older).      *)
(***************************************************************************)
EXTENDS LokiTransport, SequenceTheorems, TLAPS

(* The records of s and t are in the order of the writes, s first. *)
Ascending(s) == \A i, j \in 1..Len(s) : i < j => s[i] < s[j]
Before(s, t) == \A x \in Range(s), y \in Range(t) : x < y
InLine(s, t) == Ascending(s) /\ Ascending(t) /\ Before(s, t)

LEMMA NothingSeq ==
  <<>> \in Seq(Records) /\ Range(<<>>) = {} /\ Ascending(<<>>)
BY DEF Range, Ascending

(* An ascending sequence cut after its first n elements. *)
LEMMA CutSeq ==
  ASSUME NEW q \in Seq(Records), Ascending(q), NEW n \in 1..Len(q)
  PROVE  /\ SubSeq(q, 1, n) \in Seq(Records)
         /\ SubSeq(q, n + 1, Len(q)) \in Seq(Records)
         /\ Range(SubSeq(q, 1, n)) \cup Range(SubSeq(q, n + 1, Len(q))) = Range(q)
         /\ InLine(SubSeq(q, 1, n), SubSeq(q, n + 1, Len(q)))
<1> DEFINE a == SubSeq(q, 1, n)
           b == SubSeq(q, n + 1, Len(q))
<1>1. a \in Seq(Records) /\ Len(a) = n /\ \A i \in 1..n : a[i] = q[i]
  OBVIOUS
<1>2. b \in Seq(Records) /\ Len(b) = Len(q) - n /\ \A i \in 1..(Len(q) - n) : b[i] = q[n + i]
  OBVIOUS
<1>3. /\ Range(a) = {a[i] : i \in 1..n}
      /\ Range(b) = {b[i] : i \in 1..(Len(q) - n)}
      /\ Range(q) = {q[i] : i \in 1..Len(q)}
  BY <1>1, <1>2, RangeEquality
<1>4. \A i, j \in 1..Len(q) : i < j => q[i] < q[j]
  BY DEF Ascending
<1> HIDE DEF a, b
<1>5. Range(a) \cup Range(b) = Range(q)
  <2>1. Range(q) \subseteq Range(a) \cup Range(b)
    <3> SUFFICES ASSUME NEW i \in 1..Len(q) PROVE q[i] \in Range(a) \cup Range(b)
      BY <1>3
    <3>1. CASE i <= n
      BY <3>1, <1>1, <1>3
    <3>2. CASE i > n
      <4>1. i - n \in 1..(Len(q) - n) /\ b[i - n] = q[i]
        BY <3>2, <1>2
      <4> QED BY <4>1, <1>3
    <3> QED BY <3>1, <3>2
  <2>2. Range(a) \cup Range(b) \subseteq Range(q)
    <3>1. \A i \in 1..n : i \in 1..Len(q) /\ a[i] = q[i]
      BY <1>1
    <3>2. \A i \in 1..(Len(q) - n) : n + i \in 1..Len(q) /\ b[i] = q[n + i]
      BY <1>2
    <3> QED BY <1>3, <3>1, <3>2
  <2> QED BY <2>1, <2>2
<1>6. Ascending(a)
  BY <1>1, <1>4 DEF Ascending
<1>7. Ascending(b)
  <2> SUFFICES ASSUME NEW i \in 1..(Len(q) - n), NEW j \in 1..(Len(q) - n), i < j
               PROVE  b[i] < b[j]
    BY <1>2 DEF Ascending
  <2>1. n + i \in 1..Len(q) /\ n + j \in 1..Len(q) /\ n + i < n + j
    OBVIOUS
  <2> QED BY <1>2, <1>4, <2>1
<1>8. Before(a, b)
  <2> SUFFICES ASSUME NEW i \in 1..n, NEW j \in 1..(Len(q) - n) PROVE a[i] < b[j]
    BY <1>3 DEF Before
  <2>1. i \in 1..Len(q) /\ n + j \in 1..Len(q) /\ i < n + j
    OBVIOUS
  <2> QED BY <1>1, <1>2, <1>4, <2>1
<1> QED BY <1>1, <1>2, <1>5, <1>6, <1>7, <1>8 DEF a, b, InLine

(* Two sequences in line, joined. *)
LEMMA JoinSeq ==
  ASSUME NEW s \in Seq(Records), NEW t \in Seq(Records)
  PROVE  /\ s \o t \in Seq(Records)
         /\ Range(s \o t) = Range(s) \cup Range(t)
         /\ InLine(s, t) => Ascending(s \o t)
<1>1. s \o t \in Seq(Records) /\ Range(s \o t) = Range(s) \cup Range(t)
  BY RangeConcatenation
<1>2. ASSUME InLine(s, t) PROVE Ascending(s \o t)
  <2>1. /\ \A i \in 1..Len(s) : s[i] \in Range(s)
        /\ \A i \in 1..Len(t) : t[i] \in Range(t)
    BY RangeEquality
  <2>2. /\ \A i \in 1..Len(s), j \in 1..Len(t) : s[i] < t[j]
        /\ \A i, j \in 1..Len(s) : i < j => s[i] < s[j]
        /\ \A i, j \in 1..Len(t) : i < j => t[i] < t[j]
    BY <1>2, <2>1 DEF InLine, Ascending, Before
  <2> DEFINE u == s \o t
  <2>3. /\ Len(s) \in Nat /\ Len(t) \in Nat /\ Len(u) = Len(s) + Len(t)
        /\ \A i \in 1..(Len(s) + Len(t)) : u[i] = IF i <= Len(s) THEN s[i] ELSE t[i - Len(s)]
    BY ConcatProperties
  <2> HIDE DEF u
  <2> SUFFICES ASSUME NEW i \in 1..(Len(s) + Len(t)), NEW j \in 1..(Len(s) + Len(t)), i < j
               PROVE  u[i] < u[j]
    BY <2>3 DEF Ascending, u
  <2>4. CASE j <= Len(s)
    BY <2>2, <2>3, <2>4
  <2>5. CASE i <= Len(s) /\ j > Len(s)
    <3>1. i \in 1..Len(s) /\ j - Len(s) \in 1..Len(t)
      BY <2>3, <2>5
    <3> QED BY <2>2, <2>3, <2>5, <3>1
  <2>6. CASE i > Len(s)
    <3>1. /\ i - Len(s) \in 1..Len(t) /\ j - Len(s) \in 1..Len(t)
          /\ i - Len(s) < j - Len(s)
      BY <2>3, <2>6
    <3>2. u[i] = t[i - Len(s)] /\ u[j] = t[j - Len(s)]
      BY <2>3, <2>6
    <3> QED BY <2>2, <3>1, <3>2
  <2> QED BY <2>4, <2>5, <2>6
<1> QED BY <1>1, <1>2

LEMMA InLineApart ==
  ASSUME NEW s \in Seq(Records), NEW t, InLine(s, t)
  PROVE  Range(s) \cap Range(t) = {}
<1>1. Range(s) \subseteq Records
  BY RangeEquality
<1>2. \A x \in Range(s) : x \in Int /\ ~(x < x)
  BY <1>1 DEF Records
<1> QED BY <1>2 DEF InLine, Before

(* A record younger than all of q appended to it. *)
LEMMA AppendSeq ==
  ASSUME NEW q \in Seq(Records), NEW r \in Records, Ascending(q), \A x \in Range(q) : x < r
  PROVE  /\ Append(q, r) \in Seq(Records)
         /\ Range(Append(q, r)) = Range(q) \cup {r}
         /\ Ascending(Append(q, r))
<1> DEFINE u == <<r>>
<1>1. u \in Seq(Records) /\ Append(q, r) = q \o u /\ Range(u) = {r} /\ Ascending(u)
  BY AppendIsConcat DEF Range, Ascending
<1> HIDE DEF u
<1>2. InLine(q, u)
  BY <1>1 DEF InLine, Before
<1>3. q \o u \in Seq(Records) /\ Range(q \o u) = Range(q) \cup {r} /\ Ascending(q \o u)
  BY <1>1, <1>2, JoinSeq
<1> QED BY <1>1, <1>3

(* The oldest record taken off. *)
LEMMA TailSeq ==
  ASSUME NEW q \in Seq(Records), Ascending(q), q # <<>>
  PROVE  /\ Head(q) \in Range(q) /\ Tail(q) \in Seq(Records) /\ Ascending(Tail(q))
         /\ Range(Tail(q)) = Range(q) \ {Head(q)}
<1>1. Len(q) \in Nat \ {0} /\ 1 \in 1..Len(q) /\ Tail(q) = SubSeq(q, 1 + 1, Len(q)) /\ Head(q) = q[1]
  BY EmptySeq, TailIsSubSeq
<1> DEFINE c == SubSeq(q, 1, 1)
           t == SubSeq(q, 1 + 1, Len(q))
<1>2. c \in Seq(Records) /\ Len(c) = 1 /\ c[1] = q[1]
  BY <1>1
<1>3. /\ t \in Seq(Records)
      /\ Range(c) \cup Range(t) = Range(q)
      /\ InLine(c, t)
  BY <1>1, CutSeq
<1> HIDE DEF c, t
<1>4. Range(c) = {c[i] : i \in 1..Len(c)} /\ Range(t) \subseteq Records /\ Head(q) \in Records
  BY <1>1, <1>2, <1>3, RangeEquality
<1>5. Range(c) = {Head(q)}
  BY <1>1, <1>2, <1>4
<1>6. Range(t) = Range(q) \ {Head(q)} /\ Head(q) \in Range(q)
  <2>1. \A y \in Range(t) : Head(q) < y
    BY <1>3, <1>5 DEF InLine, Before
  <2>2. Head(q) \in Int
    BY <1>4 DEF Records
  <2>3. Head(q) \notin Range(t)
    BY <2>1, <2>2
  <2> QED BY <1>3, <1>5, <2>3
<1> QED BY <1>1, <1>3, <1>6 DEF InLine, t
-----------------------------------------------------------------------------
Stages == {"idle", "posting", "sleeping", "settled"}
Closings == {"open", "closing", "closed", "failed"}

TypeOK ==
  /\ queue \in Seq(Records) /\ batch \in Seq(Records)
  /\ written \in 0..MaxRecords
  /\ timer \in BOOLEAN /\ rejects \in BOOLEAN
  /\ stage \in Stages /\ closing \in Closings
  /\ attempt \in 0..(MaxRetries + 1)
  /\ pc \in [Callers -> {"idle", "waiting", "resumed"}]
  /\ delivered \subseteq Records /\ failed \subseteq Records /\ evicted \subseteq Records

Held == Range(batch) \cup Range(queue)

(* A flush starts with an empty batch, and ends with one. *)
Free == stage \in {"idle", "settled"} => batch = <<>>

Older == \A r \in delivered \cup failed, s \in Held : r < s

(* Every record is held or settled, and no write's promise settles twice. *)
Once ==
  /\ Held \cup Settled = 1..written
  /\ Held \cap Settled = {}
  /\ delivered \cap failed = {} /\ evicted \cap (delivered \cup failed) = {}

Tries == stage = "sleeping" => attempt <= MaxRetries

Ended == closing = "closed" => queue = <<>> /\ stage = "idle" /\ ~timer

Data ==
  /\ queue \in Seq(Records) /\ batch \in Seq(Records)
  /\ written \in 0..MaxRecords
  /\ delivered \subseteq Records /\ failed \subseteq Records /\ evicted \subseteq Records
  /\ InLine(batch, queue)
  /\ Older
  /\ Once

Control ==
  /\ timer \in BOOLEAN /\ rejects \in BOOLEAN
  /\ stage \in Stages /\ closing \in Closings
  /\ attempt \in 0..(MaxRetries + 1)
  /\ pc \in [Callers -> {"idle", "waiting", "resumed"}]
  /\ Tries
  /\ Ended

Inv == Data /\ Control /\ Free
-----------------------------------------------------------------------------
(* The four shapes of a step. *)
Rests == UNCHANGED <<queue, batch, written, delivered, failed, evicted>>

(* A flush starts with the first records of q. *)
Starts(q) ==
  /\ batch = <<>> /\ q # <<>>
  /\ \E n \in 1..Len(q) : batch' = SubSeq(q, 1, n) /\ queue' = SubSeq(q, n + 1, Len(q))

Admits ==
  LET r == written + 1 IN
    /\ r \in Records
    /\ written' = r
    /\ evicted' = IF Full THEN evicted \cup {Head(queue)} ELSE evicted
    /\ UNCHANGED <<delivered, failed>>
    /\ \/ queue' = Enqueued(r) /\ batch' = batch
       \/ Starts(Enqueued(r))

Settles ==
  /\ batch' = <<>>
  /\ \/ delivered' = delivered \cup Range(batch) /\ UNCHANGED failed
     \/ failed' = failed \cup Range(batch) /\ UNCHANGED delivered
  /\ UNCHANGED <<queue, written, evicted>>

Shape ==
  \/ Rests
  \/ Starts(queue) /\ UNCHANGED <<written, delivered, failed, evicted>>
  \/ Admits
  \/ Settles

LEMMA StartStarts ==
  ASSUME NEW q \in Seq(Records), q # <<>>, Free, stage \in {"idle", "settled"}, Start(q)
  PROVE  Starts(q)
<1>1. Least(BatchSize, Len(q)) \in 1..Len(q)
  BY EmptySeq, LenProperties, LokiAssumption DEF Least
<1> QED BY <1>1 DEF Start, Starts, Free

LEMMA FlushShape ==
  ASSUME NEW q \in Seq(Records), Free, Flush(q)
  PROVE  (queue' = q /\ batch' = batch) \/ Starts(q)
BY StartStarts DEF Flush, Flushing

LEMMA EnqueuedSeq ==
  ASSUME Data, NEW r \in Records
  PROVE  Enqueued(r) \in Seq(Records)
<1>1. Full => queue # <<>>
  BY LokiAssumption, LenProperties DEF Data, Full
<1>2. (IF Full THEN Tail(queue) ELSE queue) \in Seq(Records)
  BY <1>1, TailSeq DEF Data, InLine
<1> QED BY <1>2, AppendProperties DEF Enqueued

LEMMA NextShape == ASSUME Inv, [Next]_vars PROVE Shape
<1>0. queue \in Seq(Records) /\ batch \in Seq(Records) /\ Free
  BY DEF Inv, Data
<1>1. CASE Write
  <2> DEFINE r == written + 1
             q == Enqueued(r)
  <2>1. r \in Records /\ q \in Seq(Records)
    BY <1>1, EnqueuedSeq DEF Write, Inv
  <2>2. (queue' = q /\ batch' = batch) \/ Flush(q)
    BY <1>1 DEF Write
  <2>3. (queue' = q /\ batch' = batch) \/ Starts(q)
    BY <1>0, <2>1, <2>2, FlushShape
  <2> QED BY <1>1, <2>3 DEF Write, Admits, Shape
<1>2. CASE Flush(queue) /\ UNCHANGED <<written, delivered, failed, evicted>>
  BY <1>0, <1>2, FlushShape DEF Shape, Rests
<1>3. CASE FlushCall
  BY <1>2, <1>3 DEF FlushCall
<1>4. CASE TimerFires
  <2>1. CASE Flushing
    BY <1>4, <2>1 DEF TimerFires, Shape, Rests
  <2>2. CASE ~Flushing
    BY <1>2, <1>4, <2>2 DEF TimerFires
  <2> QED BY <2>1, <2>2
<1>5. CASE PostSucceeds \/ PostFails
  BY <1>5 DEF PostSucceeds, PostFails, Settles, Shape
<1>6. CASE AttemptFails \/ SleepEnds
  BY <1>6 DEF AttemptFails, SleepEnds, Rests, Shape
<1>7. CASE FlushEnds
  <2>1. CASE queue # <<>>
    BY <1>0, <1>7, <2>1, StartStarts DEF FlushEnds, Shape
  <2>2. CASE queue = <<>>
    BY <1>7, <2>2 DEF FlushEnds, Rests, Shape
  <2> QED BY <2>1, <2>2
<1>8. ASSUME NEW c \in Callers, ExitTurn(c), UNCHANGED <<written, delivered, failed, evicted>>
      PROVE  Shape
  <2>1. CASE Busy
    BY <1>2, <1>8, <2>1 DEF ExitTurn
  <2>2. CASE ~Busy
    BY <1>8, <2>2 DEF ExitTurn, Rests, Shape
  <2> QED BY <2>1, <2>2
<1>9. CASE \E c \in Exits : ExitCall(c) \/ ExitResumes(c)
  BY <1>8, <1>9 DEF ExitCall, ExitResumes, Callers
<1>10. CASE CloseCall \/ CloseResumes
  <2>1. CASE Busy
    BY <1>8, <1>10, <2>1 DEF CloseCall, CloseResumes, Callers
  <2>2. CASE ~Busy
    BY <1>10, <2>2 DEF CloseCall, CloseResumes, Rests, Shape
  <2> QED BY <2>1, <2>2
<1>11. CASE UNCHANGED vars
  BY <1>11 DEF vars, Rests, Shape
<1> QED BY <1>1, <1>3, <1>4, <1>5, <1>6, <1>7, <1>9, <1>10, <1>11 DEF Next
-----------------------------------------------------------------------------
(* What each shape does to the records held. *)
HeldStays == Held' = Held /\ UNCHANGED <<written, delivered, failed, evicted>>

HeldAdmits ==
  \E out \in SUBSET Held :
    /\ written' = written + 1 /\ written' \in Records
    /\ Held' = (Held \ out) \cup {written'}
    /\ evicted' = evicted \cup out
    /\ UNCHANGED <<delivered, failed>>

HeldSettles ==
  \E sent \in SUBSET Held :
    /\ Held' = Held \ sent
    /\ \A r \in sent, s \in Held \ sent : r < s
    /\ \/ delivered' = delivered \cup sent /\ UNCHANGED failed
       \/ failed' = failed \cup sent /\ UNCHANGED delivered
    /\ UNCHANGED <<written, evicted>>

Moves == HeldStays \/ HeldAdmits \/ HeldSettles

Lined == queue' \in Seq(Records) /\ batch' \in Seq(Records) /\ InLine(batch', queue')

LEMMA StartsMoves ==
  ASSUME NEW q \in Seq(Records), Ascending(q), Starts(q)
  PROVE  Lined /\ Held' = Range(q)
<1>1. PICK n \in 1..Len(q) : batch' = SubSeq(q, 1, n) /\ queue' = SubSeq(q, n + 1, Len(q))
  BY DEF Starts
<1>2. /\ SubSeq(q, 1, n) \in Seq(Records)
      /\ SubSeq(q, n + 1, Len(q)) \in Seq(Records)
      /\ Range(SubSeq(q, 1, n)) \cup Range(SubSeq(q, n + 1, Len(q))) = Range(q)
      /\ InLine(SubSeq(q, 1, n), SubSeq(q, n + 1, Len(q)))
  BY CutSeq
<1> QED BY <1>1, <1>2 DEF Lined, Held

(* The queue after enqueue() of record r, a full one losing its oldest. *)
LEMMA EnqueuedMoves ==
  ASSUME Data, NEW r \in Records, r = written + 1
  PROVE  /\ Enqueued(r) \in Seq(Records)
         /\ InLine(batch, Enqueued(r))
         /\ \E out \in SUBSET Range(queue) :
              /\ Range(Enqueued(r)) = (Range(queue) \ out) \cup {r}
              /\ (IF Full THEN evicted \cup {Head(queue)} ELSE evicted) = evicted \cup out
<1>1. /\ queue \in Seq(Records) /\ batch \in Seq(Records) /\ written \in Nat
      /\ Held \subseteq 1..written /\ InLine(batch, queue)
  BY DEF Data, Once
<1>2. \A x \in Held : x < r
  BY <1>1
<1>3. PICK t \in Seq(Records), out \in SUBSET Range(queue) :
        /\ Enqueued(r) = Append(t, r)
        /\ Ascending(t)
        /\ Range(t) = Range(queue) \ out
        /\ (IF Full THEN evicted \cup {Head(queue)} ELSE evicted) = evicted \cup out
  <2>1. CASE ~Full
    <3>1. /\ Enqueued(r) = Append(queue, r) /\ Ascending(queue)
          /\ Range(queue) = Range(queue) \ {} /\ {} \in SUBSET Range(queue)
          /\ (IF Full THEN evicted \cup {Head(queue)} ELSE evicted) = evicted \cup {}
      BY <1>1, <2>1 DEF Enqueued, InLine
    <3> QED BY <1>1, <3>1
  <2>2. CASE Full
    <3>1. queue # <<>>
      BY <1>1, <2>2, LokiAssumption, LenProperties DEF Full
    <3>2. /\ Head(queue) \in Range(queue) /\ Tail(queue) \in Seq(Records) /\ Ascending(Tail(queue))
          /\ Range(Tail(queue)) = Range(queue) \ {Head(queue)}
      BY <1>1, <3>1, TailSeq DEF InLine
    <3>3. /\ Enqueued(r) = Append(Tail(queue), r)
          /\ (IF Full THEN evicted \cup {Head(queue)} ELSE evicted) = evicted \cup {Head(queue)}
          /\ {Head(queue)} \in SUBSET Range(queue)
      BY <2>2, <3>2 DEF Enqueued
    <3> QED BY <3>2, <3>3
  <2> QED BY <2>1, <2>2
<1>4. /\ Append(t, r) \in Seq(Records)
      /\ Range(Append(t, r)) = Range(t) \cup {r}
      /\ Ascending(Append(t, r))
  BY <1>2, <1>3, AppendSeq DEF Held
<1> DEFINE q == Append(t, r)
<1>5. /\ q \in Seq(Records) /\ Range(q) = (Range(queue) \ out) \cup {r} /\ Ascending(q)
      /\ Enqueued(r) = q
  BY <1>3, <1>4
<1> HIDE DEF q
<1>6. InLine(batch, q)
  BY <1>1, <1>2, <1>5 DEF InLine, Before, Held
<1> QED BY <1>3, <1>5, <1>6

LEMMA ShapeMoves == ASSUME Data, Shape PROVE Lined /\ Moves
<1>0. /\ queue \in Seq(Records) /\ batch \in Seq(Records) /\ InLine(batch, queue)
  BY DEF Data
<1>1. CASE Rests
  BY <1>0, <1>1 DEF Rests, Lined, Moves, HeldStays, Held
<1>2. CASE Starts(queue) /\ UNCHANGED <<written, delivered, failed, evicted>>
  <2>1. Lined /\ Held' = Range(queue)
    BY <1>0, <1>2, StartsMoves DEF InLine
  <2>2. Held = Range(queue)
    BY <1>2, NothingSeq DEF Starts, Held
  <2> QED BY <1>2, <2>1, <2>2 DEF Moves, HeldStays
<1>3. CASE Admits
  <2> DEFINE r == written + 1
             q == Enqueued(r)
  <2>1. /\ r \in Records /\ r = written + 1 /\ written' = r
        /\ evicted' = IF Full THEN evicted \cup {Head(queue)} ELSE evicted
        /\ UNCHANGED <<delivered, failed>>
        /\ (queue' = q /\ batch' = batch) \/ Starts(q)
    BY <1>3 DEF Admits
  <2> HIDE DEF r
  <2>2. /\ q \in Seq(Records) /\ InLine(batch, q)
        /\ \E out \in SUBSET Range(queue) :
             /\ Range(q) = (Range(queue) \ out) \cup {r}
             /\ (IF Full THEN evicted \cup {Head(queue)} ELSE evicted) = evicted \cup out
    BY <2>1, EnqueuedMoves
  <2> HIDE DEF q
  <2>3. PICK out \in SUBSET Range(queue) :
          /\ Range(q) = (Range(queue) \ out) \cup {r}
          /\ evicted' = evicted \cup out
    BY <2>1, <2>2
  <2>4. Lined /\ Held' = Range(batch) \cup Range(q)
    <3>1. CASE queue' = q /\ batch' = batch
      BY <1>0, <2>2, <3>1 DEF Lined, Held
    <3>2. CASE Starts(q)
      <4>1. Lined /\ Held' = Range(q)
        BY <2>2, <3>2, StartsMoves DEF InLine
      <4> QED BY <3>2, <4>1, NothingSeq DEF Starts
    <3> QED BY <2>1, <3>1, <3>2
  <2>5. Range(batch) \cap Range(queue) = {}
    BY <1>0, InLineApart
  <2>6. Held' = (Held \ out) \cup {written'} /\ out \in SUBSET Held
    BY <2>1, <2>3, <2>4, <2>5 DEF Held
  <2>7. HeldAdmits
    BY <2>1, <2>3, <2>6 DEF HeldAdmits
  <2> QED BY <2>4, <2>7 DEF Moves
<1>4. CASE Settles
  <2>1. batch' = <<>> /\ queue' = queue /\ UNCHANGED <<written, evicted>>
    BY <1>4 DEF Settles
  <2>2. Lined
    BY <1>0, <2>1, NothingSeq DEF Lined, InLine, Before
  <2>3. \A x \in Range(batch), y \in Range(queue) : x < y
    BY <1>0 DEF InLine, Before
  <2>4. Range(batch) \cap Range(queue) = {}
    BY <1>0, InLineApart
  <2>5. Held' = Range(queue) /\ Held \ Range(batch) = Range(queue) /\ Range(batch) \in SUBSET Held
    BY <2>1, <2>4, NothingSeq DEF Held
  <2>6. HeldSettles
    BY <1>4, <2>3, <2>5 DEF Settles, HeldSettles
  <2> QED BY <2>2, <2>6 DEF Moves
<1> QED BY <1>1, <1>2, <1>3, <1>4 DEF Shape

LEMMA NextData == ASSUME Data, Lined, Moves PROVE Data'
<1>1. /\ written \in 0..MaxRecords /\ MaxRecords \in Nat
      /\ delivered \subseteq Records /\ failed \subseteq Records /\ evicted \subseteq Records
      /\ Held \subseteq Records /\ Held \subseteq 1..written
      /\ Settled \subseteq 1..written
      /\ Older /\ Once
  BY LokiAssumption DEF Data, Once, Records
<1>2. CASE HeldStays
  BY <1>1, <1>2 DEF HeldStays, Data, Lined, Older, Once, Settled
<1>3. CASE HeldAdmits
  <2>1. PICK out \in SUBSET Held :
          /\ written' = written + 1 /\ written' \in Records
          /\ Held' = (Held \ out) \cup {written'}
          /\ evicted' = evicted \cup out
          /\ UNCHANGED <<delivered, failed>>
    BY <1>3 DEF HeldAdmits
  <2>2. 1..written' = (1..written) \cup {written'} /\ written' \notin 1..written
        /\ \A x \in 1..written : x < written'
    BY <1>1, <2>1
  <2>3. Once'
    <3>1. Settled' = Settled \cup out /\ out \cap Settled = {}
      BY <1>1, <2>1 DEF Once, Settled
    <3>2. Held' \cup Settled' = 1..written'
      BY <1>1, <2>1, <2>2, <3>1 DEF Once
    <3>3. Held' \cap Settled' = {}
      BY <1>1, <2>1, <2>2, <3>1 DEF Once
    <3>4. /\ delivered' \cap failed' = {}
          /\ evicted' \cap (delivered' \cup failed') = {}
      BY <1>1, <2>1, <3>1 DEF Once, Settled
    <3> QED BY <3>2, <3>3, <3>4 DEF Once
  <2>4. Older'
    <3>1. delivered \cup failed \subseteq 1..written
      BY <1>1 DEF Settled
    <3> QED BY <1>1, <2>1, <2>2, <3>1 DEF Older
  <2>5. written' \in 0..MaxRecords /\ evicted' \subseteq Records
    BY <1>1, <2>1 DEF Records
  <2> QED BY <1>1, <2>1, <2>3, <2>4, <2>5 DEF Data, Lined
<1>4. CASE HeldSettles
  <2>1. PICK sent \in SUBSET Held :
          /\ Held' = Held \ sent
          /\ \A r \in sent, s \in Held \ sent : r < s
          /\ \/ delivered' = delivered \cup sent /\ UNCHANGED failed
             \/ failed' = failed \cup sent /\ UNCHANGED delivered
          /\ UNCHANGED <<written, evicted>>
    BY <1>4 DEF HeldSettles
  <2>2. Once'
    BY <1>1, <2>1 DEF Once, Settled
  <2>3. Older'
    BY <1>1, <2>1 DEF Older
  <2> QED BY <1>1, <2>1, <2>2, <2>3 DEF Data, Lined
<1> QED BY <1>2, <1>3, <1>4 DEF Moves
-----------------------------------------------------------------------------
(* The flush, the timer, the callers and close(). *)
CallersOK == pc \in [Callers -> {"idle", "waiting", "resumed"}]

LEMMA StartKeeps ==
  ASSUME NEW q, Start(q), UNCHANGED closing, closing # "closed", CallersOK', Control
  PROVE  Control' /\ Free'
<1>1. timer' = FALSE /\ rejects' = FALSE /\ stage' = "posting" /\ attempt' = 1
  BY DEF Start
<1>2. 1 \in 0..(MaxRetries + 1)
  BY LokiAssumption
<1>3. attempt' \in 0..(MaxRetries + 1)
  BY <1>1, <1>2
<1> QED BY <1>1, <1>3 DEF Control, CallersOK, Tries, Ended, Free, Stages

LEMMA FlushKeeps ==
  ASSUME Control, Free, Flush(queue), UNCHANGED closing, CallersOK'
  PROVE  Control' /\ Free'
<1>1. CASE Flushing
  BY <1>1 DEF Flush, Flushing, Control, CallersOK, Tries, Ended, Free
<1>2. CASE ~Flushing /\ queue = <<>>
  BY <1>2 DEF Flush, Flushing, Control, CallersOK, Tries, Ended, Free
<1>3. CASE ~Flushing /\ queue # <<>>
  BY <1>3, StartKeeps DEF Flush, Control, Ended
<1> QED BY <1>1, <1>2, <1>3

LEMMA ExitTurnKeeps ==
  ASSUME Control, Free, NEW c \in Callers, ExitTurn(c), UNCHANGED closing
  PROVE  Control' /\ Free'
<1>1. CallersOK'
  BY DEF ExitTurn, Control, CallersOK
<1>2. CASE Busy
  BY <1>1, <1>2, FlushKeeps DEF ExitTurn
<1>3. CASE ~Busy
  BY <1>1, <1>3 DEF ExitTurn, Control, CallersOK, Tries, Ended, Free
<1> QED BY <1>2, <1>3

LEMMA NextControl == ASSUME Inv, [Next]_vars PROVE Control' /\ Free'
<1>0. Control /\ Free /\ Data
  BY DEF Inv
<1> USE DEF Stages, Closings
<1>1. CASE Write
  <2>1. closing = "open" /\ UNCHANGED <<pc, closing>>
    BY <1>1 DEF Write
  <2> DEFINE q == Enqueued(written + 1)
  <2>2. \/ Flush(q)
        \/ batch' = batch /\ timer' = TRUE /\ UNCHANGED <<stage, attempt, rejects>>
    BY <1>1 DEF Write
  <2> HIDE DEF q
  <2>3. \/ batch' = batch /\ timer' \in BOOLEAN /\ UNCHANGED <<stage, attempt, rejects>>
        \/ Start(q)
    BY <1>0, <2>2 DEF Flush, Control
  <2>4. CallersOK'
    BY <1>0, <2>1 DEF Control, CallersOK
  <2>5. CASE Start(q)
    BY <1>0, <2>1, <2>4, <2>5, StartKeeps
  <2>6. CASE batch' = batch /\ timer' \in BOOLEAN /\ UNCHANGED <<stage, attempt, rejects>>
    BY <1>0, <2>1, <2>4, <2>6 DEF Control, CallersOK, Tries, Ended, Free
  <2> QED BY <2>3, <2>5, <2>6
<1>2. CASE Flush(queue) /\ UNCHANGED <<pc, closing>>
  BY <1>0, <1>2, FlushKeeps DEF Control, CallersOK
<1>3. CASE FlushCall
  BY <1>2, <1>3 DEF FlushCall
<1>4. CASE TimerFires
  <2>1. CASE Flushing
    BY <1>0, <1>4, <2>1 DEF TimerFires, Control, Tries, Ended, Free
  <2>2. CASE ~Flushing
    BY <1>2, <1>4, <2>2 DEF TimerFires
  <2> QED BY <2>1, <2>2
<1>5. CASE PostSucceeds
  BY <1>0, <1>5 DEF PostSucceeds, Control, Tries, Ended, Free
<1>6. CASE PostFails
  BY <1>0, <1>6 DEF PostFails, Control, Tries, Ended, Free
<1>7. CASE AttemptFails
  BY <1>0, <1>7 DEF AttemptFails, Control, Tries, Ended, Free
<1>8. CASE SleepEnds
  <2>1. attempt' \in 0..(MaxRetries + 1)
    BY <1>0, <1>8, LokiAssumption DEF SleepEnds, Control, Tries
  <2> QED BY <1>0, <1>8, <2>1 DEF SleepEnds, Control, Tries, Ended, Free
<1>9. CASE FlushEnds
  <2>1. CallersOK' /\ closing # "closed" /\ closing' \in Closings \ {"closed"}
    BY <1>0, <1>9 DEF FlushEnds, Wake, Control, CallersOK, Ended
  <2>2. CASE queue # <<>>
    <3>1. timer' = FALSE /\ rejects' = FALSE /\ stage' = "posting" /\ attempt' = 1
      BY <1>9, <2>2 DEF FlushEnds, Start
    <3>2. 1 \in 0..(MaxRetries + 1)
      BY LokiAssumption
    <3>3. attempt' \in 0..(MaxRetries + 1)
      BY <3>1, <3>2
    <3> QED BY <2>1, <3>1, <3>3 DEF Control, CallersOK, Tries, Ended, Free
  <2>3. CASE queue = <<>>
    <3>1. stage = "settled" /\ stage' = "idle" /\ UNCHANGED <<queue, timer, batch, attempt, rejects>>
      BY <1>9, <2>3 DEF FlushEnds
    <3> QED BY <1>0, <2>1, <3>1 DEF Control, CallersOK, Tries, Ended, Free
  <2> QED BY <2>2, <2>3
<1>10. CASE \E c \in Exits : ExitCall(c) \/ ExitResumes(c)
  BY <1>0, <1>10, ExitTurnKeeps DEF ExitCall, ExitResumes, Callers
<1>11. CASE CloseCall \/ CloseResumes
  <2>1. CASE Busy
    <3>1. ExitTurn("close") /\ closing' \in {closing, "closing"}
      BY <1>11, <2>1 DEF CloseCall, CloseResumes
    <3>2. CallersOK'
      BY <1>0, <3>1 DEF ExitTurn, Control, CallersOK
    <3>3. closing # "closed" /\ closing' # "closed" /\ closing' \in Closings
      BY <1>0, <2>1, <3>1 DEF Control, Ended, Busy, Flushing
    <3>4. /\ Flush(queue)
      BY <2>1, <3>1 DEF ExitTurn
    <3>5. CASE Start(queue)
      <4>1. timer' = FALSE /\ rejects' = FALSE /\ stage' = "posting" /\ attempt' = 1
        BY <3>5 DEF Start
      <4>2. 1 \in 0..(MaxRetries + 1)
        BY LokiAssumption
      <4>3. attempt' \in 0..(MaxRetries + 1)
        BY <4>1, <4>2
      <4> QED BY <3>2, <3>3, <4>1, <4>3 DEF Control, CallersOK, Tries, Ended, Free
    <3>6. CASE timer' \in {timer, FALSE} /\ UNCHANGED <<stage, batch, attempt, rejects>>
      BY <1>0, <3>2, <3>3, <3>6 DEF Control, CallersOK, Tries, Ended, Free
    <3> QED BY <3>4, <3>5, <3>6 DEF Flush
  <2>2. CASE ~Busy
    <3>1. /\ closing' = "closed" /\ timer' = FALSE
          /\ UNCHANGED <<queue, stage, batch, attempt, rejects>>
      BY <1>11, <2>2 DEF CloseCall, CloseResumes
    <3>2. CallersOK'
      BY <1>0, <1>11, <2>2 DEF CloseCall, CloseResumes, Control, CallersOK
    <3> QED BY <1>0, <2>2, <3>1, <3>2 DEF Busy, Flushing, Control, CallersOK, Tries, Ended, Free
  <2> QED BY <2>1, <2>2
<1>12. CASE UNCHANGED vars
  BY <1>0, <1>12 DEF vars, Control, Tries, Ended, Free
<1> QED BY <1>1, <1>3, <1>4, <1>5, <1>6, <1>7, <1>8, <1>9, <1>10, <1>11, <1>12 DEF Next
-----------------------------------------------------------------------------
LEMMA InitInv == ASSUME Init PROVE Inv
<1>1. Data
  <2>1. /\ queue = <<>> /\ batch = <<>> /\ written = 0
        /\ delivered = {} /\ failed = {} /\ evicted = {}
    BY DEF Init
  <2>2. Held = {} /\ InLine(batch, queue)
    BY <2>1, NothingSeq DEF Held, InLine, Before
  <2>3. 1..written = {} /\ written \in 0..MaxRecords
    BY <2>1, LokiAssumption
  <2> QED BY <2>1, <2>2, <2>3, NothingSeq DEF Data, Older, Once, Settled
<1>2. Control
  <2>1. 0 \in 0..(MaxRetries + 1)
    BY LokiAssumption
  <2> QED BY <2>1 DEF Init, Control, Tries, Ended, Stages, Closings
<1>3. Free
  BY DEF Init, Free
<1> QED BY <1>1, <1>2, <1>3 DEF Inv

LEMMA NextInv == ASSUME Inv, [Next]_vars PROVE Inv'
<1>1. Data'
  BY NextShape, ShapeMoves, NextData DEF Inv
<1> QED BY <1>1, NextControl DEF Inv

(* Inv holds in every reachable state. *)
THEOREM Invariance == Spec => []Inv
<1>1. Init => Inv
  BY InitInv
<1>2. Inv /\ [Next]_vars => Inv'
  BY NextInv
<1> QED BY <1>1, <1>2, PTL DEF Spec

(* The fields keep their types; in particular no batch is attempted more    *)
(* than MaxRetries + 1 times, whoever calls flush() meanwhile.              *)
THEOREM TypeCorrect == Spec => []TypeOK
<1>1. Inv => TypeOK
  BY DEF Inv, Data, Control, TypeOK
<1> QED BY <1>1, Invariance, PTL

(* No write()'s promise settles twice, and none is forgotten: every record  *)
(* is queued or in the batch, or settled in exactly one way.                *)
THEOREM SettledOnce == Spec => []Once
<1>1. Inv => Once
  BY DEF Inv, Data
<1> QED BY <1>1, Invariance, PTL

(* Batches leave one at a time in the order of the writes, and a close()    *)
(* that resolved left nothing behind.                                       *)
THEOREM InOrderHolds == Spec => []InOrder
<1>1. ASSUME Inv PROVE InOrder
  <2>1. /\ queue \in Seq(Records) /\ batch \in Seq(Records) /\ InLine(batch, queue)
        /\ Older /\ Once /\ Ended /\ Free
    BY <1>1 DEF Inv, Data, Control
  <2> DEFINE u == batch \o queue
  <2>2. u \in Seq(Records) /\ Range(u) = Held /\ Ascending(u)
    BY <2>1, JoinSeq DEF Held
  <2>3. closing = "closed" => queue = <<>> /\ ~Flushing /\ ~timer /\ Settled = 1..written
    <3> SUFFICES ASSUME closing = "closed"
                 PROVE  queue = <<>> /\ ~Flushing /\ ~timer /\ Settled = 1..written
      OBVIOUS
    <3>1. queue = <<>> /\ stage = "idle" /\ ~timer /\ batch = <<>>
      BY <2>1 DEF Ended, Free
    <3>2. Held = {}
      BY <3>1, NothingSeq DEF Held
    <3> QED BY <2>1, <3>1, <3>2 DEF Once, Flushing
  <2> HIDE DEF u
  <2>4. /\ \A r \in delivered \cup failed, s \in Range(u) : r < s
        /\ \A i, j \in 1..Len(u) : i < j => u[i] < u[j]
    BY <2>1, <2>2 DEF Older, Ascending
  <2> QED BY <2>3, <2>4 DEF InOrder, u
<1> QED BY <1>1, Invariance, PTL

(* The transport implements DeliveryLedger with GivesUp: what is queued or  *)
(* in the batch is pending, what failed for good or was evicted is dropped. *)
THEOREM LedgerRefinement == Spec => LedgerSpec
<1>1. ASSUME Inv PROVE Range(batch \o queue) = Held
  BY <1>1, JoinSeq DEF Inv, Data, Held
<1>2. ASSUME Inv' PROVE Range(batch \o queue)' = Held'
  <2>1. /\ queue' \in Seq(Records) /\ batch' \in Seq(Records)
        /\ Held' = Range(batch') \cup Range(queue')
    BY <1>2 DEF Inv, Data, Held
  <2> QED BY <2>1, JoinSeq
<1>3. ASSUME Init PROVE Ledger!Init
  <2>1. Inv /\ Held = {}
    BY <1>3, InitInv, NothingSeq DEF Init, Held
  <2> QED BY <1>1, <1>3, <2>1 DEF Ledger!Init, Init
<1>4. ASSUME Inv, Inv', [Next]_vars PROVE [Ledger!Next]_(Ledger!vars)
  <2>1. Moves /\ Range(batch \o queue) = Held /\ Range(batch \o queue)' = Held'
    BY <1>1, <1>2, <1>4, NextShape, ShapeMoves DEF Inv
  <2>2. Held \cup Settled = 1..written /\ written + 1 \notin 1..written
    BY <1>4 DEF Inv, Data, Once
  <2>3. CASE HeldStays
    BY <2>1, <2>3 DEF HeldStays, Ledger!vars
  <2>4. CASE HeldAdmits
    <3>1. PICK out \in SUBSET Held :
            /\ written' = written + 1 /\ written' \in Records
            /\ Held' = (Held \ out) \cup {written'}
            /\ evicted' = evicted \cup out
            /\ UNCHANGED <<delivered, failed>>
      BY <2>4 DEF HeldAdmits
    <3>2. Ledger!Admit(written', out)
      BY <2>1, <2>2, <3>1 DEF Ledger!Admit, Ledger!Known, Settled
    <3> QED BY <2>1, <3>1, <3>2 DEF Ledger!Next
  <2>5. CASE HeldSettles
    <3>1. PICK sent \in SUBSET Held :
            /\ Held' = Held \ sent
            /\ \/ delivered' = delivered \cup sent /\ UNCHANGED failed
               \/ failed' = failed \cup sent /\ UNCHANGED delivered
            /\ UNCHANGED <<written, evicted>>
      BY <2>5 DEF HeldSettles
    <3>2. Ledger!Deliver(sent) \/ Ledger!GiveUp(sent)
      BY <2>1, <3>1 DEF Ledger!Deliver, Ledger!GiveUp
    <3> QED BY <2>1, <3>1, <3>2 DEF Ledger!Next
  <2> QED BY <2>1, <2>3, <2>4, <2>5 DEF Moves
<1> QED BY <1>3, <1>4, Invariance, PTL DEF Spec, LedgerSpec, Ledger!Spec
=============================================================================
