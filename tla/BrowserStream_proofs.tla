-------------------------- MODULE BrowserStream_proofs --------------------------
(***************************************************************************)
(* Theorems about BrowserStream, for any number of records and sockets and *)
(* any limits: the types, AccountedInOrder and WakeupArmed.                *)
(*                                                                         *)
(* The argument: the loop may only drain what it sent because its batch is *)
(* still the head of the queue (Ahead) and, over an inner transport, what  *)
(* it already handed over is a prefix of that batch (Taken). Both hold     *)
(* until write() or a page exit moves the head. The queue is ascending     *)
(* whatever happens, so a prefix sent overtakes nobody.                    *)
(*                                                                         *)
(* What a page exit does depends on the beacon: one that answers false     *)
(* loses the queue and none at all leaves it without a timer, so the       *)
(* theorems name the beacons they hold for.                                *)
(***************************************************************************)
EXTENDS BrowserStream, SequenceTheorems, TLAPS

Ascending(s) == \A i, j \in 1..Len(s) : i < j => s[i] < s[j]

LEMMA NothingSeq ==
  <<>> \in Seq(Records) /\ Range(<<>>) = {} /\ Ascending(<<>>) /\ Len(<<>>) = 0
BY DEF Range, Ascending

(* A sequence cut after its first n elements. *)
LEMMA CutSeq ==
  ASSUME NEW q \in Seq(Records), NEW n \in 0..Len(q)
  PROVE  /\ SubSeq(q, 1, n) \in Seq(Records) /\ Len(SubSeq(q, 1, n)) = n
         /\ SubSeq(q, n + 1, Len(q)) \in Seq(Records)
         /\ Range(SubSeq(q, 1, n)) \cup Range(SubSeq(q, n + 1, Len(q))) = Range(q)
         /\ \A i \in 1..n : SubSeq(q, 1, n)[i] = q[i]
         /\ Ascending(q) =>
              /\ Ascending(SubSeq(q, n + 1, Len(q)))
              /\ \A x \in Range(SubSeq(q, 1, n)), y \in Range(SubSeq(q, n + 1, Len(q))) : x < y
<1> DEFINE a == SubSeq(q, 1, n)
           b == SubSeq(q, n + 1, Len(q))
<1>1. a \in Seq(Records) /\ Len(a) = n /\ \A i \in 1..n : a[i] = q[i]
  OBVIOUS
<1>2. b \in Seq(Records) /\ Len(b) = Len(q) - n /\ \A i \in 1..(Len(q) - n) : b[i] = q[n + i]
  OBVIOUS
<1>3. /\ Range(a) = {a[i] : i \in 1..n}
      /\ Range(b) = {b[i] : i \in 1..(Len(q) - n)}
      /\ Range(q) = {q[i] : i \in 1..Len(q)}
  BY <1>1, <1>2, RangeEquality
<1> HIDE DEF a, b
<1>4. Range(a) \cup Range(b) = Range(q)
  <2>1. Range(q) \subseteq Range(a) \cup Range(b)
    <3> SUFFICES ASSUME NEW i \in 1..Len(q) PROVE q[i] \in Range(a) \cup Range(b)
      BY <1>3
    <3>1. CASE i <= n
      BY <3>1, <1>1, <1>3
    <3>2. CASE i > n
      <4>1. i - n \in 1..(Len(q) - n) /\ b[i - n] = q[i]
        BY <3>2, <1>2
      <4> QED BY <4>1, <1>3
    <3> QED BY <3>1, <3>2
  <2>2. Range(a) \cup Range(b) \subseteq Range(q)
    <3>1. \A i \in 1..n : i \in 1..Len(q) /\ a[i] = q[i]
      BY <1>1
    <3>2. \A i \in 1..(Len(q) - n) : n + i \in 1..Len(q) /\ b[i] = q[n + i]
      BY <1>2
    <3> QED BY <1>3, <3>1, <3>2
  <2> QED BY <2>1, <2>2
<1>5. ASSUME Ascending(q)
      PROVE  Ascending(b) /\ \A x \in Range(a), y \in Range(b) : x < y
  <2>1. \A i, j \in 1..Len(q) : i < j => q[i] < q[j]
    BY <1>5 DEF Ascending
  <2>2. Ascending(b)
    <3> SUFFICES ASSUME NEW i \in 1..(Len(q) - n), NEW j \in 1..(Len(q) - n), i < j
                 PROVE  b[i] < b[j]
      BY <1>2 DEF Ascending
    <3>1. n + i \in 1..Len(q) /\ n + j \in 1..Len(q) /\ n + i < n + j
      OBVIOUS
    <3> QED BY <1>2, <2>1, <3>1
  <2>3. ASSUME NEW i \in 1..n, NEW j \in 1..(Len(q) - n) PROVE a[i] < b[j]
    <3>1. i \in 1..Len(q) /\ n + j \in 1..Len(q) /\ i < n + j
      OBVIOUS
    <3> QED BY <1>1, <1>2, <2>1, <3>1
  <2> QED BY <1>3, <2>2, <2>3
<1> QED BY <1>1, <1>2, <1>4, <1>5 DEF a, b

(* A record younger than all of q appended to it. *)
LEMMA AppendSeq ==
  ASSUME NEW q \in Seq(Records), NEW r \in Records
  PROVE  /\ Append(q, r) \in Seq(Records)
         /\ Len(Append(q, r)) = Len(q) + 1
         /\ Range(Append(q, r)) = Range(q) \cup {r}
         /\ \A n \in 0..Len(q) : SubSeq(Append(q, r), 1, n) = SubSeq(q, 1, n)
         /\ Ascending(q) /\ (\A x \in Range(q) : x < r) => Ascending(Append(q, r))
<1> DEFINE u == Append(q, r)
<1>1. /\ u \in Seq(Records) /\ Len(u) = Len(q) + 1 /\ Len(q) \in Nat
      /\ \A i \in 1..Len(q) : u[i] = q[i]
      /\ u[Len(q) + 1] = r
  BY AppendProperties
<1>2. Range(u) = {u[i] : i \in 1..Len(u)} /\ Range(q) = {q[i] : i \in 1..Len(q)}
  BY <1>1, RangeEquality
<1>3. ASSUME NEW n \in 0..Len(q) PROVE SubSeq(u, 1, n) = SubSeq(q, 1, n)
  <2> HIDE DEF u
  <2>1. SubSeq(u, 1, n) = [i \in 1..n |-> u[i]] /\ SubSeq(q, 1, n) = [i \in 1..n |-> q[i]]
    BY <1>1
  <2> QED BY <1>1, <2>1
<1> HIDE DEF u
<1>4. Range(u) = Range(q) \cup {r}
  <2>1. 1..Len(u) = (1..Len(q)) \cup {Len(q) + 1}
    BY <1>1
  <2> QED BY <1>1, <1>2, <2>1
<1>5. ASSUME Ascending(q), \A x \in Range(q) : x < r PROVE Ascending(u)
  <2> SUFFICES ASSUME NEW i \in 1..(Len(q) + 1), NEW j \in 1..(Len(q) + 1), i < j
               PROVE  u[i] < u[j]
    BY <1>1 DEF Ascending
  <2>1. CASE j <= Len(q)
    <3>1. i \in 1..Len(q) /\ j \in 1..Len(q)
      BY <1>1, <2>1
    <3> QED BY <1>1, <1>5, <3>1 DEF Ascending
  <2>2. CASE j = Len(q) + 1
    <3>1. i \in 1..Len(q)
      BY <1>1, <2>2
    <3> QED BY <1>1, <1>2, <1>5, <2>2, <3>1
  <2> QED BY <1>1, <2>1, <2>2
<1> QED BY <1>1, <1>3, <1>4, <1>5 DEF u

(* drain(n): the queue without its first n records. *)
LEMMA DrainSeq ==
  ASSUME NEW q \in Seq(Records), NEW n \in Nat
  PROVE  /\ Without(q, n) \in Seq(Records)
         /\ Range(Without(q, n)) \subseteq Range(q)
         /\ Ascending(q) => Ascending(Without(q, n))
         /\ n \in 0..Len(q) => Without(q, n) = SubSeq(q, n + 1, Len(q))
<1> DEFINE m == Least(n, Len(q))
<1>1. Len(q) \in Nat /\ m \in 0..Len(q) /\ (n \in 0..Len(q) => m = n)
  BY LenProperties DEF Least
<1> HIDE DEF m
<1>2. /\ SubSeq(q, m + 1, Len(q)) \in Seq(Records)
      /\ Range(SubSeq(q, 1, m)) \cup Range(SubSeq(q, m + 1, Len(q))) = Range(q)
      /\ Ascending(q) => Ascending(SubSeq(q, m + 1, Len(q)))
  BY <1>1, CutSeq
<1>3. Without(q, n) = SubSeq(q, m + 1, Len(q))
  BY DEF Without, m
<1> QED BY <1>1, <1>2, <1>3
-----------------------------------------------------------------------------
Loops == {"idle", "connecting", "connected", "writing", "yielding"}
States == {"none", "connecting", "open", "closing"}

TypeOK ==
  /\ inner \in BOOLEAN
  /\ queue \in Seq(Records) /\ written \in 0..MaxRecords
  /\ timer \in BOOLEAN
  /\ loop \in Loops /\ batch \in Seq(Records) /\ done \in Nat
  /\ socket \in Ids \cup {None} /\ connecting \in Ids \cup {None, Rejected}
  /\ sockets \in [Ids -> States]
  /\ closing \in BOOLEAN /\ closed \in BOOLEAN
  /\ sent \subseteq Records /\ beaconed \subseteq Records /\ dropped \subseteq Records
  /\ overtaken \in BOOLEAN

(* The queue holds records written, oldest first, and so does the batch. *)
Line ==
  /\ queue \in Seq(Records) /\ Ascending(queue)
  /\ written \in 0..MaxRecords
  /\ Range(queue) \cup Range(batch) \cup sent \cup beaconed \cup dropped \subseteq 1..written

(* The loop's batch is still the head of the queue. *)
Ahead ==
  loop \in {"connecting", "connected", "writing"} /\ ~overtaken =>
    /\ Len(batch) <= Len(queue)
    /\ batch = SubSeq(queue, 1, Len(batch))

(* What the inner transport took of the batch is handed over. *)
Taken ==
  loop = "writing" =>
    /\ done < Len(batch)
    /\ \A i \in 1..done : batch[i] \in sent

NoneOvertaken == \A r \in sent, s \in Range(queue) : s < r => s \in sent \cup beaconed

(* A page exit does not lose the queue: no beacon answers false. *)
BeaconKeeps == Exits => "refuses" \notin Beacon

Account == BeaconKeeps /\ ~overtaken => Accounted /\ NoneOvertaken

Data ==
  /\ batch \in Seq(Records) /\ done \in Nat /\ loop \in Loops /\ overtaken \in BOOLEAN
  /\ Line /\ Ahead /\ Taken /\ Account

(* A page exit takes the queue: there is a beacon, and it does not throw. *)
BeaconTakes == Exits => Beacon # {} /\ "throws" \notin Beacon
-----------------------------------------------------------------------------
(* The loop leaves, or peeks another batch, of a queue it does not touch. *)
LEMMA LeaveKeeps ==
  ASSUME Data, NEW t, LeaveLoop(queue, t), UNCHANGED <<written, history>>
  PROVE  Data'
<1>1. queue' = queue /\ loop' = "idle" /\ batch' = <<>> /\ done' = 0
  BY DEF LeaveLoop
<1>2. UNCHANGED <<written, sent, beaconed, dropped, overtaken>>
  BY DEF history
<1>3. Line' /\ Account'
  BY <1>1, <1>2, NothingSeq DEF Data, Line, Account, Accounted, NoneOvertaken
<1> QED BY <1>1, <1>2, <1>3, NothingSeq DEF Data, Ahead, Taken, Loops

LEMMA PeekKeeps ==
  ASSUME Data, NEW at \in Loops, NEW t, queue # <<>>, Peek(at, t), UNCHANGED <<written, history>>
  PROVE  Data'
<1> DEFINE n == Least(BatchSize, Len(queue))
<1>1. queue' = queue /\ loop' = at /\ batch' = SubSeq(queue, 1, n) /\ done' = 0
  BY DEF Peek
<1>2. UNCHANGED <<written, sent, beaconed, dropped, overtaken>>
  BY DEF history
<1>3. queue \in Seq(Records)
  BY DEF Data, Line
<1>4. n \in 1..Len(queue)
  BY <1>3, EmptySeq, LenProperties, StreamAssumption DEF Least
<1> HIDE DEF n
<1>5. /\ SubSeq(queue, 1, n) \in Seq(Records) /\ Len(SubSeq(queue, 1, n)) = n
      /\ Range(SubSeq(queue, 1, n)) \subseteq Range(queue)
  BY <1>3, <1>4, CutSeq
<1>6. Line' /\ Account'
  BY <1>1, <1>2, <1>5 DEF Data, Line, Account, Accounted, NoneOvertaken
<1>7. Ahead' /\ Taken'
  BY <1>1, <1>4, <1>5 DEF Ahead, Taken
<1> QED BY <1>1, <1>2, <1>5, <1>6, <1>7 DEF Data

LEMMA TurnKeeps ==
  ASSUME Data, NEW t, queue # <<>>, Turn(t), UNCHANGED <<written, history>>
  PROVE  Data'
<1>1. \/ Peek("writing", t) \/ Peek("connected", t) \/ Peek("connecting", t)
      \/ LeaveLoop(queue, t)
  BY DEF Turn
<1> QED BY <1>1, PeekKeeps, LeaveKeeps DEF Loops

(* The rest of the batch is handed over, and the batch drained. *)
LEMMA DrainKeeps ==
  ASSUME Data, loop \in {"connected", "writing"}, Drain,
         NEW new \in SUBSET Range(batch), sent' = sent \cup new,
         Range(batch) \subseteq sent \cup new,
         UNCHANGED <<written, beaconed, dropped, overtaken>>
  PROVE  Data'
<1> DEFINE n == Len(batch)
           rest == Without(queue, n)
<1>1. queue' = rest /\ loop' \in {"idle", "yielding"}
  BY DEF Drain, LeaveLoop
<1>2. (batch' = batch /\ done' = done) \/ (batch' = <<>> /\ done' = 0)
  BY DEF Drain, LeaveLoop
<1>3. queue \in Seq(Records) /\ batch \in Seq(Records) /\ n \in Nat /\ Ascending(queue)
      /\ written \in Nat
  BY LenProperties DEF Data, Line
<1>4. rest \in Seq(Records) /\ Range(rest) \subseteq Range(queue) /\ Ascending(rest)
  BY <1>3, DrainSeq
<1>5. ASSUME BeaconKeeps, ~overtaken PROVE new \subseteq 1..written /\ Accounted' /\ NoneOvertaken'
  <2>1. n \in 0..Len(queue) /\ batch = SubSeq(queue, 1, n)
    BY <1>3, <1>5 DEF Data, Ahead
  <2>2. rest = SubSeq(queue, n + 1, Len(queue))
    BY <1>3, <2>1, DrainSeq
  <2>3. /\ Range(batch) \cup Range(rest) = Range(queue)
        /\ \A x \in Range(batch), y \in Range(rest) : x < y
    <3>1. /\ Range(SubSeq(queue, 1, n)) \cup Range(SubSeq(queue, n + 1, Len(queue))) = Range(queue)
          /\ \A x \in Range(SubSeq(queue, 1, n)), y \in Range(SubSeq(queue, n + 1, Len(queue))) : x < y
      BY <1>3, <2>1, CutSeq
    <3> QED BY <2>1, <2>2, <3>1
  <2> HIDE DEF rest, n
  <2>4. new \subseteq 1..written
    BY <2>3 DEF Data, Line
  <2>5. Accounted'
    BY <1>1, <1>5, <2>3 DEF Data, Account, Accounted
  <2>6. NoneOvertaken'
    <3> SUFFICES ASSUME NEW r \in sent \cup new, NEW x \in Range(rest), x < r
                 PROVE  x \in sent \cup new \cup beaconed
      BY <1>1 DEF NoneOvertaken
    <3>1. CASE r \in sent
      BY <1>4, <1>5, <3>1 DEF Data, Account, NoneOvertaken
    <3>2. CASE r \in new
      <4>1. r < x /\ r \in Int /\ x \in Int
        BY <1>3, <1>4, <2>3, <2>4, <3>2 DEF Data, Line
      <4> QED BY <4>1
    <3> QED BY <3>1, <3>2
  <2> QED BY <2>4, <2>5, <2>6
<1> HIDE DEF rest, n
<1>6. Account'
  BY <1>5 DEF Account
<1>7. Line'
  BY <1>1, <1>2, <1>4, NothingSeq DEF Data, Line
<1>8. Ahead' /\ Taken'
  BY <1>1 DEF Ahead, Taken
<1>9. batch' \in Seq(Records) /\ done' \in Nat /\ loop' \in Loops
  <2>1. done \in Nat
    BY DEF Data
  <2>2. done' \in Nat
    BY <1>2, <2>1
  <2>3. batch' \in Seq(Records)
    BY <1>2, <1>3, NothingSeq
  <2> QED BY <1>1, <2>2, <2>3 DEF Loops
<1>10. overtaken' \in BOOLEAN
  BY DEF Data
<1> QED BY <1>6, <1>7, <1>8, <1>9, <1>10 DEF Data

(* One more record of the batch, and not its last, is handed over. *)
LEMMA TakeKeeps ==
  ASSUME Data, loop = "writing", sent' = sent \cup {batch[done + 1]},
         done + 1 < Len(batch), done' = done + 1,
         UNCHANGED <<queue, loop, batch, written, beaconed, dropped, overtaken>>
  PROVE  Data'
<1>1. /\ queue \in Seq(Records) /\ batch \in Seq(Records) /\ done \in Nat
      /\ Len(batch) \in Nat /\ done + 1 \in 1..Len(batch)
      /\ \A i \in 1..done : batch[i] \in sent
      /\ written \in Nat
  BY LenProperties DEF Data, Line, Taken
<1>2. batch[done + 1] \in Range(batch) /\ batch[done + 1] \in 1..written
  BY <1>1, RangeEquality DEF Data, Line
<1>3. Line'
  BY <1>2 DEF Data, Line
<1>4. Ahead' /\ Taken'
  <2>1. \A i \in 1..(done + 1) : batch[i] \in sent \cup {batch[done + 1]}
    BY <1>1
  <2> QED BY <2>1 DEF Data, Ahead, Taken
<1>5. Account'
  <2> SUFFICES ASSUME BeaconKeeps, ~overtaken PROVE Accounted' /\ NoneOvertaken'
    BY DEF Account
  <2>1. /\ Len(batch) \in 0..Len(queue)
        /\ batch = SubSeq(queue, 1, Len(batch))
    BY <1>1 DEF Data, Ahead
  <2>2. \A i \in 1..Len(batch) : batch[i] = queue[i]
    BY <1>1, <2>1, CutSeq
  <2>3. Range(queue) = {queue[i] : i \in 1..Len(queue)}
    BY <1>1, RangeEquality
  <2>4. batch[done + 1] \in Range(queue)
    BY <1>1, <2>1, <2>2, <2>3
  <2>5. Accounted'
    BY <2>4 DEF Data, Account, Accounted
  <2>6. NoneOvertaken'
    <3> SUFFICES ASSUME NEW x \in Range(queue), x < batch[done + 1]
                 PROVE  x \in sent
      BY DEF Data, Account, NoneOvertaken
    <3>1. PICK j \in 1..Len(queue) : x = queue[j]
      BY <2>3
    <3>2. done + 1 \in 1..Len(queue) /\ queue[done + 1] = batch[done + 1]
      BY <1>1, <2>1, <2>2
    <3>3. \A i, k \in 1..Len(queue) : i < k => queue[i] < queue[k]
      BY DEF Data, Line, Ascending
    <3>4. queue[j] < queue[done + 1] /\ queue[j] \in Int /\ queue[done + 1] \in Int
      <4>1. queue[j] \in Records /\ queue[done + 1] \in Records
        BY <1>1, <3>2
      <4> QED BY <3>1, <3>2, <4>1 DEF Records
    <3>5. ~(done + 1 < j) /\ j # done + 1
      BY <3>2, <3>3, <3>4
    <3>6. j \in 1..done
      BY <1>1, <3>5
    <3> QED BY <1>1, <2>2, <3>1, <3>6
  <2> QED BY <2>5, <2>6
<1> QED BY <1>1, <1>3, <1>4, <1>5 DEF Data

(* write(): the new record is the youngest; trimming takes the oldest. *)
LEMMA WriteKeeps == ASSUME Data, Write PROVE Data'
<1> DEFINE r == written + 1
           q == Append(queue, r)
           e == Excess(q)
<1>1. /\ written' = r
      /\ queue' = Without(q, e)
      /\ dropped' = dropped \cup Range(SubSeq(q, 1, e))
      /\ overtaken' = (overtaken \/ (e > 0 /\ LoopRuns))
      /\ UNCHANGED <<loop, batch, done, sent, beaconed>>
  BY DEF Write
<1>2. /\ queue \in Seq(Records) /\ Ascending(queue) /\ written \in Nat /\ r \in Records
      /\ r \in 0..MaxRecords /\ Len(queue) \in Nat
      /\ \A x \in Range(queue) : x < r
  <2>1. written \in 0..MaxRecords /\ written < MaxRecords /\ MaxRecords \in Nat
    BY StreamAssumption DEF Data, Line, Write
  <2>2. queue \in Seq(Records) /\ Ascending(queue) /\ Range(queue) \subseteq 1..written
    BY DEF Data, Line
  <2> QED BY <2>1, <2>2, LenProperties DEF Records
<1> HIDE DEF r
<1>3. /\ q \in Seq(Records) /\ Len(q) = Len(queue) + 1
      /\ Range(q) = Range(queue) \cup {r}
      /\ \A n \in 0..Len(queue) : SubSeq(q, 1, n) = SubSeq(queue, 1, n)
      /\ Ascending(q)
  BY <1>2, AppendSeq
<1> HIDE DEF q
<1>4. e \in 0..Len(q)
  BY <1>2, <1>3, StreamAssumption DEF Excess
<1> HIDE DEF e
<1>5. /\ queue' \in Seq(Records) /\ Ascending(queue')
      /\ Range(SubSeq(q, 1, e)) \cup Range(queue') = Range(q)
      /\ queue' = SubSeq(q, e + 1, Len(q))
  <2>1. /\ Without(q, e) \in Seq(Records) /\ Ascending(Without(q, e))
        /\ Without(q, e) = SubSeq(q, e + 1, Len(q))
    <3>1. e \in Nat
      BY <1>3, <1>4
    <3> QED BY <1>3, <1>4, <3>1, DrainSeq
  <2>2. Range(SubSeq(q, 1, e)) \cup Range(SubSeq(q, e + 1, Len(q))) = Range(q)
    BY <1>3, <1>4, CutSeq
  <2> QED BY <1>1, <2>1, <2>2
<1>6. 1..written' = (1..written) \cup {r}
  BY <1>1, <1>2 DEF r
<1>7. Line'
  BY <1>1, <1>2, <1>3, <1>5, <1>6 DEF Data, Line
<1>8. Ahead'
  <2> SUFFICES ASSUME loop \in {"connecting", "connected", "writing"}, ~overtaken'
               PROVE  Len(batch) <= Len(queue') /\ batch = SubSeq(queue', 1, Len(batch))
    BY <1>1 DEF Ahead
  <2>1. ~overtaken /\ ~(e > 0)
    BY <1>1 DEF LoopRuns, Data
  <2>2. e = 0 /\ queue' = q
    BY <1>3, <1>4, <1>5, <2>1
  <2>3. Len(batch) \in 0..Len(queue) /\ batch = SubSeq(queue, 1, Len(batch))
    BY <2>1, LenProperties DEF Data, Ahead
  <2> QED BY <1>2, <1>3, <2>2, <2>3
<1>9. Taken'
  BY <1>1 DEF Data, Taken
<1>10. Account'
  <2> SUFFICES ASSUME BeaconKeeps, ~overtaken' PROVE Accounted' /\ NoneOvertaken'
    BY DEF Account
  <2>1. Accounted /\ NoneOvertaken
    BY <1>1 DEF Data, Account
  <2>2. Accounted'
    BY <1>1, <1>3, <1>5, <1>6, <2>1 DEF Accounted
  <2>3. NoneOvertaken'
    <3> SUFFICES ASSUME NEW x \in sent, NEW y \in Range(queue'), y < x
                 PROVE  y \in sent \cup beaconed
      BY <1>1 DEF NoneOvertaken
    <3>1. x \in 1..written
      BY DEF Data, Line
    <3>2. y \in Range(queue)
      BY <1>2, <1>3, <1>5, <3>1 DEF r
    <3> QED BY <2>1, <3>2 DEF NoneOvertaken
  <2> QED BY <2>2, <2>3
<1> QED BY <1>1, <1>7, <1>8, <1>9, <1>10 DEF Data

LEMMA PageHidesKeeps ==
  ASSUME Data, PageHides
  PROVE  Data'
<1>1. UNCHANGED <<written, loop, batch, done, sent, dropped>>
  BY DEF PageHides
<1>2. CASE UNCHANGED <<queue, beaconed, overtaken>>
  BY <1>1, <1>2 DEF Data, Line, Ahead, Taken, Account, Accounted, NoneOvertaken
<1>3. CASE ~UNCHANGED <<queue, beaconed, overtaken>>
  <2>1. /\ queue' = <<>>
        /\ beaconed' \in {beaconed, beaconed \cup Range(queue)}
        /\ BeaconKeeps => beaconed' = beaconed \cup Range(queue)
        /\ overtaken' = (overtaken \/ LoopRuns)
    BY <1>3 DEF PageHides, BeaconKeeps
  <2>2. Line'
    BY <1>1, <2>1, NothingSeq DEF Data, Line
  <2>3. Ahead' /\ Taken'
    BY <1>1, <2>1 DEF Data, Ahead, Taken, LoopRuns
  <2>4. Account'
    BY <1>1, <2>1, NothingSeq DEF Data, Account, Accounted, NoneOvertaken
  <2> QED BY <1>1, <2>1, <2>2, <2>3, <2>4 DEF Data
<1> QED BY <1>2, <1>3

(* The socket events move the loop, and none of the records. *)
LEMMA MovesOn ==
  ASSUME Data, UNCHANGED <<queue, batch, done, written, history>>,
         loop' = loop \/ (loop = "connecting" /\ loop' = "connected")
  PROVE  Data'
BY DEF Data, history, Line, Ahead, Taken, Account, Accounted, NoneOvertaken, Loops

LEMMA NextData ==
  ASSUME Data, [Next]_<<inner, vars>>
  PROVE  Data'
<1>1. CASE Write
  BY <1>1, WriteKeeps
<1>2. CASE FlushCall
  BY <1>2, TurnKeeps DEF FlushCall, CanFlush
<1>3. CASE TimerFires
  <2>1. CASE CanFlush
    BY <1>3, <2>1, TurnKeeps DEF TimerFires, CanFlush
  <2>2. CASE ~CanFlush
    BY <1>3, <2>2, MovesOn DEF TimerFires
  <2> QED BY <2>1, <2>2
<1>4. CASE PageHides
  BY <1>4, PageHidesKeeps
<1>5. CASE Yielded
  BY <1>5, TurnKeeps, LeaveKeeps DEF Yielded
<1>6. CASE Send
  BY <1>6, DrainKeeps DEF Send
<1>7. CASE SendFails \/ InnerRejects
  BY <1>7, LeaveKeeps DEF SendFails, InnerRejects
<1>8. CASE InnerTakes
  <2>1. /\ loop = "writing" /\ sent' = sent \cup {batch[done + 1]}
        /\ UNCHANGED <<written, beaconed, dropped, overtaken>>
    BY <1>8 DEF InnerTakes
  <2>2. CASE done + 1 < Len(batch)
    <3>1. done' = done + 1 /\ UNCHANGED <<queue, loop, batch>>
      BY <1>8, <2>2 DEF InnerTakes
    <3> QED BY <2>1, <2>2, <3>1, TakeKeeps
  <2>3. CASE ~(done + 1 < Len(batch))
    <3>1. Drain
      BY <1>8, <2>3 DEF InnerTakes
    <3>2. /\ batch \in Seq(Records) /\ done \in Nat /\ Len(batch) \in Nat
          /\ Len(batch) = done + 1 /\ \A i \in 1..done : batch[i] \in sent
      BY <2>1, <2>3, LenProperties DEF Data, Taken
    <3>3. Range(batch) = {batch[i] : i \in 1..Len(batch)}
      BY <3>2, RangeEquality
    <3>4. {batch[done + 1]} \in SUBSET Range(batch)
      BY <3>2, <3>3
    <3>5. Range(batch) \subseteq sent \cup {batch[done + 1]}
      BY <3>2, <3>3
    <3> QED BY <2>1, <3>1, <3>4, <3>5, DrainKeeps
  <2> QED BY <2>2, <2>3
<1>9. ASSUME AttemptFails, UNCHANGED <<written, history>> PROVE Data'
  BY <1>9, LeaveKeeps, MovesOn DEF AttemptFails
<1>10. CASE \E n \in Ids : SocketOpens(n) \/ AttemptGivesUp(n) \/ SocketCloses(n)
  <2>1. PICK n \in Ids : SocketOpens(n) \/ AttemptGivesUp(n) \/ SocketCloses(n)
    BY <1>10
  <2>2. CASE SocketOpens(n)
    BY <2>2, MovesOn DEF SocketOpens
  <2>3. CASE AttemptGivesUp(n)
    BY <1>9, <2>3 DEF AttemptGivesUp
  <2>4. CASE SocketCloses(n)
    BY <1>9, <2>4, MovesOn DEF SocketCloses
  <2> QED BY <2>1, <2>2, <2>3, <2>4
<1>11. CASE CloseCall
  <2>1. CASE CanFlush
    BY <1>11, <2>1, TurnKeeps DEF CloseCall, CanFlush
  <2>2. CASE ~CanFlush
    BY <1>11, <2>2, MovesOn DEF CloseCall
  <2> QED BY <2>1, <2>2
<1>12. CASE CloseEnds
  BY <1>12, MovesOn DEF CloseEnds
<1>13. CASE UNCHANGED <<inner, vars>>
  BY <1>13, MovesOn DEF vars, history
<1> QED BY <1>1, <1>2, <1>3, <1>4, <1>5, <1>6, <1>7, <1>8, <1>10, <1>11, <1>12, <1>13 DEF Next
-----------------------------------------------------------------------------
(* The timer, the sockets and the flags. *)
SocketsOK ==
  /\ socket \in Ids \cup {None} /\ connecting \in Ids \cup {None, Rejected}
  /\ sockets \in [Ids -> States]

Control ==
  /\ inner \in BOOLEAN /\ timer \in BOOLEAN
  /\ closing \in BOOLEAN /\ closed \in BOOLEAN
  /\ SocketsOK

LEMMA LeaveArmed ==
  ASSUME NEW q, NEW t \in BOOLEAN, closed \in BOOLEAN, LeaveLoop(q, t)
  PROVE  timer' \in BOOLEAN /\ (queue' # <<>> /\ ~closed => timer')
BY DEF LeaveLoop

LEMMA TurnControl ==
  ASSUME NEW t \in BOOLEAN, Control, Turn(t)
  PROVE  /\ timer' \in BOOLEAN /\ SocketsOK'
         /\ queue' # <<>> /\ ~closed => timer' \/ LoopRuns'
<1>1. SocketsOK'
  <2>1. CASE UNCHANGED socketVars
    BY <2>1 DEF Control, SocketsOK, socketVars
  <2>2. CASE OpenSocket
    BY <2>2 DEF Control, SocketsOK, OpenSocket, States
  <2>3. CASE FactoryThrows
    BY <2>3 DEF Control, SocketsOK, FactoryThrows
  <2> QED BY <2>1, <2>2, <2>3 DEF Turn
<1>2. \/ Peek("writing", t) \/ Peek("connected", t) \/ Peek("connecting", t)
      \/ LeaveLoop(queue, t)
  BY DEF Turn
<1>3. CASE LeaveLoop(queue, t)
  BY <1>1, <1>3, LeaveArmed DEF Control
<1>4. CASE ~LeaveLoop(queue, t)
  BY <1>1, <1>2, <1>4 DEF Peek, LoopRuns
<1> QED BY <1>3, <1>4

LEMMA DrainControl ==
  ASSUME Control, Drain
  PROVE  /\ timer' \in BOOLEAN
         /\ queue' # <<>> /\ ~closed => timer' \/ LoopRuns'
<1> DEFINE rest == Without(queue, Len(batch))
<1>1. CASE rest = <<>>
  BY <1>1, LeaveArmed DEF Drain, Control
<1>2. CASE rest # <<>>
  BY <1>2 DEF Drain, Control, LoopRuns
<1> QED BY <1>1, <1>2

(* Every step keeps the types, and but for a page exit the wakeup. *)
Wakes == BeaconTakes /\ WakeupArmed => WakeupArmed'

LEMMA NextControl ==
  ASSUME Control, [Next]_<<inner, vars>>
  PROVE  Control' /\ Wakes
<1>0. ASSUME inner' = inner, timer' \in BOOLEAN, closing' \in BOOLEAN, closed' = closed, SocketsOK',
             WakeupArmed => (queue' # <<>> /\ ~closed => timer' \/ LoopRuns')
      PROVE  Control' /\ Wakes
  BY <1>0 DEF Control, Wakes, WakeupArmed
<1>u. UNCHANGED inner
  BY DEF Next
<1>1. CASE Write
  <2>1. /\ timer' = (timer \/ (queue' # <<>> /\ ~LoopRuns))
        /\ UNCHANGED <<loop, socket, connecting, sockets, closing, closed>>
    BY <1>1 DEF Write, socketVars
  <2>2. SocketsOK' /\ timer' \in BOOLEAN
    BY <2>1 DEF Control, SocketsOK
  <2> QED BY <1>0, <1>u, <2>1, <2>2 DEF Control, LoopRuns
<1>2. CASE FlushCall
  BY <1>0, <1>u, <1>2, TurnControl DEF FlushCall, Control
<1>3. CASE TimerFires
  <2>1. CASE CanFlush
    BY <1>0, <1>u, <1>3, <2>1, TurnControl DEF TimerFires, Control
  <2>2. CASE ~CanFlush
    <3>1. timer' = FALSE /\ UNCHANGED <<queue, loop, socket, connecting, sockets, closing, closed>>
      BY <1>3, <2>2 DEF TimerFires, socketVars
    <3>2. queue # <<>> /\ ~closed => LoopRuns
      BY <2>2 DEF CanFlush
    <3>3. SocketsOK'
      BY <3>1 DEF Control, SocketsOK
    <3> QED BY <1>0, <1>u, <3>1, <3>2, <3>3 DEF Control, LoopRuns
  <2> QED BY <2>1, <2>2
<1>4. CASE PageHides
  <2>1. Exits /\ timer' = FALSE /\ UNCHANGED <<loop, socket, connecting, sockets, closing, closed>>
    BY <1>4 DEF PageHides, socketVars
  <2>2. SocketsOK'
    BY <2>1 DEF Control, SocketsOK
  <2>3. Control'
    BY <1>u, <2>1, <2>2 DEF Control
  <2>4. BeaconTakes => queue' = <<>>
    BY <1>4, <2>1 DEF BeaconTakes, PageHides
  <2> QED BY <2>3, <2>4 DEF Wakes, WakeupArmed
<1>5. CASE Yielded
  <2>1. UNCHANGED <<closing, closed>>
    BY <1>5 DEF Yielded
  <2>2. CASE queue = <<>>
    <3>1. LeaveLoop(queue, timer) /\ UNCHANGED <<socket, connecting, sockets>>
      BY <1>5, <2>2 DEF Yielded, socketVars
    <3>2. SocketsOK'
      BY <3>1 DEF Control, SocketsOK
    <3> QED BY <1>0, <1>u, <2>1, <3>1, <3>2, LeaveArmed DEF Control
  <2>3. CASE queue # <<>>
    BY <1>0, <1>u, <1>5, <2>1, <2>3, TurnControl DEF Yielded, Control
  <2> QED BY <2>2, <2>3
<1>6. CASE Send \/ InnerTakes \/ SendFails \/ InnerRejects
  <2>1. UNCHANGED <<socket, connecting, sockets, closing, closed>>
    BY <1>6 DEF Send, InnerTakes, SendFails, InnerRejects, socketVars
  <2>2. SocketsOK'
    BY <2>1 DEF Control, SocketsOK
  <2>3. \/ Drain \/ LeaveLoop(queue, timer)
        \/ UNCHANGED <<queue, loop, timer>>
    BY <1>6 DEF Send, InnerTakes, SendFails, InnerRejects
  <2>4. CASE Drain
    BY <1>0, <1>u, <2>1, <2>2, <2>4, DrainControl DEF Control
  <2>5. CASE LeaveLoop(queue, timer)
    BY <1>0, <1>u, <2>1, <2>2, <2>5, LeaveArmed DEF Control
  <2>6. CASE UNCHANGED <<queue, loop, timer>>
    BY <1>0, <1>u, <2>1, <2>2, <2>6 DEF Control, WakeupArmed, LoopRuns
  <2> QED BY <2>3, <2>4, <2>5, <2>6
<1>7. CASE \E n \in Ids : SocketOpens(n) \/ AttemptGivesUp(n) \/ SocketCloses(n)
  <2>1. PICK n \in Ids : SocketOpens(n) \/ AttemptGivesUp(n) \/ SocketCloses(n)
    BY <1>7
  <2>2. UNCHANGED <<closing, closed>>
    BY <2>1 DEF SocketOpens, AttemptGivesUp, SocketCloses
  <2>3. SocketsOK'
    BY <2>1 DEF SocketOpens, AttemptGivesUp, SocketCloses, AttemptFails, Control, SocketsOK, States
  <2>4. \/ LeaveLoop(queue, timer)
        \/ UNCHANGED <<queue, timer>> /\ (loop' = loop \/ loop' = "connected")
    BY <2>1 DEF SocketOpens, AttemptGivesUp, SocketCloses, AttemptFails
  <2>5. CASE LeaveLoop(queue, timer)
    BY <1>0, <1>u, <2>2, <2>3, <2>5, LeaveArmed DEF Control
  <2>6. CASE UNCHANGED <<queue, timer>> /\ (loop' = loop \/ loop' = "connected")
    BY <1>0, <1>u, <2>2, <2>3, <2>6 DEF Control, WakeupArmed, LoopRuns
  <2> QED BY <2>4, <2>5, <2>6
<1>8. ASSUME CloseNow PROVE SocketsOK' /\ closed' = TRUE /\ closing' = FALSE
  <2>1. socket' = None /\ connecting' = connecting /\ closed' = TRUE /\ closing' = FALSE
    BY <1>8 DEF CloseNow
  <2>2. sockets' \in [Ids -> States]
    BY <1>8 DEF CloseNow, Control, SocketsOK, States
  <2> QED BY <2>1, <2>2 DEF Control, SocketsOK
<1>9. CASE CloseCall
  <2>1. CASE CanFlush
    <3>1. closing' = TRUE /\ Turn(FALSE) /\ closed' = closed
      BY <1>9, <2>1 DEF CloseCall
    <3> QED BY <1>0, <1>u, <3>1, TurnControl DEF Control
  <2>2. CASE ~CanFlush
    <3>1. CloseNow /\ timer' = FALSE
      BY <1>9, <2>2 DEF CloseCall
    <3> QED BY <1>8, <1>u, <3>1 DEF Control, Wakes, WakeupArmed
  <2> QED BY <2>1, <2>2
<1>10. CASE CloseEnds
  BY <1>8, <1>10, <1>u DEF CloseEnds, Control, Wakes, WakeupArmed
<1>11. CASE UNCHANGED <<inner, vars>>
  BY <1>11 DEF vars, Control, SocketsOK, Wakes, WakeupArmed, LoopRuns
<1> QED BY <1>1, <1>2, <1>3, <1>4, <1>5, <1>6, <1>7, <1>9, <1>10, <1>11 DEF Next
-----------------------------------------------------------------------------
LEMMA InitData == ASSUME Init PROVE Data
<1>1. /\ queue = <<>> /\ batch = <<>> /\ written = 0 /\ done = 0 /\ loop = "idle"
      /\ sent = {} /\ beaconed = {} /\ dropped = {} /\ overtaken = FALSE
  BY DEF Init
<1>2. 1..written = {} /\ written \in 0..MaxRecords
  BY <1>1, StreamAssumption
<1>3. Line /\ Account
  BY <1>1, <1>2, NothingSeq DEF Line, Account, Accounted, NoneOvertaken
<1> QED BY <1>1, <1>3, NothingSeq DEF Data, Ahead, Taken, Loops

LEMMA InitControl == ASSUME Init PROVE Control /\ WakeupArmed
BY StreamAssumption DEF Init, Control, SocketsOK, States, WakeupArmed

(* The fields keep their types; in particular the queue and the batch hold  *)
(* records written, and the loop never runs past the end of its batch.      *)
THEOREM TypeCorrect == Spec => []TypeOK
<1>1. Init => Data /\ Control
  BY InitData, InitControl
<1>2. Data /\ Control /\ [Next]_<<inner, vars>> => Data' /\ Control'
  BY NextData, NextControl
<1>3. Data /\ Control => TypeOK
  BY StreamAssumption DEF Data, Line, Control, SocketsOK, TypeOK, Records
<1> QED BY <1>1, <1>2, <1>3, PTL DEF Spec

(* Unless the head of the queue moves under a running loop, no failure,     *)
(* reconnect or retry loses a record or lets one overtake an older one,     *)
(* provided that no beacon answers false (287-300, 338-339).                *)
THEOREM AccountedInOrderHolds == ASSUME BeaconKeeps PROVE Spec => []AccountedInOrder
<1>1. Init => Data
  BY InitData
<1>2. Data /\ [Next]_<<inner, vars>> => Data'
  BY NextData
<1>3. Data => AccountedInOrder
  BY DEF Data, Account, NoneOvertaken, AccountedInOrder
<1> QED BY <1>1, <1>2, <1>3, PTL DEF Spec

(* No wakeup is lost, provided that a page exit finds a beacon that takes   *)
(* the queue; without one flushOnExit() disarms the timer and no more       *)
(* (320-336).                                                               *)
THEOREM WakeupArmedHolds == ASSUME BeaconTakes PROVE Spec => []WakeupArmed
<1>1. Init => Control /\ WakeupArmed
  BY InitControl
<1>2. Control /\ WakeupArmed /\ [Next]_<<inner, vars>> => Control' /\ WakeupArmed'
  BY NextControl DEF Wakes
<1> QED BY <1>1, <1>2, PTL DEF Spec
=============================================================================
