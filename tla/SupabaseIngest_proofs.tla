------------------------- MODULE SupabaseIngest_proofs -------------------------
(***************************************************************************)
(* Theorems about SupabaseIngest, for any number of records and of         *)
(* flushOnExit() callers, any sizes and any limits: the types, OnePlace,   *)
(* QueueKept and the refinement of DeliveryLedger.                         *)
(*                                                                         *)
(* The argument: a turn moves records between the queue, the loops'        *)
(* batches and the two settled sets, always as whole prefixes (Post),      *)
(* whole batches (Restore) or single records (Write). Apart says that the  *)
(* queue and the batches share nothing, Held which records they hold; each *)
(* of the three moves keeps the one and determines the other.              *)
(*                                                                         *)
(* QueueKept adds the order and the sizes. Until two loops overlap there   *)
(* is one batch and it is older than the queue, so putting it back keeps   *)
(* the order; afterwards only the sizes count: write() leaves the queue    *)
(* within its limit, a move out of the queue leaves what is pending as it  *)
(* is, and each of finitely many loops holds one batch at most.            *)
(***************************************************************************)
EXTENDS SupabaseIngest, FiniteSetTheorems, SequenceTheorems, TLAPS

(* The pieces of a sequence cut after its first n elements. *)
LEMMA SplitSeq ==
  ASSUME NEW S, NEW q \in Seq(S), NEW n \in 1..Len(q)
  PROVE  /\ SubSeq(q, 1, n) \in Seq(S)
         /\ SubSeq(q, n + 1, Len(q)) \in Seq(S)
         /\ Range(SubSeq(q, 1, n)) \cup Range(SubSeq(q, n + 1, Len(q))) = Range(q)
         /\ IsInjective(q) =>
              /\ IsInjective(SubSeq(q, 1, n))
              /\ IsInjective(SubSeq(q, n + 1, Len(q)))
              /\ Range(SubSeq(q, 1, n)) \cap Range(SubSeq(q, n + 1, Len(q))) = {}
<1> DEFINE a == SubSeq(q, 1, n)
           b == SubSeq(q, n + 1, Len(q))
<1>1. a \in Seq(S) /\ Len(a) = n /\ \A i \in 1..n : a[i] = q[i]
  OBVIOUS
<1>2. b \in Seq(S) /\ Len(b) = Len(q) - n /\ \A i \in 1..(Len(q) - n) : b[i] = q[n + i]
  OBVIOUS
<1>3. /\ Range(a) = {a[i] : i \in 1..n}
      /\ Range(b) = {b[i] : i \in 1..(Len(q) - n)}
      /\ Range(q) = {q[i] : i \in 1..Len(q)}
  BY <1>1, <1>2, RangeEquality
<1>4. Range(a) \cup Range(b) = Range(q)
  <2>1. Range(q) \subseteq Range(a) \cup Range(b)
    <3> SUFFICES ASSUME NEW i \in 1..Len(q) PROVE q[i] \in Range(a) \cup Range(b)
      BY <1>3
    <3>1. CASE i <= n
      BY <3>1, <1>1, <1>3
    <3>2. CASE i > n
      <4>1. i - n \in 1..(Len(q) - n) /\ b[i - n] = q[i]
        BY <3>2, <1>2
      <4> QED BY <4>1, <1>3
    <3> QED BY <3>1, <3>2
  <2>2. Range(a) \cup Range(b) \subseteq Range(q)
    BY <1>1, <1>2, <1>3
  <2> QED BY <2>1, <2>2
<1>5. ASSUME IsInjective(q)
      PROVE  IsInjective(a) /\ IsInjective(b) /\ Range(a) \cap Range(b) = {}
  <2>1. \A i, j \in 1..Len(q) : q[i] = q[j] => i = j
    BY <1>5 DEF IsInjective
  <2>2. IsInjective(a)
    BY <1>1, <2>1 DEF IsInjective
  <2>3. IsInjective(b)
    <3>0. DOMAIN b = 1..(Len(q) - n)
      BY <1>2
    <3> HIDE DEF b
    <3> SUFFICES ASSUME NEW i \in 1..(Len(q) - n), NEW j \in 1..(Len(q) - n), b[i] = b[j]
                 PROVE  i = j
      BY <3>0 DEF IsInjective
    <3>1. n + i \in 1..Len(q) /\ n + j \in 1..Len(q) /\ q[n + i] = q[n + j]
      BY <1>2
    <3>2. n + i = n + j
      BY <3>1, <2>1
    <3> QED BY <3>2
  <2>4. \A i \in 1..n, j \in 1..(Len(q) - n) : a[i] # b[j]
    BY <1>1, <1>2, <2>1
  <2> HIDE DEF a, b
  <2> QED BY <2>2, <2>3, <2>4, <1>3
<1> QED BY <1>1, <1>2, <1>4, <1>5

(* Two sequences of distinct elements that share none, joined. *)
LEMMA JoinSeq ==
  ASSUME NEW S, NEW s \in Seq(S), NEW t \in Seq(S)
  PROVE  /\ s \o t \in Seq(S)
         /\ Range(s \o t) = Range(s) \cup Range(t)
         /\ IsInjective(s) /\ IsInjective(t) /\ Range(s) \cap Range(t) = {}
              => IsInjective(s \o t)
<1>1. s \o t \in Seq(S) /\ Range(s \o t) = Range(s) \cup Range(t)
  BY RangeConcatenation
<1>2. ASSUME IsInjective(s), IsInjective(t), Range(s) \cap Range(t) = {}
      PROVE  IsInjective(s \o t)
  <2>1. /\ \A i \in 1..Len(s) : s[i] \in Range(s)
        /\ \A i \in 1..Len(t) : t[i] \in Range(t)
    BY RangeEquality
  <2>2. /\ \A i, j \in 1..Len(s) : s[i] = s[j] => i = j
        /\ \A i, j \in 1..Len(t) : t[i] = t[j] => i = j
    BY <1>2 DEF IsInjective
  <2>3. \A i \in 1..Len(s), j \in 1..Len(t) : s[i] # t[j]
    BY <1>2, <2>1
  <2> DEFINE u == s \o t
  <2>4. /\ Len(s) \in Nat /\ Len(t) \in Nat
        /\ DOMAIN u = 1..(Len(s) + Len(t))
        /\ \A i \in 1..(Len(s) + Len(t)) : u[i] = IF i <= Len(s) THEN s[i] ELSE t[i - Len(s)]
    BY ConcatProperties
  <2> HIDE DEF u
  <2> SUFFICES ASSUME NEW i \in 1..(Len(s) + Len(t)), NEW j \in 1..(Len(s) + Len(t)), u[i] = u[j]
               PROVE  i = j
    BY <2>4 DEF IsInjective, u
  <2>5. CASE i <= Len(s) /\ j <= Len(s)
    BY <2>2, <2>4, <2>5
  <2>6. CASE i <= Len(s) /\ j > Len(s)
    <3>1. i \in 1..Len(s) /\ j - Len(s) \in 1..Len(t) /\ s[i] = t[j - Len(s)]
      BY <2>4, <2>6
    <3> QED BY <3>1, <2>3
  <2>7. CASE i > Len(s) /\ j <= Len(s)
    <3>1. j \in 1..Len(s) /\ i - Len(s) \in 1..Len(t) /\ s[j] = t[i - Len(s)]
      BY <2>4, <2>7
    <3> QED BY <3>1, <2>3
  <2>8. CASE i > Len(s) /\ j > Len(s)
    <3>1. i - Len(s) \in 1..Len(t) /\ j - Len(s) \in 1..Len(t) /\ t[i - Len(s)] = t[j - Len(s)]
      BY <2>4, <2>8
    <3>2. i - Len(s) = j - Len(s)
      BY <3>1, <2>2
    <3> QED BY <3>2
  <2> QED BY <2>5, <2>6, <2>7, <2>8
<1> QED BY <1>1, <1>2

(* A new element appended, the first one taken off. *)
LEMMA AppendSeq ==
  ASSUME NEW S, NEW q \in Seq(S), NEW r \in S
  PROVE  /\ Append(q, r) \in Seq(S)
         /\ Range(Append(q, r)) = Range(q) \cup {r}
         /\ IsInjective(q) /\ r \notin Range(q) => IsInjective(Append(q, r))
<1>1. /\ <<r>> \in Seq(S) /\ Append(q, r) = q \o <<r>>
      /\ Range(<<r>>) = {r} /\ IsInjective(<<r>>)
  BY AppendIsConcat DEF Range, IsInjective
<1>2. q \o <<r>> \in Seq(S) /\ Range(q \o <<r>>) = Range(q) \cup {r}
  <2> DEFINE t == <<r>>
  <2>1. t \in Seq(S) /\ Range(t) = {r}
    BY <1>1
  <2> HIDE DEF t
  <2>2. q \o t \in Seq(S) /\ Range(q \o t) = Range(q) \cup Range(t)
    BY <2>1, JoinSeq
  <2>3. q \o t \in Seq(S) /\ Range(q \o t) = Range(q) \cup {r}
    BY <2>1, <2>2
  <2> QED BY <2>3 DEF t
<1>3. ASSUME IsInjective(q), r \notin Range(q) PROVE IsInjective(q \o <<r>>)
  <2>1. Range(q) \cap Range(<<r>>) = {}
    BY <1>1, <1>3
  <2> QED BY <1>1, <1>3, <2>1, JoinSeq
<1> QED BY <1>1, <1>2, <1>3

LEMMA TailSeq ==
  ASSUME NEW S, NEW q \in Seq(S), q # <<>>
  PROVE  /\ Head(q) \in S /\ Tail(q) \in Seq(S)
         /\ Range(q) = Range(Tail(q)) \cup {Head(q)}
         /\ IsInjective(q) => IsInjective(Tail(q)) /\ Head(q) \notin Range(Tail(q))
<1>1. Len(q) \in Nat \ {0} /\ 1 \in 1..Len(q)
  BY EmptySeq
<1>2. Tail(q) = SubSeq(q, 2, Len(q)) /\ Head(q) = q[1]
  BY TailIsSubSeq
<1>3. Range(SubSeq(q, 1, 1)) = {q[1]}
  <2> DEFINE c == SubSeq(q, 1, 1)
  <2>1. c \in Seq(S) /\ Len(c) = 1 /\ c[1] = q[1]
    BY <1>1
  <2>2. Range(c) = {c[i] : i \in 1..Len(c)}
    BY <2>1, RangeEquality
  <2> HIDE DEF c
  <2>3. Range(c) = {q[1]}
    BY <2>1, <2>2
  <2> QED BY <2>3 DEF c
<1>4. /\ SubSeq(q, 2, Len(q)) \in Seq(S)
      /\ Range(SubSeq(q, 1, 1)) \cup Range(SubSeq(q, 2, Len(q))) = Range(q)
      /\ IsInjective(q) =>
           /\ IsInjective(SubSeq(q, 2, Len(q)))
           /\ Range(SubSeq(q, 1, 1)) \cap Range(SubSeq(q, 2, Len(q))) = {}
  <2>1. 1 + 1 = 2
    OBVIOUS
  <2> QED BY <1>1, <2>1, SplitSeq
<1>5. Head(q) \in S
  BY HeadTailProperties
<1> QED BY <1>2, <1>3, <1>4, <1>5
-----------------------------------------------------------------------------
Batches == [Loops -> Seq(Records)]

(* The records held in a queue and in the loops' batches. *)
Held(q, b) == Range(q) \cup UNION {Range(b[l]) : l \in Loops}

(* No record is held twice. *)
Apart(q, b) ==
  /\ IsInjective(q)
  /\ \A l \in Loops : IsInjective(b[l])
  /\ \A l \in Loops : Range(b[l]) \cap Range(q) = {}
  /\ \A l, k \in Loops : l # k => Range(b[l]) \cap Range(b[k]) = {}

Emptied(b, l) == [b EXCEPT ![l] = <<>>]

LEMMA NothingSeq ==
  <<>> \in Seq(Records) /\ Range(<<>>) = {} /\ IsInjective(<<>>)
BY DEF Range, IsInjective

(* c is b with loop l's batch replaced by s: what the others hold does not *)
(* change.                                                                 *)
Replaced(q, b, l, s, c) ==
  /\ c \in Batches
  /\ \A k \in Loops : c[k] = IF k = l THEN s ELSE b[k]
  /\ \A x : x \in Held(q, c) <=> \/ x \in Range(q) \/ x \in Range(s)
                                 \/ \E k \in Loops \ {l} : x \in Range(b[k])

LEMMA HeldExcept ==
  ASSUME NEW q, NEW b \in Batches, NEW l \in Loops, NEW s \in Seq(Records),
         NEW c, c = [b EXCEPT ![l] = s]
  PROVE  Replaced(q, b, l, s, c)
<1>1. c \in Batches
  BY DEF Batches
<1>2. \A k \in Loops : c[k] = IF k = l THEN s ELSE b[k]
  BY DEF Batches
<1>3. ASSUME NEW x
      PROVE  x \in Held(q, c) <=> \/ x \in Range(q) \/ x \in Range(s)
                                  \/ \E k \in Loops \ {l} : x \in Range(b[k])
  <2>1. x \in Held(q, c) <=> x \in Range(q) \/ \E k \in Loops : x \in Range(c[k])
    BY DEF Held
  <2>2. c[l] = s /\ \A k \in Loops \ {l} : c[k] = b[k]
    BY <1>2
  <2> QED BY <2>1, <2>2
<1> QED BY <1>1, <1>2, <1>3 DEF Replaced

(* A loop lets go of its batch. *)
LEMMA LetGo ==
  ASSUME NEW q \in Seq(Records), NEW b \in Batches, NEW l \in Loops, Apart(q, b)
  PROVE  /\ Emptied(b, l) \in Batches
         /\ Emptied(b, l)[l] = <<>>
         /\ Apart(q, Emptied(b, l))
         /\ Held(q, b) = Held(q, Emptied(b, l)) \cup Range(b[l])
         /\ Held(q, Emptied(b, l)) \cap Range(b[l]) = {}
<1> DEFINE c == [b EXCEPT ![l] = <<>>]
<1>0. c = [b EXCEPT ![l] = <<>>]
  OBVIOUS
<1> HIDE DEF c
<1>1. Replaced(q, b, l, <<>>, c)
  BY <1>0, HeldExcept, NothingSeq
<1>2. Apart(q, c)
  BY <1>1, NothingSeq DEF Replaced, Apart
<1>3. Held(q, b) = Held(q, c) \cup Range(b[l])
  BY <1>1, NothingSeq DEF Replaced, Held
<1>4. Held(q, c) \cap Range(b[l]) = {}
  BY <1>1, NothingSeq DEF Replaced, Apart
<1> QED BY <1>1, <1>2, <1>3, <1>4 DEF c, Emptied, Replaced

(* Post: an idle loop takes a prefix of the queue. *)
LEMMA TakePrefix ==
  ASSUME NEW q \in Seq(Records), NEW b \in Batches, NEW l \in Loops,
         Apart(q, b), b[l] = <<>>, NEW n \in 1..Len(q)
  PROVE  /\ SubSeq(q, n + 1, Len(q)) \in Seq(Records)
         /\ [b EXCEPT ![l] = SubSeq(q, 1, n)] \in Batches
         /\ Apart(SubSeq(q, n + 1, Len(q)), [b EXCEPT ![l] = SubSeq(q, 1, n)])
         /\ Held(SubSeq(q, n + 1, Len(q)), [b EXCEPT ![l] = SubSeq(q, 1, n)]) = Held(q, b)
<1> DEFINE s == SubSeq(q, 1, n)
           t == SubSeq(q, n + 1, Len(q))
           c == [b EXCEPT ![l] = s]
<1>1. /\ s \in Seq(Records) /\ t \in Seq(Records)
      /\ Range(s) \cup Range(t) = Range(q)
      /\ IsInjective(s) /\ IsInjective(t) /\ Range(s) \cap Range(t) = {}
  BY SplitSeq DEF Apart
<1> HIDE DEF s, t
<1>0. c = [b EXCEPT ![l] = s]
  OBVIOUS
<1> HIDE DEF c
<1>2. Replaced(t, b, l, s, c)
  BY <1>0, <1>1, HeldExcept
<1>3. Apart(t, c)
  BY <1>1, <1>2 DEF Replaced, Apart
<1>4. Held(t, c) = Held(q, b)
  BY <1>1, <1>2, NothingSeq DEF Replaced, Held
<1> QED BY <1>1, <1>2, <1>3, <1>4 DEF s, t, c, Replaced

(* Restore: a loop puts its batch back in front of the queue. *)
LEMMA PutBack ==
  ASSUME NEW q \in Seq(Records), NEW b \in Batches, NEW l \in Loops, Apart(q, b)
  PROVE  /\ b[l] \o q \in Seq(Records)
         /\ Apart(b[l] \o q, Emptied(b, l))
         /\ Held(b[l] \o q, Emptied(b, l)) = Held(q, b)
<1> DEFINE c == [b EXCEPT ![l] = <<>>]
           j == b[l] \o q
<1>1. b[l] \in Seq(Records)
  BY DEF Batches
<1>2. j \in Seq(Records) /\ Range(j) = Range(b[l]) \cup Range(q) /\ IsInjective(j)
  BY <1>1, JoinSeq DEF Apart
<1>0. c = [b EXCEPT ![l] = <<>>]
  OBVIOUS
<1> HIDE DEF j, c
<1>3. Replaced(j, b, l, <<>>, c)
  BY <1>0, HeldExcept, NothingSeq
<1>4. Apart(j, c)
  BY <1>2, <1>3, NothingSeq DEF Replaced, Apart
<1>5. Held(j, c) = Held(q, b)
  BY <1>2, <1>3, NothingSeq DEF Replaced, Held
<1> QED BY <1>2, <1>4, <1>5 DEF j, c, Emptied
-----------------------------------------------------------------------------
BatchWhilePosting == \A l \in Loops : pc[l] # "posting" => batch[l] = <<>>

Pending == Held(queue, batch)

Placed ==
  /\ Apart(queue, batch)
  /\ Pending \cup Settled = 1..written
  /\ Pending \cap Settled = {}
  /\ delivered \cap dropped = {}

Inv == TypeOK /\ BatchWhilePosting /\ Placed

(* What a step does to the three ledgers. *)
Stays == Pending' = Pending /\ UNCHANGED <<delivered, dropped, written>>

Admits ==
  \E evicted \in SUBSET Pending :
    /\ written' = written + 1 /\ written' \in Records
    /\ Pending' = (Pending \ evicted) \cup {written'}
    /\ dropped' = dropped \cup evicted
    /\ delivered' = delivered

Refuses ==
  /\ written' = written + 1 /\ written' \in Records
  /\ Pending' = Pending
  /\ dropped' = dropped \cup {written'}
  /\ delivered' = delivered

Delivers ==
  \E sent \in SUBSET Pending :
    /\ Pending' = Pending \ sent
    /\ delivered' = delivered \cup sent
    /\ UNCHANGED <<dropped, written>>

Moves == Stays \/ Admits \/ Refuses \/ Delivers

(* Any of these moves, the pieces staying apart, keeps every record in one place. *)
LEMMA MovesKeepPlaces ==
  ASSUME Inv, Moves, Apart(queue', batch')
  PROVE  Placed'
<1>1. written \in Nat /\ Pending \cup Settled = 1..written
      /\ Pending \cap Settled = {} /\ delivered \cap dropped = {}
  BY DEF Inv, Placed, TypeOK, Records
<1>2. CASE Stays
  BY <1>1, <1>2 DEF Stays, Placed, Settled
<1>3. CASE Admits
  <2>1. PICK evicted \in SUBSET Pending :
          /\ written' = written + 1
          /\ Pending' = (Pending \ evicted) \cup {written'}
          /\ dropped' = dropped \cup evicted
          /\ delivered' = delivered
    BY <1>3 DEF Admits
  <2>2. 1..written' = (1..written) \cup {written'} /\ written' \notin 1..written
    BY <1>1, <2>1
  <2> QED BY <1>1, <2>1, <2>2 DEF Placed, Settled
<1>4. CASE Refuses
  <2>1. 1..written' = (1..written) \cup {written'} /\ written' \notin 1..written
    BY <1>1, <1>4 DEF Refuses
  <2> QED BY <1>1, <1>4, <2>1 DEF Refuses, Placed, Settled
<1>5. CASE Delivers
  BY <1>1, <1>5 DEF Delivers, Placed, Settled
<1> QED BY <1>2, <1>3, <1>4, <1>5 DEF Moves

(* A turn of loop l over q, its own batch having been let go of: what was   *)
(* held is held, apart as before.                                           *)
LEMMA TurnMoves ==
  ASSUME NEW q \in Seq(Records), NEW l \in Loops, NEW at,
         TypeOK, BatchWhilePosting, Apart(q, Emptied(batch, l)),
         Post(l, q) \/ (Halt(l, q, at) /\ at # "posting")
  PROVE  /\ queue' \in Seq(Records) /\ batch' \in Batches
         /\ BatchWhilePosting'
         /\ Apart(queue', batch')
         /\ Held(queue', batch') = Held(q, Emptied(batch, l))
<1> DEFINE c == [batch EXCEPT ![l] = <<>>]
<1>0. batch \in Batches /\ pc \in [Loops -> {"idle", "posting", "drained", "threw", "waiting", "resumed"}]
  BY DEF TypeOK, Batches
<1>1. c \in Batches /\ c[l] = <<>> /\ Apart(q, c)
  BY <1>0, NothingSeq DEF Emptied, Batches
<1>2. CASE Post(l, q)
  <2>1. PICK n \in Fitting(q, Budget(l)) :
          /\ batch' = [batch EXCEPT ![l] = SubSeq(q, 1, n)]
          /\ queue' = SubSeq(q, n + 1, Len(q))
          /\ pc' = [pc EXCEPT ![l] = "posting"]
    BY <1>2 DEF Post
  <2>2. n \in 1..Len(q)
    BY DEF Fitting
  <2>3. batch' = [c EXCEPT ![l] = SubSeq(q, 1, n)]
    BY <2>1, <1>0 DEF Batches
  <2> HIDE DEF c
  <2>4. queue' \in Seq(Records) /\ batch' \in Batches /\ Apart(queue', batch')
        /\ Held(queue', batch') = Held(q, c)
    <3>1. /\ SubSeq(q, n + 1, Len(q)) \in Seq(Records)
          /\ [c EXCEPT ![l] = SubSeq(q, 1, n)] \in Batches
          /\ Apart(SubSeq(q, n + 1, Len(q)), [c EXCEPT ![l] = SubSeq(q, 1, n)])
          /\ Held(SubSeq(q, n + 1, Len(q)), [c EXCEPT ![l] = SubSeq(q, 1, n)]) = Held(q, c)
      BY <1>1, <2>2, TakePrefix
    <3> QED BY <3>1, <2>1, <2>3
  <2>5. BatchWhilePosting'
    BY <1>0, <2>1 DEF BatchWhilePosting, Batches
  <2> QED BY <2>4, <2>5 DEF c, Emptied
<1>3. CASE Halt(l, q, at) /\ at # "posting"
  <2>1. queue' = q /\ batch' = c
    BY <1>3 DEF Halt
  <2>2. BatchWhilePosting'
    BY <1>0, <1>3 DEF Halt, BatchWhilePosting, Batches
  <2> QED BY <1>1, <2>1, <2>2 DEF Emptied
<1> QED BY <1>2, <1>3

(* A loop that is not posting has no batch to let go of. *)
LEMMA Unburdened ==
  ASSUME TypeOK, BatchWhilePosting, NEW l \in Loops, pc[l] # "posting"
  PROVE  Emptied(batch, l) = batch
BY DEF TypeOK, BatchWhilePosting, Emptied

-----------------------------------------------------------------------------
(* The queue after enqueue() of a new record. *)
LEMMA EnqueuedMoves ==
  ASSUME Inv, NEW r \in Records, r = written + 1
  PROVE  /\ Enqueued(r) \in Seq(Records)
         /\ Apart(Enqueued(r), batch)
         /\ \E evicted \in SUBSET Pending :
              /\ Held(Enqueued(r), batch) = (Pending \ evicted) \cup {r}
              /\ (IF Full THEN dropped \cup {Head(queue)} ELSE dropped) = dropped \cup evicted
<1>1. r \notin Pending /\ queue \in Seq(Records) /\ batch \in Batches /\ Apart(queue, batch)
  BY DEF Inv, Placed, TypeOK, Records, Batches
<1>2. /\ r \notin Range(queue)
      /\ \A l \in Loops : r \notin Range(batch[l])
  BY <1>1 DEF Pending, Held
<1>3. CASE ~Full
  <2>1. Enqueued(r) = Append(queue, r)
    BY <1>3 DEF Enqueued
  <2>2. /\ Append(queue, r) \in Seq(Records)
        /\ Range(Append(queue, r)) = Range(queue) \cup {r}
        /\ IsInjective(Append(queue, r))
    BY <1>1, <1>2, AppendSeq DEF Apart
  <2> DEFINE q == Append(queue, r)
  <2> HIDE DEF q
  <2>3. q \in Seq(Records) /\ Range(q) = Range(queue) \cup {r} /\ IsInjective(q) /\ Enqueued(r) = q
    BY <2>1, <2>2 DEF q
  <2>4. Apart(q, batch)
    BY <1>1, <1>2, <2>3 DEF Apart
  <2>5. Held(q, batch) = (Pending \ {}) \cup {r}
    BY <2>3 DEF Held, Pending
  <2>6. (IF Full THEN dropped \cup {Head(queue)} ELSE dropped) = dropped \cup {}
    BY <1>3
  <2>7. {} \in SUBSET Pending
    OBVIOUS
  <2>8. \E evicted \in SUBSET Pending :
          /\ Held(Enqueued(r), batch) = (Pending \ evicted) \cup {r}
          /\ (IF Full THEN dropped \cup {Head(queue)} ELSE dropped) = dropped \cup evicted
    BY <2>3, <2>5, <2>6, <2>7
  <2> QED BY <2>3, <2>4, <2>8
<1>4. CASE Full
  <2>1. queue # <<>>
    BY <1>1, <1>4, LimitsAssumption DEF Full
  <2>2. /\ Head(queue) \in Records /\ Tail(queue) \in Seq(Records)
        /\ Range(queue) = Range(Tail(queue)) \cup {Head(queue)}
        /\ IsInjective(Tail(queue)) /\ Head(queue) \notin Range(Tail(queue))
    BY <1>1, <2>1, TailSeq DEF Apart
  <2> DEFINE t == Tail(queue)
             h == Head(queue)
             q == Append(t, r)
  <2> HIDE DEF t
  <2>3. /\ t \in Seq(Records) /\ h \in Records
        /\ Range(queue) = Range(t) \cup {h} /\ IsInjective(t) /\ h \notin Range(t)
    BY <2>2 DEF t
  <2> HIDE DEF h
  <2>4. /\ q \in Seq(Records) /\ Range(q) = Range(t) \cup {r} /\ IsInjective(q)
    BY <1>2, <2>3, AppendSeq
  <2>5. Enqueued(r) = q
    BY <1>4 DEF Enqueued, t
  <2> HIDE DEF q
  <2>6. Apart(q, batch)
    BY <1>1, <1>2, <2>3, <2>4 DEF Apart
  <2>7. Held(q, batch) = (Pending \ {h}) \cup {r}
    <3>1. \A l \in Loops : h \notin Range(batch[l])
      BY <1>1, <2>3 DEF Apart
    <3>2. h # r
      BY <1>2, <2>3
    <3> QED BY <2>3, <2>4, <3>1, <3>2 DEF Held, Pending
  <2>8. {h} \in SUBSET Pending
    BY <2>3 DEF Held, Pending
  <2> QED BY <1>4, <2>4, <2>5, <2>6, <2>7, <2>8 DEF h
<1> QED BY <1>3, <1>4

-----------------------------------------------------------------------------
PcOK ==
  /\ pc \in [Loops -> {"idle", "posting", "drained", "threw", "waiting", "resumed"}]
  /\ pc["flush"] \in {"idle", "posting", "drained", "threw"}
  /\ \A l \in ExitLoops : pc[l] \in {"idle", "posting", "waiting", "resumed"}

(* The part of the next state that a loop's turn determines. *)
Turned(held) ==
  /\ queue' \in Seq(Records) /\ batch' \in Batches
  /\ PcOK' /\ overlapped' \in BOOLEAN
  /\ BatchWhilePosting' /\ Apart(queue', batch')
  /\ Pending' = held

LEMMA DrainTurnMoves ==
  ASSUME NEW q \in Seq(Records), TypeOK, BatchWhilePosting,
         Apart(q, Emptied(batch, "flush")), DrainTurn(q)
  PROVE  Turned(Held(q, Emptied(batch, "flush")))
<1>1. "flush" \in Loops
  BY DEF Loops
<1>2. Post("flush", q) \/ (Halt("flush", q, "drained") /\ "drained" # "posting")
  BY DEF DrainTurn
<1>3. /\ queue' \in Seq(Records) /\ batch' \in Batches
      /\ BatchWhilePosting' /\ Apart(queue', batch')
      /\ Held(queue', batch') = Held(q, Emptied(batch, "flush"))
  BY <1>1, <1>2, TurnMoves
<1>4. PcOK' /\ overlapped' \in BOOLEAN
  <2>1. \/ pc' = [pc EXCEPT !["flush"] = "posting"]
        \/ pc' = [pc EXCEPT !["flush"] = "drained"]
    BY <1>2 DEF Post, Halt
  <2>2. PcOK'
    BY <1>1, <2>1 DEF PcOK, TypeOK, ExitLoops
  <2>3. overlapped' \in BOOLEAN
    BY <1>2 DEF Post, Halt, TypeOK
  <2> QED BY <2>2, <2>3
<1> QED BY <1>3, <1>4 DEF Turned, Pending

LEMMA ExitTurnMoves ==
  ASSUME NEW l \in ExitLoops, TypeOK, BatchWhilePosting,
         Apart(queue, Emptied(batch, l)), ExitTurn(l, queue)
  PROVE  Turned(Held(queue, Emptied(batch, l)))
<1>1. l \in Loops /\ l # "flush" /\ queue \in Seq(Records)
  BY DEF ExitLoops, TypeOK
<1>2. Post(l, queue) \/ (Halt(l, queue, "idle") /\ "idle" # "posting")
  BY DEF ExitTurn
<1>3. /\ queue' \in Seq(Records) /\ batch' \in Batches
      /\ BatchWhilePosting' /\ Apart(queue', batch')
      /\ Held(queue', batch') = Held(queue, Emptied(batch, l))
  BY <1>1, <1>2, TurnMoves
<1>4. PcOK' /\ overlapped' \in BOOLEAN
  <2>1. \/ pc' = [pc EXCEPT ![l] = "posting"]
        \/ pc' = [pc EXCEPT ![l] = "idle"]
    BY <1>2 DEF Post, Halt
  <2>2. PcOK'
    BY <1>1, <2>1 DEF PcOK, TypeOK, ExitLoops, Loops
  <2>3. overlapped' \in BOOLEAN
    BY <1>2 DEF Post, Halt, TypeOK
  <2> QED BY <2>2, <2>3
<1> QED BY <1>3, <1>4 DEF Turned, Pending

(* flush() over q, which the queue becomes: joined or started. *)
LEMMA FlushMoves ==
  ASSUME NEW q \in Seq(Records), TypeOK, BatchWhilePosting, Apart(q, batch), Flush(q)
  PROVE  /\ Turned(Held(q, batch))
         /\ interval' \in BOOLEAN /\ retry' \in BOOLEAN
<1>1. CASE Flushing
  <2>1. queue' = q /\ UNCHANGED <<pc, batch, interval, retry, overlapped>>
    BY <1>1 DEF Flush
  <2> QED BY <2>1 DEF Turned, Pending, TypeOK, Batches, PcOK, BatchWhilePosting
<1>2. CASE ~Flushing
  <2>1. DrainTurn(q) /\ interval' = FALSE /\ retry' = FALSE
    BY <1>2 DEF Flush
  <2>2. Emptied(batch, "flush") = batch
    BY <1>2, Unburdened DEF Flushing, Loops
  <2>3. Turned(Held(q, Emptied(batch, "flush")))
    BY <2>1, <2>2, DrainTurnMoves
  <2> QED BY <2>1, <2>2, <2>3
<1> QED BY <1>1, <1>2

(* flushOnExit() of a loop that is not under way. *)
LEMMA ExitStartMoves ==
  ASSUME NEW l \in ExitLoops, Inv, pc[l] # "posting", ExitStart(l)
  PROVE  Turned(Pending)
<1>1. l \in Loops /\ l # "flush" /\ Apart(queue, batch) /\ TypeOK /\ BatchWhilePosting
  BY DEF ExitLoops, Inv, Placed
<1>2. CASE queue # <<>> /\ Flushing
  <2>1. pc' = [pc EXCEPT ![l] = "waiting"] /\ UNCHANGED <<queue, batch, overlapped>>
    BY <1>2 DEF ExitStart
  <2>2. PcOK'
    BY <1>1, <2>1 DEF PcOK, TypeOK, ExitLoops, Loops
  <2>3. BatchWhilePosting'
    BY <1>1, <2>1 DEF BatchWhilePosting, TypeOK
  <2> QED BY <1>1, <2>1, <2>2, <2>3 DEF Turned, Pending, TypeOK, Batches
<1>3. CASE ~(queue # <<>> /\ Flushing)
  <2>1. ExitTurn(l, queue)
    BY <1>3 DEF ExitStart
  <2>2. Emptied(batch, l) = batch
    BY <1>1, Unburdened
  <2>3. Turned(Held(queue, Emptied(batch, l)))
    BY <1>1, <2>1, <2>2, ExitTurnMoves
  <2> QED BY <2>2, <2>3 DEF Pending
<1> QED BY <1>2, <1>3
-----------------------------------------------------------------------------
(* The types of everything a loop's turn does not set. *)
Others ==
  /\ awaitDelivery \in AwaitOptions
  /\ interval \in BOOLEAN /\ retry \in BOOLEAN
  /\ accepting \in BOOLEAN /\ closed \in BOOLEAN
  /\ written \in 0..MaxRecords
  /\ delivered \subseteq Records /\ dropped \subseteq Records
  /\ waiters \subseteq Records

(* What each step establishes. *)
Kept == TypeOK' /\ BatchWhilePosting' /\ Apart(queue', batch')

LEMMA Assembled ==
  ASSUME NEW held, Turned(held), Others'
  PROVE  Kept /\ Pending' = held
BY DEF Kept, Turned, Others, TypeOK, PcOK, Batches

LEMMA InvParts ==
  ASSUME Inv
  PROVE  /\ TypeOK /\ BatchWhilePosting /\ Others /\ PcOK
         /\ queue \in Seq(Records) /\ batch \in Batches
         /\ Apart(queue, batch)
         /\ Pending = Held(queue, batch) /\ Pending \subseteq Records
         /\ written \in Nat
<1>1. TypeOK /\ BatchWhilePosting /\ Placed
  BY DEF Inv
<1>2. Pending \subseteq Records
  BY <1>1, LimitsAssumption DEF Placed, TypeOK, Records
<1> QED BY <1>1, <1>2 DEF TypeOK, Others, PcOK, Batches, Placed, Pending, Records

(* The turn of a loop whose request was acknowledged. *)
LEMMA Acknowledged ==
  ASSUME Inv, NEW l \in Loops,
         Turned(Held(queue, Emptied(batch, l))),
         delivered' = delivered \cup Range(batch[l]),
         UNCHANGED <<dropped, written>>
  PROVE  delivered' \subseteq Records /\ Moves
<1>1. /\ queue \in Seq(Records) /\ batch \in Batches /\ Apart(queue, batch)
      /\ Pending = Held(queue, batch) /\ Pending \subseteq Records /\ Others
  BY InvParts
<1> DEFINE sent == Range(batch[l])
           rest == Held(queue, Emptied(batch, l))
<1>2. Pending = rest \cup sent /\ rest \cap sent = {}
  BY <1>1, LetGo
<1>3. Pending' = rest
  BY DEF Turned
<1> HIDE DEF sent, rest
<1>4. Pending' = Pending \ sent /\ sent \in SUBSET Pending
  BY <1>2, <1>3
<1>5. delivered' = delivered \cup sent
  BY DEF sent
<1>6. delivered' \subseteq Records
  BY <1>1, <1>4, <1>5 DEF Others
<1>7. Delivers
  BY <1>4, <1>5 DEF Delivers
<1> QED BY <1>6, <1>7 DEF Moves

(* A failed request: loop l restores its batch. *)
LEMMA RestoreMoves ==
  ASSUME Inv, NEW l \in Loops, NEW at, Restore(l, at), at # "posting",
         UNCHANGED <<delivered, dropped, written>>
  PROVE  /\ queue' \in Seq(Records) /\ batch' \in Batches
         /\ BatchWhilePosting' /\ Apart(queue', batch')
         /\ Pending' = Pending
<1>1. /\ queue \in Seq(Records) /\ batch \in Batches /\ Apart(queue, batch)
      /\ BatchWhilePosting /\ PcOK
  BY InvParts
<1>2. queue' = batch[l] \o queue /\ batch' = Emptied(batch, l) /\ pc' = [pc EXCEPT ![l] = at]
  BY DEF Restore, Emptied
<1>3. /\ batch[l] \o queue \in Seq(Records)
      /\ Apart(batch[l] \o queue, Emptied(batch, l))
      /\ Held(batch[l] \o queue, Emptied(batch, l)) = Held(queue, batch)
  BY <1>1, PutBack
<1>4. Emptied(batch, l) \in Batches
  BY <1>1, LetGo
<1>5. BatchWhilePosting'
  BY <1>1, <1>2 DEF BatchWhilePosting, Emptied, Batches, PcOK
<1> QED BY <1>2, <1>3, <1>4, <1>5 DEF Pending

-----------------------------------------------------------------------------
Step == Kept /\ Moves

LEMMA WriteRefusedStep == ASSUME Inv, WriteRefused PROVE Step
<1>1. written + 1 \in Records /\ written' = written + 1 /\ dropped' = dropped \cup {written + 1}
  BY DEF WriteRefused
<1>2. UNCHANGED <<awaitDelivery, queue, pc, batch, interval, retry, accepting, closed,
                  delivered, waiters, overlapped>>
  BY DEF WriteRefused
<1>3. Kept
  BY <1>1, <1>2, InvParts DEF Kept, TypeOK, Records, BatchWhilePosting, ExitLoops
<1>4. Refuses
  BY <1>1, <1>2 DEF Refuses, Pending
<1> QED BY <1>3, <1>4 DEF Step, Moves

LEMMA WriteStep == ASSUME Inv, Write PROVE Step
<1> DEFINE r == written + 1
<1>1. /\ r \in Records /\ written' = r
      /\ dropped' = IF Full THEN dropped \cup {Head(queue)} ELSE dropped
      /\ waiters' = IF awaitDelivery THEN waiters \cup {r} ELSE waiters
      /\ UNCHANGED <<awaitDelivery, accepting, closed, delivered>>
  BY DEF Write
<1>2. \/ Flush(Enqueued(r))
      \/ /\ queue' = Enqueued(r)
         /\ interval' = (interval \/ ~retry)
         /\ UNCHANGED <<pc, batch, retry, overlapped>>
  BY DEF Write
<1>3. TypeOK /\ BatchWhilePosting /\ Others /\ PcOK /\ batch \in Batches
      /\ Pending \subseteq Records /\ written \in Nat
  BY InvParts
<1>4. r = written + 1
  OBVIOUS
<1> HIDE DEF r
<1>5. /\ Enqueued(r) \in Seq(Records) /\ Apart(Enqueued(r), batch)
      /\ \E evicted \in SUBSET Pending :
           /\ Held(Enqueued(r), batch) = (Pending \ evicted) \cup {r}
           /\ (IF Full THEN dropped \cup {Head(queue)} ELSE dropped) = dropped \cup evicted
  BY <1>1, <1>4, EnqueuedMoves
<1>6. /\ Turned(Held(Enqueued(r), batch))
      /\ interval' \in BOOLEAN /\ retry' \in BOOLEAN
  <2>1. CASE Flush(Enqueued(r))
    BY <1>3, <1>5, <2>1, FlushMoves
  <2>2. CASE /\ queue' = Enqueued(r)
             /\ interval' = (interval \/ ~retry)
             /\ UNCHANGED <<pc, batch, retry, overlapped>>
    <3>1. interval' \in BOOLEAN /\ retry' \in BOOLEAN
      BY <1>3, <2>2 DEF Others
    <3>2. PcOK' /\ overlapped' \in BOOLEAN /\ BatchWhilePosting'
      BY <1>3, <2>2 DEF PcOK, BatchWhilePosting, TypeOK
    <3> QED BY <1>3, <1>5, <2>2, <3>1, <3>2 DEF Turned, Pending
  <2> QED BY <1>2, <2>1, <2>2
<1>7. PICK evicted \in SUBSET Pending :
        /\ Held(Enqueued(r), batch) = (Pending \ evicted) \cup {r}
        /\ dropped' = dropped \cup evicted
  BY <1>1, <1>5
<1>8. Others'
  <2>1. written' \in 0..MaxRecords /\ waiters' \subseteq Records
    BY <1>1, <1>3 DEF Records, Others
  <2>2. dropped' \subseteq Records
    BY <1>3, <1>7 DEF Others
  <2> QED BY <1>1, <1>3, <1>6, <2>1, <2>2 DEF Others
<1>9. Kept /\ Pending' = (Pending \ evicted) \cup {written'}
  BY <1>1, <1>6, <1>7, <1>8, Assembled
<1>10. Admits
  BY <1>1, <1>4, <1>7, <1>9 DEF Admits
<1> QED BY <1>9, <1>10 DEF Step, Moves
LEMMA FlushCallStep == ASSUME Inv, FlushCall PROVE Step
<1>1. Flush(queue) /\ UNCHANGED <<awaitDelivery, accepting, closed, written, delivered, dropped, waiters>>
  BY DEF FlushCall
<1>2. Turned(Pending) /\ interval' \in BOOLEAN /\ retry' \in BOOLEAN
  BY <1>1, InvParts, FlushMoves
<1>3. Others'
  BY <1>1, <1>2, InvParts DEF Others
<1>4. Kept /\ Pending' = Pending
  BY <1>2, <1>3, Assembled
<1> QED BY <1>1, <1>4 DEF Step, Moves, Stays

LEMMA TimerStep == ASSUME Inv, TimerFires PROVE Step
<1>1. UNCHANGED <<awaitDelivery, accepting, closed, written, delivered, dropped, waiters>>
  BY DEF TimerFires
<1>2. Kept /\ Pending' = Pending
  <2>1. CASE Flushing
    <3>1. /\ interval' \in BOOLEAN /\ retry' \in BOOLEAN
          /\ UNCHANGED <<queue, pc, batch, overlapped>>
      BY <2>1, InvParts DEF TimerFires, Others
    <3> QED BY <1>1, <3>1, InvParts DEF Kept, TypeOK, BatchWhilePosting, Pending
  <2>2. CASE ~Flushing
    <3>1. Flush(queue)
      BY <2>2 DEF TimerFires
    <3>2. Turned(Pending) /\ interval' \in BOOLEAN /\ retry' \in BOOLEAN
      BY <3>1, InvParts, FlushMoves
    <3>3. Others'
      BY <1>1, <3>2, InvParts DEF Others
    <3> QED BY <3>2, <3>3, Assembled
  <2> QED BY <2>1, <2>2
<1> QED BY <1>1, <1>2 DEF Step, Moves, Stays

LEMMA DrainDeliversStep == ASSUME Inv, DrainDelivers PROVE Step
<1>1. /\ DrainTurn(queue)
      /\ delivered' = delivered \cup Range(batch["flush"])
      /\ UNCHANGED <<awaitDelivery, interval, retry, accepting, closed, written, dropped, waiters>>
      /\ "flush" \in Loops
  BY DEF DrainDelivers, Loops
<1>2. Turned(Held(queue, Emptied(batch, "flush")))
  BY <1>1, InvParts, LetGo, DrainTurnMoves
<1>3. delivered' \subseteq Records /\ Moves
  BY <1>1, <1>2, Acknowledged
<1>4. Others'
  BY <1>1, <1>3, InvParts DEF Others
<1> QED BY <1>2, <1>3, <1>4, Assembled DEF Step

LEMMA ExitDeliversStep == ASSUME Inv, NEW l \in ExitLoops, ExitDelivers(l) PROVE Step
<1>1. /\ ExitTurn(l, queue)
      /\ delivered' = delivered \cup Range(batch[l])
      /\ UNCHANGED <<awaitDelivery, interval, retry, accepting, written, dropped, waiters>>
      /\ l \in Loops
  BY DEF ExitDelivers, ExitLoops
<1>2. Turned(Held(queue, Emptied(batch, l)))
  BY <1>1, InvParts, LetGo, ExitTurnMoves
<1>3. delivered' \subseteq Records /\ Moves
  BY <1>1, <1>2, Acknowledged
<1>4. closed' \in BOOLEAN
  BY DEF ExitDelivers, ClosedAfter
<1>5. Others'
  BY <1>1, <1>3, <1>4, InvParts DEF Others
<1> QED BY <1>2, <1>3, <1>5, Assembled DEF Step

LEMMA FailsStep ==
  ASSUME Inv, DrainFails \/ \E l \in ExitLoops : ExitFails(l)
  PROVE  Step
<1>1. UNCHANGED <<awaitDelivery, interval, retry, accepting, closed, written, delivered,
                  dropped, waiters, overlapped>>
  BY DEF DrainFails, ExitFails
<1>2. PICK l \in Loops, at \in {"threw", "idle"} :
        /\ Restore(l, at)
        /\ l = "flush" <=> at = "threw"
  BY DEF DrainFails, ExitFails, ExitLoops, Loops
<1>3. /\ queue' \in Seq(Records) /\ batch' \in Batches
      /\ BatchWhilePosting' /\ Apart(queue', batch')
      /\ Pending' = Pending
  BY <1>1, <1>2, RestoreMoves
<1>4. PcOK'
  <2>1. pc' = [pc EXCEPT ![l] = at]
    BY <1>2 DEF Restore
  <2> QED BY <1>2, <2>1, InvParts DEF PcOK, ExitLoops
<1>5. Turned(Pending) /\ Others'
  BY <1>1, <1>3, <1>4, InvParts DEF Turned, Others, TypeOK
<1> QED BY <1>1, <1>5, Assembled DEF Step, Moves, Stays

LEMMA ReleaseStep == ASSUME Inv, FlushResolves \/ FlushRejects PROVE Step
<1>1. /\ pc["flush"] # "posting"
      /\ Release
      /\ interval' \in BOOLEAN /\ retry' \in BOOLEAN
  BY InvParts DEF FlushResolves, FlushRejects, Others
<1>2. /\ pc' = [l \in Loops |-> IF l = "flush" THEN "idle"
                                ELSE IF pc[l] = "waiting" THEN "resumed" ELSE pc[l]]
      /\ waiters' = {}
      /\ UNCHANGED <<awaitDelivery, queue, batch, accepting, closed, written, delivered, dropped, overlapped>>
  BY <1>1 DEF Release
<1>3. PcOK'
  BY <1>2, InvParts DEF PcOK, ExitLoops, Loops
<1>4. BatchWhilePosting'
  BY <1>1, <1>2, InvParts DEF BatchWhilePosting, PcOK
<1>5. Turned(Pending) /\ Others'
  BY <1>1, <1>2, <1>3, <1>4, InvParts DEF Turned, Others, Pending, TypeOK
<1> QED BY <1>2, <1>5, Assembled DEF Step, Moves, Stays

LEMMA ExitCallStep == ASSUME Inv, NEW l \in Exits, ExitCall(l) PROVE Step
<1>1. /\ l \in ExitLoops /\ pc[l] # "posting" /\ ExitStart(l)
      /\ UNCHANGED <<awaitDelivery, interval, retry, accepting, closed, written, delivered,
                     dropped, waiters>>
  BY ExitsAssumption DEF ExitCall, ExitLoops, Loops
<1>2. Turned(Pending)
  BY <1>1, ExitStartMoves
<1>3. Others'
  BY <1>1, InvParts DEF Others
<1> QED BY <1>1, <1>2, <1>3, Assembled DEF Step, Moves, Stays

LEMMA CloseCallStep == ASSUME Inv, CloseCall PROVE Step
<1>1. /\ "close" \in ExitLoops /\ pc["close"] # "posting" /\ ExitStart("close")
      /\ interval' = FALSE /\ retry' = FALSE /\ accepting' = FALSE /\ closed' \in BOOLEAN
      /\ UNCHANGED <<awaitDelivery, written, delivered, dropped, waiters>>
  BY DEF CloseCall, ExitLoops, Loops
<1>2. Turned(Pending)
  BY <1>1, ExitStartMoves
<1>3. Others'
  BY <1>1, InvParts DEF Others
<1> QED BY <1>1, <1>2, <1>3, Assembled DEF Step, Moves, Stays

LEMMA ExitResumesStep == ASSUME Inv, NEW l \in ExitLoops, ExitResumes(l) PROVE Step
<1>1. /\ l \in Loops /\ pc[l] # "posting" /\ ExitTurn(l, queue) /\ closed' \in BOOLEAN
      /\ UNCHANGED <<awaitDelivery, interval, retry, accepting, written, delivered, dropped,
                     waiters>>
  BY DEF ExitResumes, ClosedAfter, ExitLoops
<1>2. Emptied(batch, l) = batch
  BY <1>1, InvParts, Unburdened
<1>3. Turned(Pending)
  BY <1>1, <1>2, InvParts, ExitTurnMoves
<1>4. Others'
  BY <1>1, InvParts DEF Others
<1> QED BY <1>1, <1>3, <1>4, Assembled DEF Step, Moves, Stays

-----------------------------------------------------------------------------
LEMMA InitInv == ASSUME Init PROVE Inv
<1>1. TypeOK
  <2>1. queue \in Seq(Records) /\ batch \in [Loops -> Seq(Records)]
    BY NothingSeq DEF Init
  <2>2. PcOK
    BY DEF Init, PcOK, ExitLoops, Loops
  <2>3. Others /\ overlapped \in BOOLEAN
    <3>1. written \in 0..MaxRecords
      BY LimitsAssumption DEF Init
    <3>2. /\ delivered \subseteq Records /\ dropped \subseteq Records
          /\ waiters \subseteq Records
      BY DEF Init
    <3>3. /\ interval \in BOOLEAN /\ retry \in BOOLEAN /\ overlapped \in BOOLEAN
          /\ accepting \in BOOLEAN /\ closed \in BOOLEAN
          /\ awaitDelivery \in AwaitOptions
      BY Zenon DEF Init
    <3> QED BY <3>1, <3>2, <3>3 DEF Others
  <2> QED BY <2>1, <2>2, <2>3 DEF TypeOK, PcOK, Others
<1>2. BatchWhilePosting
  BY DEF Init, BatchWhilePosting
<1>3. Placed
  <2>1. queue = <<>> /\ (\A l \in Loops : batch[l] = <<>>) /\ written = 0
        /\ delivered = {} /\ dropped = {}
    BY DEF Init
  <2>2. Apart(queue, batch) /\ Pending = {}
    BY <2>1, NothingSeq DEF Apart, Pending, Held
  <2>3. 1..written = {}
    BY <2>1
  <2> QED BY <2>1, <2>2, <2>3 DEF Placed, Settled
<1> QED BY <1>1, <1>2, <1>3 DEF Inv

LEMMA NextStep == ASSUME Inv, [Next]_vars PROVE Step
<1>1. CASE Calls
  BY <1>1, WriteStep, WriteRefusedStep, FlushCallStep, CloseCallStep, ExitCallStep DEF Calls
<1>2. CASE TimerFires
  BY <1>2, TimerStep
<1>3. CASE Settles
  BY <1>3, DrainDeliversStep, FailsStep, ReleaseStep, ExitResumesStep, ExitDeliversStep DEF Settles
<1>4. CASE UNCHANGED vars
  BY <1>4, InvParts
     DEF vars, Step, Kept, Moves, Stays, Pending, TypeOK, BatchWhilePosting
<1> QED BY <1>1, <1>2, <1>3, <1>4 DEF Next

LEMMA NextInv == ASSUME Inv, [Next]_vars PROVE Inv'
<1>1. Step
  BY NextStep
<1>2. Placed'
  BY <1>1, MovesKeepPlaces DEF Step, Kept
<1> QED BY <1>1, <1>2 DEF Step, Kept, Inv

(* Inv holds in every reachable state. *)
THEOREM Invariance == Spec => []Inv
<1> USE DEF Spec
<1>1. Init => Inv
  BY InitInv
<1>2. Inv /\ [Next]_vars => Inv'
  BY NextInv
<1> QED BY <1>1, <1>2, PTL

(* The transport's fields keep their types: in particular the queue and the *)
(* batches hold only records, whatever is written, refused or restored.     *)
THEOREM TypeCorrect == Spec => []TypeOK
<1>1. Inv => TypeOK
  BY DEF Inv
<1> QED BY <1>1, Invariance, PTL

(* No record is lost, duplicated or settled twice by the flush loop, any    *)
(* number of flushOnExit() loops and close() sharing the queue.             *)
THEOREM OnePlaceHolds == Spec => []OnePlace
<1>1. ASSUME Inv PROVE OnePlace
  <2>1. /\ Apart(queue, batch) /\ Held(queue, batch) \cup Settled = 1..written
        /\ Held(queue, batch) \cap Settled = {} /\ delivered \cap dropped = {}
    BY <1>1 DEF Inv, Placed, Pending
  <2>2. Range(queue) \cup InFlight = Held(queue, batch)
    BY DEF Held, InFlight
  <2>3. \A l \in Loops : Range(batch[l]) \subseteq Held(queue, batch)
    BY DEF Held
  <2>4. /\ \A l \in Loops : Range(batch[l]) \cap (Range(queue) \cup Settled) = {}
        /\ Range(queue) \cap Settled = {}
    BY <2>1, <2>2, <2>3 DEF Apart
  <2> QED BY <2>1, <2>2, <2>4 DEF OnePlace, Apart
<1> QED BY <1>1, Invariance, PTL

(* The transport implements DeliveryLedger, its pending records being those *)
(* queued or in a request.                                                  *)
THEOREM LedgerRefinement == Spec => LedgerSpec
<1>1. Pending = Range(queue) \cup InFlight
  BY DEF Pending, Held, InFlight
<1>2. ASSUME Init PROVE Ledger!Init
  <2>1. Pending = {}
    BY <1>2, NothingSeq DEF Init, Pending, Held
  <2> QED BY <1>1, <1>2, <2>1 DEF Ledger!Init, Init
<1>3. (Range(queue) \cup InFlight)' = Pending'
  BY DEF Pending, Held, InFlight
<1>4. ASSUME Inv, [Next]_vars PROVE [Ledger!Next]_(Ledger!vars)
  <2>1. Moves
    BY <1>4, NextStep DEF Step
  <2>2. Pending \cup Settled = 1..written /\ written + 1 \notin 1..written
    BY <1>4, InvParts DEF Inv, Placed
  <2>3. CASE Stays
    BY <1>1, <1>3, <2>3 DEF Stays, Ledger!vars
  <2>4. CASE Admits
    <3>1. PICK evicted \in SUBSET Pending :
            /\ written' = written + 1 /\ written' \in Records
            /\ Pending' = (Pending \ evicted) \cup {written'}
            /\ dropped' = dropped \cup evicted
            /\ delivered' = delivered
      BY <2>4 DEF Admits
    <3>2. Ledger!Admit(written', evicted)
      BY <1>1, <1>3, <2>2, <3>1 DEF Ledger!Admit, Ledger!Known, Settled
    <3> QED BY <1>1, <3>1, <3>2 DEF Ledger!Next
  <2>5. CASE Refuses
    <3>1. Ledger!Refuse(written')
      BY <1>1, <1>3, <2>2, <2>5 DEF Refuses, Ledger!Refuse, Ledger!Known, Settled
    <3> QED BY <2>5, <3>1 DEF Refuses, Ledger!Next
  <2>6. CASE Delivers
    <3>1. PICK sent \in SUBSET Pending :
            /\ Pending' = Pending \ sent
            /\ delivered' = delivered \cup sent
            /\ UNCHANGED <<dropped, written>>
      BY <2>6 DEF Delivers
    <3>2. Ledger!Deliver(sent)
      BY <1>1, <1>3, <3>1 DEF Ledger!Deliver
    <3> QED BY <1>1, <3>1, <3>2 DEF Ledger!Next
  <2> QED BY <2>1, <2>3, <2>4, <2>5, <2>6 DEF Moves
<1> QED BY <1>2, <1>4, Invariance, PTL DEF Spec, LedgerSpec, Ledger!Spec

-----------------------------------------------------------------------------
(* QueueKept. What the steps do to the queue, the batches and overlapped is *)
(* one of four shapes, and each keeps the order and the sizes.              *)

(* Everything in s is older than everything in t. *)
Before(s, t) == \A x \in Range(s), y \in Range(t) : x < y

LEMMA AscendingSplit ==
  ASSUME NEW q \in Seq(Records), Ascending(q), NEW n \in 1..Len(q)
  PROVE  /\ Ascending(SubSeq(q, 1, n))
         /\ Ascending(SubSeq(q, n + 1, Len(q)))
         /\ Before(SubSeq(q, 1, n), SubSeq(q, n + 1, Len(q)))
<1> DEFINE a == SubSeq(q, 1, n)
           b == SubSeq(q, n + 1, Len(q))
<1>1. a \in Seq(Records) /\ Len(a) = n /\ \A i \in 1..n : a[i] = q[i]
  OBVIOUS
<1>2. b \in Seq(Records) /\ Len(b) = Len(q) - n /\ \A i \in 1..(Len(q) - n) : b[i] = q[n + i]
  OBVIOUS
<1>3. /\ Range(a) = {a[i] : i \in 1..n}
      /\ Range(b) = {b[i] : i \in 1..(Len(q) - n)}
  BY <1>1, <1>2, RangeEquality
<1>4. \A i, j \in 1..Len(q) : i < j => q[i] < q[j]
  BY DEF Ascending
<1> HIDE DEF a, b
<1>5. Ascending(a)
  BY <1>1, <1>4 DEF Ascending
<1>6. Ascending(b)
  <2> SUFFICES ASSUME NEW i \in 1..(Len(q) - n), NEW j \in 1..(Len(q) - n), i < j
               PROVE  b[i] < b[j]
    BY <1>2 DEF Ascending
  <2>1. n + i \in 1..Len(q) /\ n + j \in 1..Len(q) /\ n + i < n + j
    OBVIOUS
  <2> QED BY <1>2, <1>4, <2>1
<1>7. Before(a, b)
  <2> SUFFICES ASSUME NEW i \in 1..n, NEW j \in 1..(Len(q) - n) PROVE a[i] < b[j]
    BY <1>3 DEF Before
  <2>1. i \in 1..Len(q) /\ n + j \in 1..Len(q) /\ i < n + j
    OBVIOUS
  <2> QED BY <1>1, <1>2, <1>4, <2>1
<1> QED BY <1>5, <1>6, <1>7 DEF a, b

LEMMA AscendingJoin ==
  ASSUME NEW s \in Seq(Records), NEW t \in Seq(Records),
         Ascending(s), Ascending(t), Before(s, t)
  PROVE  Ascending(s \o t)
<1>1. /\ \A i \in 1..Len(s) : s[i] \in Range(s)
      /\ \A i \in 1..Len(t) : t[i] \in Range(t)
  BY RangeEquality
<1>2. \A i \in 1..Len(s), j \in 1..Len(t) : s[i] < t[j]
  BY <1>1 DEF Before
<1> DEFINE u == s \o t
<1>3. /\ Len(s) \in Nat /\ Len(t) \in Nat /\ Len(u) = Len(s) + Len(t)
      /\ \A i \in 1..(Len(s) + Len(t)) : u[i] = IF i <= Len(s) THEN s[i] ELSE t[i - Len(s)]
  BY ConcatProperties
<1> HIDE DEF u
<1> SUFFICES ASSUME NEW i \in 1..(Len(s) + Len(t)), NEW j \in 1..(Len(s) + Len(t)), i < j
             PROVE  u[i] < u[j]
  BY <1>3 DEF Ascending, u
<1>4. CASE j <= Len(s)
  BY <1>3, <1>4 DEF Ascending
<1>5. CASE i <= Len(s) /\ j > Len(s)
  <2>1. i \in 1..Len(s) /\ j - Len(s) \in 1..Len(t)
    BY <1>3, <1>5
  <2> QED BY <1>2, <1>3, <1>5, <2>1
<1>6. CASE i > Len(s)
  <2>1. /\ i - Len(s) \in 1..Len(t) /\ j - Len(s) \in 1..Len(t)
        /\ i - Len(s) < j - Len(s)
    BY <1>3, <1>6
  <2>2. u[i] = t[i - Len(s)] /\ u[j] = t[j - Len(s)]
    BY <1>3, <1>6
  <2>3. \A k, m \in 1..Len(t) : k < m => t[k] < t[m]
    BY DEF Ascending
  <2> QED BY <2>1, <2>2, <2>3
<1> QED BY <1>4, <1>5, <1>6

LEMMA AscendingNothing == Ascending(<<>>)
BY DEF Ascending

(* The queue and the batches are in order, each batch older than the queue. *)
Sorted(q, b) ==
  /\ Ascending(q)
  /\ \A l \in Loops : Ascending(b[l]) /\ Before(b[l], q)

(* enqueue() keeps the order, the new record being the youngest. *)
LEMMA EnqueuedSorted ==
  ASSUME Inv, NEW r \in Records, r = written + 1, Sorted(queue, batch)
  PROVE  Sorted(Enqueued(r), batch)
<1>1. /\ queue \in Seq(Records) /\ batch \in Batches /\ written \in Nat
      /\ Pending = Held(queue, batch) /\ Pending \subseteq 1..written
  BY InvParts DEF Inv, Placed
<1>2. \A x \in Pending : x < r
  BY <1>1
<1>3. PICK t \in Seq(Records) :
        /\ Enqueued(r) = Append(t, r)
        /\ Ascending(t)
        /\ Range(t) \subseteq Range(queue)
  <2>1. CASE ~Full
    BY <1>1, <2>1 DEF Enqueued, Sorted
  <2>2. CASE Full
    <3>1. queue # <<>>
      BY <1>1, <2>2, LimitsAssumption DEF Full
    <3>2. Tail(queue) \in Seq(Records) /\ Range(Tail(queue)) \subseteq Range(queue)
      BY <1>1, <3>1, TailSeq
    <3>3. Ascending(Tail(queue))
      <4>1. Tail(queue) = SubSeq(queue, 1 + 1, Len(queue)) /\ 1 \in 1..Len(queue)
        BY <1>1, <3>1, TailIsSubSeq, EmptySeq
      <4> QED BY <1>1, <4>1, AscendingSplit DEF Sorted
    <3> QED BY <2>2, <3>2, <3>3 DEF Enqueued
  <2> QED BY <2>1, <2>2
<1> DEFINE u == <<r>>
<1>4. u \in Seq(Records) /\ Append(t, r) = t \o u /\ Range(u) = {r} /\ Ascending(u)
  BY AppendIsConcat DEF Range, Ascending
<1> HIDE DEF u
<1>5. Before(t, u)
  BY <1>1, <1>2, <1>3, <1>4 DEF Before, Held
<1>6. Ascending(Enqueued(r))
  BY <1>3, <1>4, <1>5, AscendingJoin
<1>7. Range(Enqueued(r)) = Range(t) \cup {r}
  <2>1. Range(Append(t, r)) = Range(t) \cup {r}
    BY AppendSeq
  <2> QED BY <1>3, <2>1
<1>8. \A l \in Loops : Range(batch[l]) \subseteq Pending
  BY <1>1 DEF Held
<1>9. \A l \in Loops : Before(batch[l], Enqueued(r))
  BY <1>2, <1>3, <1>7, <1>8 DEF Sorted, Before
<1> QED BY <1>6, <1>9 DEF Sorted


-----------------------------------------------------------------------------
(* The four shapes of a step, as the queue and the batches see it. *)
Rests ==
  /\ UNCHANGED <<queue, batch, overlapped>>
  /\ \A l \in Loops : pc'[l] = "posting" => pc[l] = "posting"

TurnOver(l, q) == Post(l, q) \/ \E at : at # "posting" /\ Halt(l, q, at)

PutsBack(l) ==
  /\ pc[l] = "posting"
  /\ UNCHANGED overlapped
  /\ \E at : at # "posting" /\ Restore(l, at)

Enqueues ==
  /\ accepting
  /\ written + 1 \in Records /\ written' = written + 1
  /\ dropped' = IF Full THEN dropped \cup {Head(queue)} ELSE dropped
  /\ \/ TurnOver("flush", Enqueued(written + 1))
     \/ queue' = Enqueued(written + 1) /\ UNCHANGED <<pc, batch, overlapped>>

Shape ==
  \/ Rests
  \/ \E l \in Loops : TurnOver(l, queue) \/ PutsBack(l)
  \/ Enqueues

LEMMA FlushShape ==
  ASSUME NEW q, Flush(q)
  PROVE  \/ queue' = q /\ UNCHANGED <<pc, batch, overlapped>>
         \/ TurnOver("flush", q)
BY DEF Flush, DrainTurn, TurnOver

LEMMA ExitTurnShape ==
  ASSUME NEW l, NEW q, ExitTurn(l, q)
  PROVE  TurnOver(l, q)
BY DEF ExitTurn, TurnOver

LEMMA ExitStartShape ==
  ASSUME Inv, NEW l \in Loops, ExitStart(l)
  PROVE  Rests \/ TurnOver(l, queue)
<1>1. CASE queue # <<>> /\ Flushing
  BY <1>1, InvParts DEF ExitStart, Rests, PcOK
<1>2. CASE ~(queue # <<>> /\ Flushing)
  BY <1>2, ExitTurnShape DEF ExitStart
<1> QED BY <1>1, <1>2

LEMMA WriteShape == ASSUME Write PROVE Enqueues
<1>1. \/ Flush(Enqueued(written + 1))
      \/ queue' = Enqueued(written + 1) /\ UNCHANGED <<pc, batch, overlapped>>
  BY DEF Write
<1>2. \/ queue' = Enqueued(written + 1) /\ UNCHANGED <<pc, batch, overlapped>>
      \/ TurnOver("flush", Enqueued(written + 1))
  BY <1>1, FlushShape
<1> QED BY <1>2 DEF Write, Enqueues, Acceptable

LEMMA NextShape == ASSUME Inv, [Next]_vars PROVE Shape
<1>0. "flush" \in Loops /\ "close" \in Loops /\ Exits \subseteq Loops /\ ExitLoops \subseteq Loops
  BY DEF Loops, ExitLoops
<1>1. CASE Calls
  <2>1. CASE Write
    BY <2>1, WriteShape DEF Shape
  <2>2. CASE WriteRefused
    BY <2>2 DEF WriteRefused, Rests, Shape
  <2>3. CASE FlushCall
    BY <1>0, <2>3, FlushShape DEF FlushCall, Rests, Shape
  <2>4. CASE CloseCall
    BY <1>0, <2>4, ExitStartShape DEF CloseCall, Shape
  <2>5. CASE \E l \in Exits : ExitCall(l)
    BY <1>0, <2>5, ExitStartShape DEF ExitCall, Shape
  <2> QED BY <1>1, <2>1, <2>2, <2>3, <2>4, <2>5 DEF Calls
<1>2. CASE TimerFires
  <2>1. CASE Flushing
    BY <1>2, <2>1 DEF TimerFires, Rests, Shape
  <2>2. CASE ~Flushing
    BY <1>0, <1>2, <2>2, FlushShape DEF TimerFires, Rests, Shape
  <2> QED BY <2>1, <2>2
<1>3. CASE Settles
  <2>1. CASE DrainDelivers
    BY <1>0, <2>1 DEF DrainDelivers, DrainTurn, TurnOver, Shape
  <2>2. CASE DrainFails
    BY <1>0, <2>2 DEF DrainFails, PutsBack, Shape
  <2>3. CASE FlushResolves \/ FlushRejects
    BY <2>3 DEF FlushResolves, FlushRejects, Release, Rests, Shape
  <2>4. CASE \E l \in ExitLoops : ExitResumes(l) \/ ExitDelivers(l) \/ ExitFails(l)
    <3>1. PICK l \in Loops : \/ ExitTurn(l, queue)
                             \/ ExitFails(l)
      BY <1>0, <2>4 DEF ExitResumes, ExitDelivers
    <3>2. CASE ExitTurn(l, queue)
      BY <3>2, ExitTurnShape DEF Shape
    <3>3. CASE ExitFails(l)
      BY <3>3 DEF ExitFails, PutsBack, Shape
    <3> QED BY <3>1, <3>2, <3>3
  <2> QED BY <1>3, <2>1, <2>2, <2>3, <2>4 DEF Settles
<1>4. CASE UNCHANGED vars
  BY <1>4 DEF vars, Rests, Shape
<1> QED BY <1>1, <1>2, <1>3, <1>4 DEF Next

-----------------------------------------------------------------------------
Sizes == \A l \in Loops : Len(batch[l]) <= BatchSize

Alone == ~overlapped => \A l, k \in Loops : pc[l] = "posting" /\ pc[k] = "posting" => l = k

InOrder == ~overlapped => Sorted(queue, batch)

(* What a turn over q leaves, in the terms of the three conjuncts above. *)
LEMMA TurnOverKeeps ==
  ASSUME Inv, Sizes, Alone, NEW q \in Seq(Records), NEW l \in Loops,
         ~overlapped => Sorted(q, batch),
         TurnOver(l, q)
  PROVE  Sizes' /\ Alone' /\ InOrder'
<1>1. /\ batch \in Batches /\ BatchWhilePosting
      /\ pc \in [Loops -> {"idle", "posting", "drained", "threw", "waiting", "resumed"}]
  BY InvParts DEF PcOK
<1>2. CASE Post(l, q)
  <2> DEFINE Old == \E k \in Loops \ {l} : pc[k] = "posting"
  <2>1. PICK n \in Fitting(q, Budget(l)) :
          /\ batch' = [batch EXCEPT ![l] = SubSeq(q, 1, n)]
          /\ queue' = SubSeq(q, n + 1, Len(q))
          /\ pc' = [pc EXCEPT ![l] = "posting"]
          /\ overlapped' = (overlapped \/ Old)
    BY <1>2 DEF Post
  <2>2. n \in 1..Len(q) /\ n <= BatchSize
    BY DEF Fitting
  <2> DEFINE s == SubSeq(q, 1, n)
  <2>3. s \in Seq(Records) /\ Len(s) = n
    BY <2>2
  <2> HIDE DEF s
  <2>4. \A k \in Loops : batch'[k] = IF k = l THEN s ELSE batch[k]
    BY <1>1, <2>1 DEF Batches, s
  <2>5. Sizes'
    BY <2>2, <2>3, <2>4 DEF Sizes
  <2>6. Alone'
    BY <1>1, <2>1 DEF Alone
  <2>7. InOrder'
    <3> SUFFICES ASSUME ~overlapped' PROVE Sorted(queue', batch')
      BY DEF InOrder
    <3>1. ~overlapped /\ Sorted(q, batch) /\ \A k \in Loops \ {l} : batch[k] = <<>>
      BY <1>1, <2>1 DEF BatchWhilePosting
    <3>2. Ascending(s) /\ Ascending(queue') /\ Before(s, queue')
      BY <2>1, <2>2, <3>1, AscendingSplit DEF Sorted, s
    <3>3. \A k \in Loops : Ascending(batch'[k]) /\ Before(batch'[k], queue')
      BY <2>4, <3>1, <3>2, NothingSeq, AscendingNothing DEF Before
    <3> QED BY <3>2, <3>3 DEF Sorted
  <2> QED BY <2>5, <2>6, <2>7
<1>3. CASE \E at : at # "posting" /\ Halt(l, q, at)
  <2>1. PICK at : at # "posting" /\ Halt(l, q, at)
    BY <1>3
  <2>2. /\ queue' = q /\ UNCHANGED overlapped
        /\ \A k \in Loops : batch'[k] = IF k = l THEN <<>> ELSE batch[k]
        /\ \A k \in Loops : pc'[k] = IF k = l THEN at ELSE pc[k]
    BY <1>1, <2>1 DEF Halt, Batches
  <2>3. Sizes'
    <3>1. Len(<<>>) <= BatchSize
      BY LimitsAssumption
    <3> QED BY <2>2, <3>1 DEF Sizes
  <2>4. Alone'
    BY <2>1, <2>2 DEF Alone
  <2>5. InOrder'
    BY <2>2, NothingSeq, AscendingNothing DEF InOrder, Sorted, Before
  <2> QED BY <2>3, <2>4, <2>5
<1> QED BY <1>2, <1>3 DEF TurnOver

LEMMA PutsBackKeeps ==
  ASSUME Inv, Sizes, Alone, InOrder, NEW l \in Loops, PutsBack(l)
  PROVE  Sizes' /\ Alone' /\ InOrder'
<1>1. /\ batch \in Batches /\ BatchWhilePosting /\ queue \in Seq(Records)
      /\ pc \in [Loops -> {"idle", "posting", "drained", "threw", "waiting", "resumed"}]
  BY InvParts DEF PcOK
<1>2. PICK at : at # "posting" /\ Restore(l, at)
  BY DEF PutsBack
<1>3. /\ pc[l] = "posting" /\ UNCHANGED overlapped
      /\ queue' = batch[l] \o queue
      /\ \A k \in Loops : batch'[k] = IF k = l THEN <<>> ELSE batch[k]
      /\ \A k \in Loops : pc'[k] = IF k = l THEN at ELSE pc[k]
  BY <1>1, <1>2 DEF PutsBack, Restore, Batches
<1>4. Sizes'
  <2>1. Len(<<>>) <= BatchSize
    BY LimitsAssumption
  <2> QED BY <1>3, <2>1 DEF Sizes
<1>5. Alone'
  BY <1>2, <1>3 DEF Alone
<1>6. InOrder'
  <2> SUFFICES ASSUME ~overlapped PROVE Sorted(queue', batch')
    BY <1>3 DEF InOrder
  <2>1. \A k \in Loops : batch'[k] = <<>>
    BY <1>1, <1>3 DEF Alone, BatchWhilePosting
  <2>2. Ascending(batch[l] \o queue)
    <3>1. batch[l] \in Seq(Records)
      BY <1>1 DEF Batches
    <3> QED BY <1>1, <3>1, AscendingJoin DEF InOrder, Sorted
  <2> QED BY <1>3, <2>1, <2>2, NothingSeq, AscendingNothing DEF Sorted, Before
<1> QED BY <1>4, <1>5, <1>6

LEMMA ShapeKeeps ==
  ASSUME Inv, Sizes, Alone, InOrder, Shape
  PROVE  Sizes' /\ Alone' /\ InOrder'
<1>1. CASE Rests
  BY <1>1 DEF Rests, Sizes, Alone, InOrder
<1>2. CASE \E l \in Loops : TurnOver(l, queue)
  BY <1>2, InvParts, TurnOverKeeps DEF InOrder
<1>3. CASE \E l \in Loops : PutsBack(l)
  BY <1>3, PutsBackKeeps
<1>4. CASE Enqueues
  <2> DEFINE r == written + 1
             q == Enqueued(r)
  <2>1. r \in Records /\ r = written + 1
    BY <1>4 DEF Enqueues
  <2> HIDE DEF r
  <2>2. q \in Seq(Records) /\ (~overlapped => Sorted(q, batch))
    BY <2>1, EnqueuedMoves, EnqueuedSorted DEF InOrder
  <2>3. \/ TurnOver("flush", q)
        \/ queue' = q /\ UNCHANGED <<pc, batch, overlapped>>
    BY <1>4 DEF Enqueues, r
  <2> HIDE DEF q
  <2>4. CASE TurnOver("flush", q)
    BY <2>2, <2>4, TurnOverKeeps DEF Loops
  <2>5. CASE queue' = q /\ UNCHANGED <<pc, batch, overlapped>>
    BY <2>2, <2>5 DEF Sizes, Alone, InOrder
  <2> QED BY <2>3, <2>4, <2>5
<1> QED BY <1>1, <1>2, <1>3, <1>4 DEF Shape


-----------------------------------------------------------------------------
(* How much the loops hold. *)
LEMMA RangeSize ==
  ASSUME NEW S, NEW q \in Seq(S)
  PROVE  IsFiniteSet(Range(q)) /\ Cardinality(Range(q)) <= Len(q)
<1>1. /\ Len(q) \in Nat /\ Range(q) = {q[i] : i \in 1..Len(q)}
      /\ q \in [1..Len(q) -> Range(q)]
  BY RangeEquality, LenProperties
<1>2. q \in Surjection(1..Len(q), Range(q))
  BY <1>1 DEF Surjection
<1>3. IsFiniteSet(1..Len(q)) /\ Cardinality(1..Len(q)) = Len(q)
  BY <1>1, FS_Interval
<1> QED BY <1>2, <1>3, FS_Surjection

(* The loops in S hold at most BatchSize records each. *)
LEMMA LoopsHold ==
  ASSUME Sizes, batch \in Batches, NEW S \in SUBSET Loops, IsFiniteSet(S)
  PROVE  LET U == UNION {Range(batch[l]) : l \in S}
         IN  IsFiniteSet(U) /\ Cardinality(U) <= BatchSize * Cardinality(S)
<1> DEFINE U == UNION {Range(batch[l]) : l \in S}
           P == S \X (1..BatchSize)
<1>0. BatchSize \in Nat /\ Cardinality(S) \in Nat
  BY LimitsAssumption, FS_CardinalityType
<1>1. IsFiniteSet(P) /\ Cardinality(P) = BatchSize * Cardinality(S)
  <2>1. IsFiniteSet(1..BatchSize) /\ Cardinality(1..BatchSize) = BatchSize
    BY <1>0, FS_Interval
  <2>2. IsFiniteSet(P) /\ Cardinality(P) = Cardinality(S) * BatchSize
    BY <2>1, FS_Product
  <2>3. Cardinality(S) * BatchSize = BatchSize * Cardinality(S)
    BY <1>0
  <2> QED BY <2>2, <2>3
<1>2. CASE U = {}
  <2>1. IsFiniteSet({}) /\ Cardinality({}) = 0 /\ Cardinality(P) \in Nat
    BY <1>1, FS_EmptySet, FS_CardinalityType
  <2> HIDE DEF U, P
  <2>2. IsFiniteSet(U) /\ Cardinality(U) <= Cardinality(P)
    BY <1>2, <2>1
  <2> QED BY <1>1, <2>2 DEF U
<1>3. CASE U # {}
  <2>1. PICK u \in U : TRUE
    BY <1>3
  <2> DEFINE f == [p \in P |-> IF p[2] \in DOMAIN batch[p[1]] THEN batch[p[1]][p[2]] ELSE u]
  <2>2. \A l \in S : /\ batch[l] \in Seq(Records)
                     /\ DOMAIN batch[l] = 1..Len(batch[l])
                     /\ Len(batch[l]) \in Nat /\ Len(batch[l]) <= BatchSize
                     /\ Range(batch[l]) = {batch[l][i] : i \in 1..Len(batch[l])}
    BY RangeEquality, LenProperties DEF Batches, Sizes
  <2>3. f \in [P -> U]
    <3> SUFFICES ASSUME NEW p \in P, p[2] \in DOMAIN batch[p[1]]
                 PROVE  batch[p[1]][p[2]] \in U
      OBVIOUS
    <3>1. p[1] \in S /\ batch[p[1]][p[2]] \in Range(batch[p[1]])
      BY <2>2
    <3> QED BY <3>1
  <2>4. \A y \in U : \E p \in P : f[p] = y
    <3> SUFFICES ASSUME NEW y \in U PROVE \E p \in P : f[p] = y
      OBVIOUS
    <3>1. PICK l \in S : y \in Range(batch[l])
      OBVIOUS
    <3>2. PICK i \in 1..Len(batch[l]) : y = batch[l][i]
      BY <2>2, <3>1
    <3>3. i \in 1..BatchSize /\ i \in DOMAIN batch[l]
      BY <1>0, <2>2
    <3>4. <<l, i>> \in P /\ f[<<l, i>>] = y
      BY <3>2, <3>3
    <3> QED BY <3>4
  <2>5. f \in Surjection(P, U)
    BY <2>3, <2>4 DEF Surjection
  <2> HIDE DEF f, P, U
  <2>6. IsFiniteSet(U) /\ Cardinality(U) <= Cardinality(P)
    BY <1>1, <2>5, FS_Surjection
  <2> QED BY <1>1, <2>6 DEF U
<1> QED BY <1>2, <1>3

(* While records are accepted close() has no loop of its own. *)
CloseWaits == accepting => pc["close"] = "idle"

OthersThanClose == Cardinality(Loops \ {"close"})

LEMMA ManyLoops ==
  /\ IsFiniteSet(Loops \ {"close"})
  /\ OthersThanClose \in Nat /\ OthersThanClose >= 1
<1>1. Loops \ {"close"} = Exits \cup {"flush"}
  BY ExitsAssumption DEF Loops
<1>2. IsFiniteSet(Exits) /\ "flush" \notin Exits
  BY ExitsAssumption
<1>3. IsFiniteSet(Exits \cup {"flush"}) /\ Cardinality(Exits \cup {"flush"}) = Cardinality(Exits) + 1
  BY <1>2, FS_AddElement
<1>4. Cardinality(Exits) \in Nat
  BY <1>2, FS_CardinalityType
<1>5. IsFiniteSet(Loops \ {"close"}) /\ OthersThanClose = Cardinality(Exits) + 1
  BY <1>1, <1>3 DEF OthersThanClose
<1> QED BY <1>4, <1>5

LEMMA AllowanceType == Allowance \in Nat
BY LimitsAssumption, ManyLoops DEF Allowance, OthersThanClose

LEMMA AllowanceGrows ==
  ASSUME overlapped => overlapped'
  PROVE  Allowance \in Nat /\ Allowance' \in Nat /\ Allowance <= Allowance'
<1> DEFINE many == MaxQueueSize + BatchSize * OthersThanClose
           one == MaxQueueSize + BatchSize * 1
<1>1. MaxQueueSize \in Nat /\ BatchSize \in Nat
  BY LimitsAssumption
<1>2. one \in Nat /\ many \in Nat /\ one <= many
  <2>1. PICK k \in Nat : OthersThanClose = k + 1
    <3>1. OthersThanClose - 1 \in Nat /\ OthersThanClose = (OthersThanClose - 1) + 1
      BY ManyLoops
    <3> QED BY <3>1
  <2>2. BatchSize * (k + 1) = BatchSize * k + BatchSize /\ BatchSize * k \in Nat
    BY <1>1
  <2> QED BY <1>1, <2>1, <2>2
<1>3. /\ Allowance = IF overlapped THEN many ELSE one
      /\ Allowance' = IF overlapped' THEN many ELSE one
  BY DEF Allowance, OthersThanClose
<1> QED BY <1>2, <1>3

(* While records are accepted, the requests hold what the bound allows. *)
LEMMA InFlightBounded ==
  ASSUME Inv, Sizes, Alone, CloseWaits, accepting
  PROVE  IsFiniteSet(InFlight) /\ MaxQueueSize + Cardinality(InFlight) <= Allowance
<1>1. /\ batch \in Batches /\ BatchWhilePosting /\ "close" \in Loops /\ "flush" \in Loops
      /\ MaxQueueSize \in Nat /\ BatchSize \in Nat
  BY InvParts, LimitsAssumption DEF Loops
<1>2. PICK S \in SUBSET Loops :
        /\ IsFiniteSet(S)
        /\ \A l \in Loops \ S : batch[l] = <<>>
        /\ Cardinality(S) = IF overlapped THEN OthersThanClose ELSE 1
  <2>1. CASE overlapped
    <3>1. batch["close"] = <<>>
      BY <1>1 DEF CloseWaits, BatchWhilePosting
    <3> DEFINE S == Loops \ {"close"}
    <3>2. S \in SUBSET Loops /\ IsFiniteSet(S) /\ Cardinality(S) = OthersThanClose
          /\ \A l \in Loops \ S : batch[l] = <<>>
      BY <3>1, ManyLoops DEF OthersThanClose
    <3> HIDE DEF S
    <3> QED BY <2>1, <3>2
  <2>2. CASE ~overlapped
    <3>1. PICK k \in Loops : \A l \in Loops \ {k} : batch[l] = <<>>
      <4>1. CASE \E k \in Loops : pc[k] = "posting"
        BY <1>1, <2>2, <4>1 DEF Alone, BatchWhilePosting
      <4>2. CASE ~ \E k \in Loops : pc[k] = "posting"
        BY <1>1, <4>2 DEF BatchWhilePosting
      <4> QED BY <4>1, <4>2
    <3>2. IsFiniteSet({k}) /\ Cardinality({k}) = 1
      BY FS_Singleton
    <3> QED BY <2>2, <3>1, <3>2
  <2> QED BY <2>1, <2>2
<1> DEFINE U == UNION {Range(batch[l]) : l \in S}
<1>3. InFlight = U
  BY <1>2, NothingSeq DEF InFlight
<1>4. IsFiniteSet(U) /\ Cardinality(U) <= BatchSize * Cardinality(S)
  BY <1>1, <1>2, LoopsHold
<1>5. Allowance = MaxQueueSize + BatchSize * Cardinality(S)
  BY <1>2 DEF Allowance, OthersThanClose
<1> HIDE DEF U
<1>6. Cardinality(U) \in Nat /\ Cardinality(S) \in Nat /\ BatchSize * Cardinality(S) \in Nat
  BY <1>1, <1>2, <1>4, FS_CardinalityType
<1> QED BY <1>1, <1>3, <1>4, <1>5, <1>6

Bounded == Cardinality(Pending) <= Allowance

LEMMA PendingFinite ==
  ASSUME Inv
  PROVE  IsFiniteSet(Pending) /\ Cardinality(Pending) \in Nat
<1>1. Pending \in SUBSET (1..MaxRecords)
  BY InvParts DEF Records
<1>2. IsFiniteSet(1..MaxRecords)
  BY LimitsAssumption, FS_Interval
<1> QED BY <1>1, <1>2, FS_Subset, FS_CardinalityType

(* Making room: an admission evicts exactly the head of a full queue. *)
LEMMA AdmissionBounded ==
  ASSUME Inv, Sizes, Alone, CloseWaits, Bounded, Enqueues, Admits
  PROVE  Cardinality(Pending') <= Allowance
<1>1. PICK evicted \in SUBSET Pending :
        /\ written' = written + 1 /\ written' \in Records
        /\ Pending' = (Pending \ evicted) \cup {written'}
        /\ dropped' = dropped \cup evicted
  BY DEF Admits
<1>2. /\ queue \in Seq(Records) /\ Pending = Held(queue, batch)
      /\ Pending \cap dropped = {} /\ Pending \subseteq 1..written /\ written \in Nat
      /\ written' \notin Pending
  BY <1>1, InvParts DEF Inv, Placed, Settled
<1>3. IsFiniteSet(Pending) /\ Cardinality(Pending) \in Nat
  BY PendingFinite
<1>4. Allowance \in Nat /\ MaxQueueSize \in Nat
  BY AllowanceType, LimitsAssumption
<1>5. CASE Full
  <2>1. queue # <<>>
    BY <1>2, <1>5, LimitsAssumption DEF Full
  <2>2. Head(queue) \in Pending
    BY <1>2, <2>1, TailSeq DEF Held
  <2>3. dropped \cup evicted = dropped \cup {Head(queue)}
    BY <1>1, <1>5 DEF Enqueues
  <2>4. evicted = {Head(queue)}
    BY <1>2, <2>2, <2>3
  <2> DEFINE h == Head(queue)
             T == Pending \ {h}
  <2>5. IsFiniteSet(T) /\ Cardinality(T) = Cardinality(Pending) - 1
    BY <1>3, <2>2, FS_RemoveElement
  <2>6. Cardinality(T \cup {written'}) = Cardinality(T) + 1
    BY <1>2, <2>5, FS_AddElement
  <2>7. Pending' = T \cup {written'}
    BY <1>1, <2>4
  <2> HIDE DEF T
  <2> QED BY <1>3, <1>4, <2>5, <2>6, <2>7 DEF Bounded
<1>6. CASE ~Full
  <2> DEFINE Q == Range(queue)
  <2>1. /\ IsFiniteSet(Q) /\ Cardinality(Q) <= Len(queue)
        /\ Len(queue) \in Nat /\ Len(queue) < MaxQueueSize
    BY <1>2, <1>4, <1>6, RangeSize, LenProperties DEF Full
  <2>2. IsFiniteSet(InFlight) /\ MaxQueueSize + Cardinality(InFlight) <= Allowance
    BY InFlightBounded DEF Enqueues
  <2>3. Pending = Q \cup InFlight
    BY <1>2 DEF Held, InFlight
  <2> HIDE DEF Q
  <2>4. /\ Cardinality(Q) \in Nat /\ Cardinality(InFlight) \in Nat
        /\ Cardinality(Q \cap InFlight) \in Nat
        /\ Cardinality(Pending) = Cardinality(Q) + Cardinality(InFlight) - Cardinality(Q \cap InFlight)
    BY <2>1, <2>2, <2>3, FS_Union, FS_CardinalityType, FS_Intersection
  <2>5. /\ IsFiniteSet(Pending \cup {written'})
        /\ Cardinality(Pending \cup {written'}) = Cardinality(Pending) + 1
    <3>1. PICK r : r = written'
      OBVIOUS
    <3>2. r \notin Pending
      BY <1>2, <3>1
    <3>3. /\ IsFiniteSet(Pending \cup {r})
          /\ Cardinality(Pending \cup {r}) = Cardinality(Pending) + 1
      BY <1>3, <3>2, FS_AddElement
    <3> QED BY <3>1, <3>3
  <2>6. Pending' \in SUBSET (Pending \cup {written'})
    BY <1>1
  <2>7. Cardinality(Pending') <= Cardinality(Pending \cup {written'}) /\ IsFiniteSet(Pending')
    BY <2>5, <2>6, FS_Subset
  <2>8. Cardinality(Pending') \in Nat
    BY <2>7, FS_CardinalityType
  <2> QED BY <1>3, <1>4, <2>1, <2>2, <2>4, <2>5, <2>7, <2>8
<1> QED BY <1>5, <1>6

LEMMA NextBounded ==
  ASSUME Inv, Sizes, Alone, CloseWaits, Bounded, [Next]_vars
  PROVE  Bounded'
<1>1. Shape /\ Moves /\ Inv'
  BY NextShape, NextStep, NextInv DEF Step
<1>3. overlapped => overlapped'
  BY <1>1 DEF Shape, Rests, TurnOver, Post, Halt, PutsBack, Enqueues
<1>4. Allowance \in Nat /\ Allowance' \in Nat /\ Allowance <= Allowance'
  BY <1>3, AllowanceGrows
<1>5. Cardinality(Pending') <= Allowance
  <2>1. CASE Admits
    <3>1. Enqueues
      <4>1. CASE Write
        BY <4>1, WriteShape
      <4>2. CASE WriteRefused
        <5>1. written + 1 \in dropped' /\ written' = written + 1 /\ Pending' = Pending
          BY <4>2 DEF WriteRefused, Pending
        <5>2. written' \in Pending' /\ Pending' \cap dropped' = {}
          BY <1>1, <2>1 DEF Admits, Inv, Placed, Settled
        <5> QED BY <5>1, <5>2
      <4>3. CASE UNCHANGED written
        BY <2>1, <4>3, InvParts DEF Admits
      <4>4. Write \/ WriteRefused \/ UNCHANGED written
        BY DEF Next, vars, Calls, Settles, FlushCall, CloseCall, ExitCall, TimerFires,
               DrainDelivers, DrainFails, FlushResolves, FlushRejects, Release,
               ExitResumes, ExitDelivers, ExitFails
      <4> QED BY <4>1, <4>2, <4>3, <4>4
    <3> QED BY <2>1, <3>1, AdmissionBounded
  <2>2. CASE Stays \/ Refuses \/ Delivers
    <3>1. Pending' \in SUBSET Pending
      BY <2>2 DEF Stays, Refuses, Delivers
    <3>2. Cardinality(Pending') <= Cardinality(Pending) /\ Cardinality(Pending') \in Nat
      BY <3>1, PendingFinite, FS_Subset, FS_CardinalityType
    <3> QED BY <1>4, <3>2, PendingFinite DEF Bounded
  <2> QED BY <1>1, <2>1, <2>2 DEF Moves
<1>6. Cardinality(Pending') \in Nat
  <2>1. Pending' \in SUBSET (1..MaxRecords) /\ IsFiniteSet(1..MaxRecords)
    <3>1. Pending' \subseteq 1..written' /\ written' \in 0..MaxRecords
      BY <1>1 DEF Inv, Placed, TypeOK
    <3>2. MaxRecords \in Nat
      BY LimitsAssumption
    <3>3. Pending' \subseteq 1..MaxRecords
      BY <3>1, <3>2
    <3>4. IsFiniteSet(1..MaxRecords)
      BY <3>2, FS_Interval
    <3> QED BY <3>3, <3>4
  <2> QED BY <2>1, FS_Subset, FS_CardinalityType
<1> QED BY <1>4, <1>5, <1>6 DEF Bounded

LEMMA NextCloseWaits == ASSUME Inv, CloseWaits, [Next]_vars PROVE CloseWaits'
<1>1. "close" \in ExitLoops /\ "close" \in Loops /\ "close" \notin Exits /\ "close" # "flush"
      /\ pc \in [Loops -> {"idle", "posting", "drained", "threw", "waiting", "resumed"}]
  BY ExitsAssumption, InvParts DEF ExitLoops, Loops, PcOK
<1> SUFFICES ASSUME accepting' PROVE pc'["close"] = "idle"
  BY DEF CloseWaits
<1>2. accepting
  BY DEF Next, vars, Calls, Settles, Write, WriteRefused, FlushCall, CloseCall, ExitCall,
         TimerFires, DrainDelivers, DrainFails, FlushResolves, FlushRejects, Release,
         ExitResumes, ExitDelivers, ExitFails
<1>3. pc["close"] = "idle"
  BY <1>2 DEF CloseWaits
<1>4. CASE Calls \/ TimerFires
  <2>1. CASE \E l \in Exits : ExitCall(l)
    BY <1>1, <1>3, <2>1 DEF ExitCall, ExitStart, ExitTurn, Post, Halt
  <2>2. CASE Write
    BY <1>1, <1>3, <2>2 DEF Write, Flush, DrainTurn, Post, Halt
  <2>3. CASE FlushCall \/ TimerFires
    BY <1>1, <1>3, <2>3 DEF FlushCall, TimerFires, Flush, DrainTurn, Post, Halt
  <2>4. CASE CloseCall
    BY <2>4 DEF CloseCall
  <2>5. CASE WriteRefused
    BY <1>3, <2>5 DEF WriteRefused
  <2> QED BY <1>4, <2>1, <2>2, <2>3, <2>4, <2>5 DEF Calls
<1>5. CASE Settles
  <2>1. CASE DrainDelivers \/ DrainFails
    BY <1>1, <1>3, <2>1 DEF DrainDelivers, DrainFails, DrainTurn, Post, Halt, Restore
  <2>2. CASE FlushResolves \/ FlushRejects
    BY <1>1, <1>3, <2>2 DEF FlushResolves, FlushRejects, Release
  <2>3. CASE \E l \in ExitLoops : ExitResumes(l) \/ ExitDelivers(l) \/ ExitFails(l)
    <3>1. PICK l \in ExitLoops : ExitResumes(l) \/ ExitDelivers(l) \/ ExitFails(l)
      BY <2>3
    <3>2. l # "close"
      BY <1>3, <3>1 DEF ExitResumes, ExitDelivers, ExitFails
    <3> QED BY <1>1, <1>3, <3>1, <3>2
            DEF ExitResumes, ExitDelivers, ExitFails, ExitTurn, Post, Halt, Restore, ExitLoops
  <2> QED BY <1>5, <2>1, <2>2, <2>3 DEF Settles
<1>6. CASE UNCHANGED vars
  BY <1>3, <1>6 DEF vars
<1> QED BY <1>4, <1>5, <1>6 DEF Next

-----------------------------------------------------------------------------
(* What makes QueueKept inductive. *)
QueueInv == Inv /\ Sizes /\ Alone /\ InOrder /\ CloseWaits /\ Bounded

LEMMA InitQueueInv == ASSUME Init PROVE QueueInv
<1>1. /\ Inv /\ queue = <<>> /\ accepting = TRUE
      /\ \A l \in Loops : batch[l] = <<>> /\ pc[l] = "idle"
      /\ "close" \in Loops
  BY InitInv DEF Init, Loops
<1>2. Sizes
  <2>1. Len(<<>>) <= BatchSize
    BY LimitsAssumption
  <2> QED BY <1>1, <2>1 DEF Sizes
<1>3. Alone /\ CloseWaits
  BY <1>1 DEF Alone, CloseWaits
<1>4. InOrder
  BY <1>1, NothingSeq, AscendingNothing DEF InOrder, Sorted, Before
<1>5. Bounded
  <2>1. Pending = {}
    BY <1>1, NothingSeq DEF Pending, Held
  <2>2. Cardinality({}) = 0 /\ Allowance \in Nat
    BY FS_EmptySet, AllowanceType
  <2> QED BY <2>1, <2>2 DEF Bounded
<1> QED BY <1>1, <1>2, <1>3, <1>4, <1>5 DEF QueueInv

LEMMA NextQueueInv == ASSUME QueueInv, [Next]_vars PROVE QueueInv'
<1>1. Sizes' /\ Alone' /\ InOrder'
  BY NextShape, ShapeKeeps DEF QueueInv
<1> QED BY <1>1, NextInv, NextBounded, NextCloseWaits DEF QueueInv

(* The queue is kept in the order of the writes, whatever failed and was    *)
(* restored, until two loops overlap; and failures, overlapping loops and   *)
(* overflow together hold no more than the allowance: maxQueueSize and one  *)
(* batch for each loop that may run (557, 607 against 376).                 *)
THEOREM QueueKeptHolds == Spec => []QueueKept
<1>1. Init => QueueInv
  BY InitQueueInv
<1>2. QueueInv /\ [Next]_vars => QueueInv'
  BY NextQueueInv
<1>3. QueueInv => QueueKept
  <2> SUFFICES ASSUME QueueInv PROVE QueueKept
    OBVIOUS
  <2>1. OrderKept
    <3> SUFFICES ASSUME ~overlapped, NEW l \in Loops PROVE Ascending(batch[l] \o queue)
      BY DEF OrderKept
    <3>1. queue \in Seq(Records) /\ batch[l] \in Seq(Records)
      BY InvParts DEF QueueInv, Batches
    <3> QED BY <3>1, AscendingJoin DEF QueueInv, InOrder, Sorted
  <2>2. OverflowBounded
    BY DEF QueueInv, Bounded, Pending, Held, InFlight, OverflowBounded
  <2> QED BY <2>1, <2>2 DEF QueueKept
<1> QED BY <1>1, <1>2, <1>3, PTL DEF Spec
===============================================================================
