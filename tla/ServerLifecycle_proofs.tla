------------------------ MODULE ServerLifecycle_proofs ------------------------
(***************************************************************************)
(* Theorems about ServerLifecycle, the instance L of MCShutdown, for any   *)
(* set of servers and any settings of stdin. Inv is inductive: it says who *)
(* may hold the deadline and the listeners in each phase (Deadlines), and  *)
(* what each phase knows of the calls made so far (Called).                *)
(***************************************************************************)
EXTENDS MCShutdown, SequenceTheorems, TLAPS

Hooks == {"before", "close", "flush", "after", "force"}

Types ==
  /\ stage \in {"running", "draining", "forced", "closed"}
  /\ graceful \in {"none", "before", "closing", "flushing", "after", "done"}
  /\ forcing \in {"none", "hook", "flushing", "done"}
  /\ flushPromise \in {"none", "pending", "settled"}
  /\ server \in [Servers -> {"listening", "closing", "closed", "failed"}]
  /\ timeout \in BOOLEAN /\ signals \in BOOLEAN
  /\ eofArmed \in BOOLEAN /\ eofListening \in BOOLEAN /\ eof \in BOOLEAN
  /\ disposedOf \in BOOLEAN /\ resolved \in BOOLEAN /\ early \in BOOLEAN
  /\ called \in Seq(Hooks)

(* Who has the deadline, and what cleanup() took away. Before the end only  *)
(* dispose() has called it.                                                 *)
Deadlines ==
  /\ DeadlineKept
  /\ stage = "running" => ~timeout
  /\ stage \in {"running", "draining"} => ~resolved
  /\ disposedOf => ~signals
  /\ disposedOf /\ ~resolved => early
  /\ resolved => disposedOf

Distinct(s) == \A i, j \in 1..Len(s) : s[i] = s[j] => i = j
Has(s, x) == \E i \in 1..Len(s) : s[i] = x

(* The calls of a graceful sequence so far. *)
B == <<"before">>
BC == <<"before", "close">>
BCF == <<"before", "close", "flush">>
BCFA == <<"before", "close", "flush", "after">>

(* What the calls were, as far as each phase can tell. Until it is forced   *)
(* the graceful sequence is the only one that calls.                        *)
Called ==
  /\ stage = "running" => graceful = "none" /\ flushPromise = "none" /\ called = <<>>
  /\ stage = "draining" =>
       \/ graceful = "before" /\ flushPromise = "none" /\ called = B
       \/ graceful = "closing" /\ flushPromise = "none" /\ called = BC
       \/ /\ graceful = "flushing" /\ flushPromise # "none"
          /\ called = BCF
          /\ \A s \in Servers : server[s] = "closed"
       \/ /\ graceful = "after" /\ flushPromise # "none"
          /\ called = BCFA
          /\ \A s \in Servers : server[s] = "closed"
  /\ stage = "forced" <=> forcing # "none"
  /\ stage = "forced" => Distinct(called) /\ (Has(called, "flush") <=> flushPromise # "none")
  /\ forcing \in {"flushing", "done"} => flushPromise # "none"
  /\ stage = "forced" /\ resolved <=> forcing = "done"
  /\ stage = "closed" => graceful = "done" /\ resolved /\ flushPromise # "none"
  /\ L!ClosedIsGraceful

Inv == Types /\ Deadlines /\ Called

-----------------------------------------------------------------------------
(* Adding a call that was not made yet keeps calls distinct. *)
LEMMA AppendsNew ==
  ASSUME NEW s \in Seq(Hooks), NEW x \in Hooks, Distinct(s), ~Has(s, x)
  PROVE  /\ Distinct(Append(s, x)) /\ Has(Append(s, x), x)
         /\ \A y \in Hooks \ {x} : Has(Append(s, x), y) <=> Has(s, y)
BY DEF Distinct, Has

LEMMA InitInv == L!Init => Inv
<1> SUFFICES ASSUME L!Init PROVE Inv
  OBVIOUS
<1>1. Types
  <2>1. server \in [Servers -> {"listening", "closing", "closed", "failed"}]
    BY DEF L!Init
  <2>2. called \in Seq(Hooks)
    BY DEF L!Init
  <2> QED BY <2>1, <2>2 DEF L!Init, Types
<1>2. Deadlines
  BY DEF L!Init, Deadlines, DeadlineKept, L!DeadlineKept
<1>3. Called
  BY DEF L!Init, Called, L!ClosedIsGraceful
<1> QED BY <1>1, <1>2, <1>3 DEF Inv

(* What force() writes has its type. *)
LEMMA ForceTypes ==
  ASSUME Types, L!BeginForce
  PROVE  /\ stage' = "forced" /\ forcing' = "hook" /\ flushPromise' \in {"none", "pending", "settled"}
         /\ server' \in [Servers -> {"listening", "closing", "closed", "failed"}]
         /\ timeout' \in BOOLEAN /\ signals' \in BOOLEAN
         /\ eofArmed' \in BOOLEAN /\ eofListening' \in BOOLEAN
         /\ disposedOf' \in BOOLEAN /\ resolved' \in BOOLEAN /\ early' \in BOOLEAN
         /\ called' \in Seq(Hooks)
<1>1. Append(called, "force") \in Seq(Hooks)
  BY DEF Types, Hooks
<1>2. L!ClosingAll \in [Servers -> {"listening", "closing", "closed", "failed"}]
  BY DEF Types, L!ClosingAll
<1> QED BY <1>1, <1>2 DEF L!BeginForce, Types

LEMMA StepTypes == ASSUME Inv, [L!Next]_(L!vars) PROVE Types'
<1> USE DEF Inv, Types
<1>0. ASSUME NEW x \in Hooks PROVE Append(called, x) \in Seq(Hooks)
  OBVIOUS
<1>a. {"before", "flush", "close", "after"} \subseteq Hooks
  BY DEF Hooks
<1>b. ASSUME NEW sigint, L!Escalate(sigint), UNCHANGED eof PROVE Types'
  <2>1. CASE L!BeginGraceful(sigint)
    <3>1. called' \in Seq(Hooks)
      BY <2>1, <1>0, <1>a DEF L!BeginGraceful
    <3>2. eofArmed' \in BOOLEAN /\ eofListening' \in BOOLEAN
      BY <2>1 DEF L!BeginGraceful
    <3> QED BY <1>b, <2>1, <3>1, <3>2 DEF L!BeginGraceful
  <2>2. CASE L!BeginForce /\ UNCHANGED graceful
    BY <1>b, <2>2, ForceTypes
  <2> QED BY <1>b, <2>1, <2>2 DEF L!Escalate
<1>1. ASSUME NEW sigint \in BOOLEAN, L!Signal(sigint) PROVE Types'
  BY <1>1, <1>b DEF L!Signal
<1>2. ASSUME NEW sigint \in BOOLEAN, L!RequestGraceful(sigint) PROVE Types'
  BY <1>2, <1>b DEF L!RequestGraceful
<1>3. CASE L!StdinEnd
  BY <1>3, ForceTypes DEF L!StdinEnd
<1>4. CASE L!ForceCall
  BY <1>4, ForceTypes DEF L!ForceCall
<1>5. CASE L!TimeoutFires
  <2>1. CASE stage = "draining"
    BY <1>5, <2>1, ForceTypes DEF L!TimeoutFires
  <2>2. CASE stage # "draining"
    <3>1. UNCHANGED <<stage, graceful, forcing, flushPromise, server, signals, eofArmed, eofListening,
                      eof, disposedOf, resolved, early, called>>
      BY <1>5, <2>2, Zenon DEF L!TimeoutFires
    <3>2. timeout' \in BOOLEAN
      BY <1>5, <2>2 DEF L!TimeoutFires
    <3> QED BY <3>1, <3>2
  <2> QED BY <2>1, <2>2
<1>6. CASE L!Dispose
  <2>1. /\ disposedOf' = TRUE /\ timeout' = FALSE /\ signals' = FALSE
        /\ eofListening' = FALSE /\ early' = TRUE
    BY <1>6 DEF L!Dispose, L!Cleanup
  <2>2. UNCHANGED <<stage, graceful, forcing, flushPromise, server, eofArmed, eof,
                    resolved, called>>
    BY <1>6 DEF L!Dispose
  <2> QED BY <2>1, <2>2
<1>7. CASE L!BeforeEnds
  BY <1>7, <1>0, <1>a DEF L!BeforeEnds, L!GiveUp, L!ClosingAll
<1>8. CASE L!ServersClosed
  BY <1>8, <1>0, <1>a, ForceTypes DEF L!ServersClosed, L!GiveUp, L!FlushOnce
<1>9. CASE L!FlushSettles
  BY <1>9 DEF L!FlushSettles
<1>10. CASE L!GracefulFlushed
  BY <1>10, <1>0, <1>a DEF L!GracefulFlushed, L!GiveUp
<1>11. CASE L!AfterEnds
  <2>1. CASE stage = "draining"
    BY <1>11, <2>1 DEF L!AfterEnds, L!Finish, L!Cleanup
  <2>2. CASE stage # "draining"
    BY <1>11, <2>2 DEF L!AfterEnds, L!GiveUp
  <2> QED BY <2>1, <2>2
<1>12. ASSUME NEW s \in Servers, L!ServerCloses(s) PROVE Types'
  BY <1>12 DEF L!ServerCloses
<1>13. CASE L!ForceHookOver
  BY <1>13, <1>0, <1>a DEF L!ForceHookOver, L!FlushOnce
<1>14. CASE L!ForceFlushOver
  BY <1>14 DEF L!ForceFlushOver, L!Finish, L!Cleanup
<1>15. CASE UNCHANGED L!vars
  BY <1>15 DEF L!vars
<1> QED
  BY <1>1, <1>2, <1>3, <1>4, <1>5, <1>6, <1>7, <1>8, <1>9, <1>10, <1>11, <1>12,
     <1>13, <1>14, <1>15 DEF L!Next, L!OtherStep

(* Neither a signal nor a request of the application moves a deadline wrongly. *)
LEMMA EscalateDeadlines ==
  ASSUME Inv, NEW sigint \in BOOLEAN, L!Escalate(sigint)
  PROVE  Deadlines'
<1>1. CASE L!BeginGraceful(sigint)
  BY <1>1 DEF Inv, Types, Deadlines, DeadlineKept, L!DeadlineKept, L!BeginGraceful
<1>2. CASE L!BeginForce
  BY <1>2 DEF Inv, Types, Deadlines, DeadlineKept, L!DeadlineKept, L!BeginForce
<1> QED BY <1>1, <1>2 DEF L!Escalate

LEMMA StepDeadlines == ASSUME Inv, [L!Next]_(L!vars) PROVE Deadlines'
<1> USE DEF Inv, Types, Deadlines, DeadlineKept, L!DeadlineKept
<1>1. ASSUME NEW sigint \in BOOLEAN, L!Signal(sigint) PROVE Deadlines'
  BY <1>1, EscalateDeadlines DEF L!Signal
<1>2. ASSUME NEW sigint \in BOOLEAN, L!RequestGraceful(sigint) PROVE Deadlines'
  BY <1>2, EscalateDeadlines DEF L!RequestGraceful
<1>3. CASE L!StdinEnd BY <1>3 DEF L!StdinEnd, L!BeginForce
<1>4. CASE L!ForceCall BY <1>4 DEF L!ForceCall, L!BeginForce
<1>5. CASE L!TimeoutFires BY <1>5 DEF L!TimeoutFires, L!BeginForce
<1>6. CASE L!Dispose BY <1>6 DEF L!Dispose, L!Cleanup
<1>7. CASE L!BeforeEnds BY <1>7 DEF L!BeforeEnds, L!GiveUp
<1>8. CASE L!ServersClosed BY <1>8 DEF L!ServersClosed, L!GiveUp, L!BeginForce
<1>9. CASE L!FlushSettles BY <1>9 DEF L!FlushSettles
<1>10. CASE L!GracefulFlushed BY <1>10 DEF L!GracefulFlushed, L!GiveUp
<1>11. CASE L!AfterEnds BY <1>11 DEF L!AfterEnds, L!GiveUp, L!Finish, L!Cleanup
<1>12. ASSUME NEW s \in Servers, L!ServerCloses(s) PROVE Deadlines'
  BY <1>12 DEF L!ServerCloses
<1>13. CASE L!ForceHookOver BY <1>13 DEF L!ForceHookOver
<1>14. CASE L!ForceFlushOver BY <1>14 DEF L!ForceFlushOver, L!Finish, L!Cleanup, Called
<1>15. CASE UNCHANGED L!vars BY <1>15 DEF L!vars
<1> QED
  BY <1>1, <1>2, <1>3, <1>4, <1>5, <1>6, <1>7, <1>8, <1>9, <1>10, <1>11, <1>12,
     <1>13, <1>14, <1>15 DEF L!Next, L!OtherStep

-----------------------------------------------------------------------------
(* What makes a sequence one call longer than another. *)
LEMMA Longer ==
  ASSUME NEW s \in Seq(Hooks), NEW t \in Seq(Hooks), NEW x \in Hooks,
         Len(t) = Len(s) + 1, t[Len(t)] = x, \A i \in 1..Len(s) : t[i] = s[i]
  PROVE  Append(s, x) = t
<1>1. /\ Append(s, x) \in Seq(Hooks) /\ Len(Append(s, x)) = Len(t)
      /\ \A i \in 1..Len(t) : Append(s, x)[i] = t[i]
  BY AppendProperties
<1> QED BY <1>1, SeqEqual

(* The histories of the graceful sequence, one call longer each time. *)
LEMMA Histories ==
  /\ Append(<<>>, "before") = B
  /\ Append(B, "close") = BC
  /\ Append(BC, "flush") = BCF
  /\ Append(BCF, "after") = BCFA
<1>1. Append(<<>>, "before") = B
  BY DEF B
<1>2. Append(B, "close") = BC
  <2>1. B \in Seq(Hooks) /\ BC \in Seq(Hooks) /\ "close" \in Hooks
    BY DEF B, BC, Hooks
  <2>2. Len(BC) = Len(B) + 1 /\ BC[Len(BC)] = "close"
    BY DEF B, BC
  <2>3. \A i \in 1..Len(B) : BC[i] = B[i]
    BY DEF B, BC
  <2> QED BY <2>1, <2>2, <2>3, Longer, Zenon
<1>3. Append(BC, "flush") = BCF
  <2>1. BC \in Seq(Hooks) /\ BCF \in Seq(Hooks) /\ "flush" \in Hooks
    BY DEF BC, BCF, Hooks
  <2>2. Len(BCF) = Len(BC) + 1 /\ BCF[Len(BCF)] = "flush"
    BY DEF BC, BCF
  <2>3. \A i \in 1..Len(BC) : BCF[i] = BC[i]
    BY DEF BC, BCF
  <2> QED BY <2>1, <2>2, <2>3, Longer, Zenon
<1>4. Append(BCF, "after") = BCFA
  <2>1. BCF \in Seq(Hooks) /\ BCFA \in Seq(Hooks) /\ "after" \in Hooks
    BY DEF BCF, BCFA, Hooks
  <2>2. Len(BCFA) = Len(BCF) + 1 /\ BCFA[Len(BCFA)] = "after"
    BY DEF BCF, BCFA
  <2>3. \A i \in 1..Len(BCF) : BCFA[i] = BCF[i]
    BY DEF BCF, BCFA
  <2> QED BY <2>1, <2>2, <2>3, Longer, Zenon
<1> QED BY <1>1, <1>2, <1>3, <1>4

LEMMA HistoriesDistinct ==
  \A g \in {<<>>, B, BC, BCF, BCFA} :
    /\ g \in Seq(Hooks) /\ Distinct(g) /\ ~Has(g, "force")
    /\ Has(g, "flush") <=> g \in {BCF, BCFA}
<1>1. <<>> \in Seq(Hooks) /\ Distinct(<<>>) /\ ~Has(<<>>, "force") /\ ~Has(<<>>, "flush")
  BY DEF Distinct, Has
<1>2. B \in Seq(Hooks) /\ Distinct(B) /\ ~Has(B, "force") /\ ~Has(B, "flush")
  BY DEF Distinct, Has, B, Hooks
<1>3. BC \in Seq(Hooks) /\ Distinct(BC) /\ ~Has(BC, "force") /\ ~Has(BC, "flush")
  BY DEF Distinct, Has, BC, Hooks
<1>4. BCF \in Seq(Hooks) /\ Distinct(BCF) /\ ~Has(BCF, "force") /\ Has(BCF, "flush")
  BY DEF Distinct, Has, BCF, Hooks
<1>5. BCFA \in Seq(Hooks) /\ Distinct(BCFA) /\ ~Has(BCFA, "force") /\ Has(BCFA, "flush")
  BY DEF Distinct, Has, BCFA, Hooks
<1> QED BY <1>1, <1>2, <1>3, <1>4, <1>5

-----------------------------------------------------------------------------
LEMMA ForceCalled == ASSUME Inv, L!BeginForce PROVE Called'
<1> USE DEF Inv, Called, L!BeginForce
<1>1. called \in {<<>>, B, BC, BCF, BCFA} /\ (Has(called, "flush") <=> flushPromise # "none")
  <2>1. CASE stage = "running"
    BY <2>1, HistoriesDistinct DEF BCF, BCFA
  <2>2. CASE stage = "draining" /\ called \in {B, BC}
    BY <2>2, HistoriesDistinct DEF B, BC, BCF, BCFA
  <2>3. CASE stage = "draining" /\ called \in {BCF, BCFA}
    BY <2>3, HistoriesDistinct DEF B, BC, BCF, BCFA
  <2> QED BY <2>1, <2>2, <2>3
<1>2. /\ called \in Seq(Hooks) /\ Distinct(called) /\ ~Has(called, "force")
      /\ called' = Append(called, "force")
  BY <1>1, HistoriesDistinct
<1>3. Distinct(called') /\ (Has(called', "flush") <=> Has(called, "flush"))
  BY <1>2, AppendsNew DEF Hooks
<1>4. /\ stage' = "forced" /\ forcing' = "hook" /\ flushPromise' = flushPromise
      /\ ~resolved /\ resolved' = resolved
  BY DEF Deadlines
<1> QED BY <1>1, <1>3, <1>4 DEF L!ClosedIsGraceful

LEMMA FlushCalled ==
  ASSUME Inv, stage = "forced", L!FlushOnce
  PROVE  Distinct(called') /\ Has(called', "flush") /\ flushPromise' # "none"
<1>1. CASE flushPromise = "none"
  <2>1. called' = Append(called, "flush") /\ flushPromise' = "pending"
    BY <1>1 DEF L!FlushOnce
  <2>2. called \in Seq(Hooks) /\ "flush" \in Hooks /\ Distinct(called) /\ ~Has(called, "flush")
    BY <1>1 DEF Inv, Types, Called, Hooks
  <2> QED BY <2>1, <2>2, AppendsNew
<1>2. CASE flushPromise # "none"
  BY <1>2 DEF Inv, Called, L!FlushOnce
<1> QED BY <1>1, <1>2

(* A step of the graceful sequence that finds itself overtaken, or that     *)
(* changes nothing the histories speak of.                                  *)
LEMMA SameCalled ==
  ASSUME Inv, UNCHANGED <<stage, graceful, forcing, flushPromise, server, resolved, called>>
  PROVE  Called'
BY DEF Inv, Called, L!ClosedIsGraceful, Distinct, Has

LEMMA GiveUpCalled ==
  ASSUME Inv, stage # "draining", graceful # "none", L!GiveUp
  PROVE  Called'
BY DEF Inv, Called, L!ClosedIsGraceful, Distinct, Has, L!GiveUp

LEMMA EscalateCalled ==
  ASSUME Inv, NEW sigint, L!Escalate(sigint)
  PROVE  Called'
<1>1. CASE L!BeginGraceful(sigint)
  <2>1. /\ stage = "running" /\ stage' = "draining" /\ graceful' = "before"
        /\ flushPromise' = "none" /\ called' = B /\ forcing' = "none" /\ forcing = "none"
        /\ ~resolved /\ ~resolved'
    BY <1>1, Histories DEF L!BeginGraceful, Inv, Called, Deadlines, Types
  <2> QED BY <2>1 DEF Called, L!ClosedIsGraceful
<1>2. CASE L!BeginForce
  BY <1>2, ForceCalled
<1> QED BY <1>1, <1>2 DEF L!Escalate

LEMMA StepCalled == ASSUME Inv, [L!Next]_(L!vars) PROVE Called'
<1>1. ASSUME NEW sigint \in BOOLEAN, L!Signal(sigint) PROVE Called'
  BY <1>1, EscalateCalled DEF L!Signal
<1>2. ASSUME NEW sigint \in BOOLEAN, L!RequestGraceful(sigint) PROVE Called'
  BY <1>2, EscalateCalled DEF L!RequestGraceful
<1>3. CASE L!StdinEnd
  BY <1>3, ForceCalled, SameCalled DEF L!StdinEnd
<1>4. CASE L!ForceCall
  BY <1>4, ForceCalled DEF L!ForceCall
<1>5. CASE L!TimeoutFires
  BY <1>5, ForceCalled, SameCalled DEF L!TimeoutFires
<1>6. CASE L!Dispose
  BY <1>6, SameCalled DEF L!Dispose
<1>7. CASE L!BeforeEnds
  <2>1. CASE stage # "draining"
    BY <1>7, <2>1, GiveUpCalled DEF L!BeforeEnds
  <2>2. CASE stage = "draining"
    <3>1. /\ stage' = "draining" /\ graceful' = "closing" /\ flushPromise' = "none"
          /\ called' = BC /\ forcing' = "none" /\ ~resolved'
      BY <1>7, <2>2, Histories DEF L!BeforeEnds, Inv, Called, Deadlines
    <3> QED BY <3>1 DEF Called, L!ClosedIsGraceful
  <2> QED BY <2>1, <2>2
<1>8. CASE L!ServersClosed
  <2>1. CASE stage # "draining"
    BY <1>8, <2>1, GiveUpCalled DEF L!ServersClosed
  <2>2. CASE stage = "draining" /\ \E s \in Servers : server[s] = "failed"
    BY <1>8, <2>2, ForceCalled DEF L!ServersClosed
  <2>3. CASE stage = "draining" /\ ~ \E s \in Servers : server[s] = "failed"
    <3>1. /\ stage' = "draining" /\ graceful' = "flushing" /\ flushPromise' # "none"
          /\ called' = BCF /\ forcing' = "none" /\ ~resolved'
      BY <1>8, <2>3, Histories DEF L!ServersClosed, L!FlushOnce, Inv, Called, Deadlines
    <3>2. \A s \in Servers : server'[s] = "closed"
      BY <1>8, <2>3 DEF L!ServersClosed
    <3> QED BY <3>1, <3>2 DEF Called, L!ClosedIsGraceful
  <2> QED BY <2>1, <2>2, <2>3
<1>9. CASE L!FlushSettles
  <2>1. /\ UNCHANGED <<stage, graceful, forcing, server, resolved, called>>
        /\ flushPromise # "none" /\ flushPromise' # "none"
    BY <1>9 DEF L!FlushSettles
  <2> QED BY <2>1 DEF Inv, Called, L!ClosedIsGraceful, Distinct, Has
<1>10. CASE L!GracefulFlushed
  <2>1. CASE stage # "draining"
    BY <1>10, <2>1, GiveUpCalled DEF L!GracefulFlushed
  <2>2. CASE stage = "draining"
    <3>1. /\ stage' = "draining" /\ graceful' = "after" /\ flushPromise' # "none"
          /\ called' = BCFA /\ forcing' = "none" /\ ~resolved'
          /\ \A s \in Servers : server'[s] = "closed"
      BY <1>10, <2>2, Histories DEF L!GracefulFlushed, Inv, Called, Deadlines
    <3> QED BY <3>1 DEF Called, L!ClosedIsGraceful
  <2> QED BY <2>1, <2>2
<1>11. CASE L!AfterEnds
  <2>1. CASE stage # "draining"
    BY <1>11, <2>1, GiveUpCalled DEF L!AfterEnds
  <2>2. CASE stage = "draining"
    <3>1. /\ stage' = "closed" /\ graceful' = "done" /\ flushPromise' # "none" /\ resolved'
          /\ called' = BCFA /\ forcing' = "none"
          /\ \A s \in Servers : server'[s] = "closed"
      BY <1>11, <2>2 DEF L!AfterEnds, L!Finish, Inv, Called
    <3> QED BY <3>1 DEF Called, L!ClosedIsGraceful, BCFA
  <2> QED BY <2>1, <2>2
<1>12. ASSUME NEW s \in Servers, L!ServerCloses(s) PROVE Called'
  <2>1. \A r \in Servers : server[r] = "closed" => server'[r] = "closed"
    BY <1>12 DEF L!ServerCloses, Inv, Types
  <2>2. UNCHANGED <<stage, graceful, forcing, flushPromise, resolved, called>>
    BY <1>12 DEF L!ServerCloses
  <2> QED BY <2>1, <2>2 DEF Inv, Called, L!ClosedIsGraceful, Distinct, Has
<1>13. CASE L!ForceHookOver
  <2>1. /\ stage = "forced" /\ L!FlushOnce /\ forcing' = "flushing" /\ stage' = "forced"
        /\ ~resolved'
    BY <1>13 DEF L!ForceHookOver, Inv, Called, Types
  <2> QED BY <2>1, FlushCalled DEF Called, L!ClosedIsGraceful
<1>14. CASE L!ForceFlushOver
  <2>1. /\ stage = "forced" /\ stage' = "forced" /\ forcing' = "done" /\ resolved'
        /\ flushPromise # "none" /\ UNCHANGED <<called, flushPromise>>
    BY <1>14 DEF L!ForceFlushOver, L!Finish, Inv, Called
  <2> QED BY <2>1 DEF Inv, Called, L!ClosedIsGraceful, Distinct, Has
<1>15. CASE UNCHANGED L!vars
  BY <1>15, SameCalled DEF L!vars
<1> QED
  BY <1>1, <1>2, <1>3, <1>4, <1>5, <1>6, <1>7, <1>8, <1>9, <1>10, <1>11, <1>12,
     <1>13, <1>14, <1>15 DEF L!Next, L!OtherStep

-----------------------------------------------------------------------------
(* Whatever machine runs, the controller takes its own steps or none.       *)
LEMMA Controller == ShutdownSpec => L!Spec
<1>1. ShutdownInit => L!Init
  BY DEF ShutdownInit
<1>2. [ShutdownNext]_<<part, httpVars, lifecycleVars>> => [L!Next]_(L!vars)
  <2>1. UNCHANGED lifecycleVars => UNCHANGED L!vars
    BY DEF lifecycleVars, L!vars
  <2> QED BY <2>1 DEF ShutdownNext
<1> QED BY <1>1, <1>2, PTL DEF ShutdownSpec, L!Spec

LEMMA Invariance == ShutdownSpec => []Inv
<1>1. Inv /\ [L!Next]_(L!vars) => Inv'
  BY StepTypes, StepDeadlines, StepCalled DEF Inv
<1> QED BY <1>1, InitInv, Controller, PTL DEF L!Spec

(* Every variable stays within its type. *)
THEOREM TypeCorrect == ShutdownSpec => []Types
<1>1. Inv => Types
  BY DEF Inv
<1> QED BY <1>1, Invariance, PTL

(* 381-386, 422-487: who holds the graceful deadline, and that the end of a *)
(* shutdown leaves neither timer nor listener.                              *)
THEOREM DeadlineAlwaysKept == ShutdownSpec => []DeadlineKept
<1>1. Inv => DeadlineKept
  BY DEF Inv, Deadlines
<1> QED BY <1>1, Invariance, PTL

(* 404-415, 489-535: no race between the two sequences calls a hook twice,  *)
(* loses the flush, lets the overtaken sequence go on, or reports "closed"  *)
(* of a shutdown that was forced.                                           *)
THEOREM HooksRunOnce == ShutdownSpec => HooksOnce
<1> DEFINE Once == \A i, j \in 1..Len(called) : called[i] = called[j] => i = j
           Flushed == resolved => \E i \in 1..Len(called) : called[i] = "flush"
           Quiet == stage = "forced" => called' = called \/ called' = Append(called, "flush")
<1>1. Inv => Once
  <2> SUFFICES ASSUME Inv PROVE Distinct(called)
    BY DEF Distinct
  <2>1. CASE stage = "forced"
    BY <2>1 DEF Inv, Called
  <2>2. CASE stage # "forced"
    <3>1. called \in {<<>>, B, BC, BCF, BCFA}
      BY <2>2 DEF Inv, Types, Called, L!ClosedIsGraceful, BCFA
    <3> QED BY <3>1, HistoriesDistinct
  <2> QED BY <2>1, <2>2
<1>2. Inv => Flushed
  <2> SUFFICES ASSUME Inv, resolved PROVE Has(called, "flush")
    BY DEF Has
  <2>1. CASE stage = "forced"
    BY <2>1 DEF Inv, Called
  <2>2. CASE stage = "closed"
    <3>1. called = BCFA
      BY <2>2 DEF Inv, Called, L!ClosedIsGraceful, BCFA
    <3> QED BY <3>1, HistoriesDistinct
  <2> QED BY <2>1, <2>2 DEF Inv, Types, Deadlines
<1>3. Inv => L!ClosedIsGraceful
  BY DEF Inv, Called
<1>4. Inv /\ [L!Next]_(L!vars) => [Quiet]_(L!vars)
  <2> SUFFICES ASSUME Inv, [L!Next]_(L!vars), stage = "forced" PROVE
               called' = called \/ called' = Append(called, "flush")
    OBVIOUS
  <2> USE DEF L!BeginForce, L!BeginGraceful, L!GiveUp, L!FlushOnce, L!Finish
  <2>1. ASSUME NEW sigint \in BOOLEAN, L!Signal(sigint) \/ L!RequestGraceful(sigint)
        PROVE  called' = called
    BY <2>1 DEF L!Signal, L!RequestGraceful, L!Escalate
  <2>2. CASE L!StdinEnd \/ L!ForceCall \/ L!TimeoutFires
    BY <2>2 DEF L!StdinEnd, L!ForceCall, L!TimeoutFires
  <2>3. CASE L!Dispose
    BY <2>3 DEF L!Dispose
  <2>4. CASE L!BeforeEnds \/ L!ServersClosed \/ L!GracefulFlushed \/ L!AfterEnds
    BY <2>4 DEF L!BeforeEnds, L!ServersClosed, L!GracefulFlushed, L!AfterEnds
  <2>5. ASSUME L!FlushSettles \/ \E s \in Servers : L!ServerCloses(s) PROVE called' = called
    BY <2>5 DEF L!FlushSettles, L!ServerCloses
  <2>6. CASE L!ForceHookOver \/ L!ForceFlushOver
    BY <2>6 DEF L!ForceHookOver, L!ForceFlushOver
  <2>7. CASE UNCHANGED L!vars
    BY <2>7 DEF L!vars
  <2> QED BY <2>1, <2>2, <2>3, <2>4, <2>5, <2>6, <2>7 DEF L!Next, L!OtherStep
<1>5. ShutdownSpec => [][Quiet]_(L!vars)
  BY <1>4, Invariance, Controller, PTL DEF L!Spec
<1>6. ShutdownSpec => []Once /\ []Flushed /\ []L!ClosedIsGraceful
  BY <1>1, <1>2, <1>3, Invariance, PTL
<1> QED BY <1>5, <1>6 DEF HooksOnce, L!HooksOnce

(* The controller implements the two-phase contract: each of its turns is a *)
(* step of TwoPhaseShutdown or changes none of phase, forced, completed.    *)
THEOREM Refinement == ShutdownSpec => TwoPhaseSpec
<1>1. L!Init => L!TwoPhase!Init
  BY DEF L!Init, L!TwoPhase!Init
<1>2. Inv /\ [L!Next]_(L!vars) => [L!TwoPhase!Next]_(L!TwoPhase!vars)
  <2> SUFFICES ASSUME Inv, [L!Next]_(L!vars) PROVE [L!TwoPhase!Next]_(L!TwoPhase!vars)
    OBVIOUS
  <2>0. UNCHANGED <<stage, resolved>> => UNCHANGED L!TwoPhase!vars
    BY DEF L!TwoPhase!vars
  <2>a. ASSUME L!BeginForce PROVE L!TwoPhase!BeginForce
    BY <2>a DEF L!BeginForce, L!TwoPhase!BeginForce, Inv, Deadlines
  <2>b. ASSUME NEW sigint, L!BeginGraceful(sigint) PROVE L!TwoPhase!BeginDrain
    BY <2>b DEF L!BeginGraceful, L!TwoPhase!BeginDrain, Inv, Deadlines
  <2>1. ASSUME NEW sigint \in BOOLEAN, L!Signal(sigint) \/ L!RequestGraceful(sigint)
        PROVE  L!TwoPhase!Next
    BY <2>1, <2>a, <2>b DEF L!Signal, L!RequestGraceful, L!Escalate, L!TwoPhase!Next
  <2>2. CASE L!StdinEnd \/ L!ForceCall \/ L!TimeoutFires
    BY <2>2, <2>a, <2>0 DEF L!StdinEnd, L!ForceCall, L!TimeoutFires, L!TwoPhase!Next
  <2>3. CASE L!Dispose \/ L!BeforeEnds \/ L!FlushSettles \/ L!GracefulFlushed
    BY <2>3, <2>0 DEF L!Dispose, L!BeforeEnds, L!FlushSettles, L!GracefulFlushed, L!GiveUp
  <2>4. CASE L!ServersClosed
    BY <2>4, <2>a, <2>0 DEF L!ServersClosed, L!GiveUp, L!TwoPhase!Next
  <2>5. CASE L!AfterEnds
    <3>1. CASE stage # "draining"
      BY <2>5, <3>1, <2>0 DEF L!AfterEnds, L!GiveUp
    <3>2. CASE stage = "draining"
      BY <2>5, <3>2 DEF L!AfterEnds, L!Finish, Inv, Deadlines, L!TwoPhase!Next, L!TwoPhase!Stop
    <3> QED BY <3>1, <3>2
  <2>6. ASSUME NEW s \in Servers, L!ServerCloses(s) PROVE UNCHANGED L!TwoPhase!vars
    BY <2>6, <2>0 DEF L!ServerCloses
  <2>7. CASE L!ForceHookOver
    BY <2>7, <2>0 DEF L!ForceHookOver
  <2>8. CASE L!ForceFlushOver
    BY <2>8 DEF L!ForceFlushOver, L!Finish, Inv, Called, L!TwoPhase!Next, L!TwoPhase!Stop
  <2>9. CASE UNCHANGED L!vars
    BY <2>9, <2>0 DEF L!vars
  <2> QED
    BY <2>1, <2>2, <2>3, <2>4, <2>5, <2>6, <2>7, <2>8, <2>9 DEF L!Next, L!OtherStep
<1> QED BY <1>1, <1>2, Invariance, Controller, PTL
     DEF L!Spec, TwoPhaseSpec, L!TwoPhaseSpec, L!TwoPhase!Spec
=============================================================================
