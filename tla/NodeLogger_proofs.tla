--------------------------- MODULE NodeLogger_proofs ---------------------------
(***************************************************************************)
(* Theorems about LoggerDelivery and NodeLogger, for any number of events, *)
(* any transports and any calls that overlap.                              *)
(*                                                                         *)
(* The first part is about LoggerDelivery alone, the instance L. What a    *)
(* call is to cover was sent when it was called, and later events are      *)
(* others. So of what it is to cover less and less is on its way           *)
(* (Forward), and what one call has found out is not undone by the others  *)
(* (Undisturbed). CallOK says what a call has found out at each stage.     *)
(*                                                                         *)
(* The second part is about the process. What is proved of L carries over, *)
(* since the process only makes calls of it (Composition).                 *)
(***************************************************************************)
EXTENDS NodeLogger, TLAPS

DeliveryTypes ==
  /\ created \in Nat /\ 1..created \subseteq L!Events /\ unsent \subseteq 1..created
  /\ kind \in [Calls -> {"none", "flush", "recover", "exit", "close"}]
  /\ timed \in [Calls -> BOOLEAN]
  /\ stage \in [Calls -> {"none", "recovering", "settling", "flushing"}]
  /\ snapshot \in [Calls -> SUBSET L!Events]
  /\ flushing \in [Calls -> SUBSET Transports]
  /\ exiting \in [Calls -> SUBSET Transports]
  /\ result \in [Calls -> {"none", "waiting", "returned", "timedOut"}]
  /\ due \in [Calls -> SUBSET L!Events] /\ handed \in [Calls -> SUBSET L!Events]
  /\ before \in [Calls -> SUBSET L!Writes(L!Events)]

(* Only what was sent is on its way. *)
PendingSent == pending \subseteq L!Writes(L!Sent)

(* The events of S that are on their way. *)
Late(S) == {e \in S : \E t \in Transports : <<e, t>> \in pending}

CallOK(c) ==
  /\ kind[c] = "none" => stage[c] = "none" /\ result[c] = "none" /\ due[c] = {}
  /\ due[c] \subseteq L!Sent
  /\ stage[c] = "settling" => Late(due[c]) \subseteq snapshot[c]
  /\ stage[c] = "flushing" =>
       \A w \in L!Writes(due[c]) : w \in durable \/ (w \in before[c] /\ w[2] \in flushing[c])
  /\ result[c] = "returned" => L!Writes(due[c]) \subseteq durable
  /\ kind[c] \in {"exit", "close"} => Late(due[c]) \subseteq handed[c]

DeliveryInv == DeliveryTypes /\ PendingSent /\ \A c \in Calls : CallOK(c)

-----------------------------------------------------------------------------
(* What a step does to the events, seen from a call that waits. *)
Forward ==
  /\ L!Sent \subseteq L!Sent'
  /\ \A e \in L!Sent, t \in Transports : <<e, t>> \in pending' => <<e, t>> \in pending
  /\ durable \subseteq durable'

Same(c) ==
  /\ kind'[c] = kind[c] /\ stage'[c] = stage[c] /\ snapshot'[c] = snapshot[c]
  /\ flushing'[c] = flushing[c] /\ result'[c] = result[c]
  /\ due'[c] = due[c] /\ handed'[c] = handed[c] /\ before'[c] = before[c]

LEMMA Undisturbed ==
  ASSUME NEW c \in Calls, CallOK(c), Forward, Same(c)
  PROVE  CallOK(c)'
<1>1. Late(due[c])' \subseteq Late(due[c])
  BY DEF CallOK, Forward, Same, Late
<1> QED BY <1>1 DEF CallOK, Forward, Same, L!Writes

(* Sending events of S that were not sent keeps both. *)
LEMMA EmitForward ==
  ASSUME DeliveryInv, NEW S \in SUBSET unsent, L!Emit(S), created' = created, durable' = durable
  PROVE  Forward /\ PendingSent' /\ L!Sent' = L!Sent \cup S
<1>1. L!Sent' = L!Sent \cup S
  BY DEF L!Emit, L!Sent, DeliveryInv, DeliveryTypes
<1>2. ASSUME NEW e \in L!Sent, NEW t \in Transports, <<e, t>> \in pending'
      PROVE  <<e, t>> \in pending
  BY <1>2 DEF L!Emit, L!Sent, L!Writes
<1>3. PendingSent'
  BY <1>1 DEF DeliveryInv, PendingSent, L!Emit, L!Writes
<1> QED BY <1>1, <1>2, <1>3 DEF Forward

LEMMA DeliveryStarts == L!Init => DeliveryInv
<1> SUFFICES ASSUME L!Init PROVE DeliveryInv
  OBVIOUS
<1>1. DeliveryTypes
  BY DEF L!Init, DeliveryTypes
<1>2. PendingSent
  BY DEF L!Init, PendingSent
<1>3. \A c \in Calls : CallOK(c)
  BY DEF L!Init, CallOK, Late, L!Sent, L!Writes
<1> QED BY <1>1, <1>2, <1>3 DEF DeliveryInv

-----------------------------------------------------------------------------
(* One lemma for each action. An action of no call disturbs none. *)
LEMMA AllSame ==
  ASSUME DeliveryInv, Forward, UNCHANGED L!calls
  PROVE  \A c \in Calls : CallOK(c)'
<1> SUFFICES ASSUME NEW c \in Calls PROVE CallOK(c)'
  OBVIOUS
<1>1. Same(c)
  BY DEF L!calls, Same
<1> QED BY <1>1, Undisturbed DEF DeliveryInv

LEMMA CreateStep == ASSUME DeliveryInv, L!Create PROVE DeliveryInv'
<1>1. /\ created' \in Nat /\ created + 1 \notin 1..created
      /\ 1..created' = 1..created \cup {created + 1}
  BY DEF L!Create, DeliveryInv, DeliveryTypes
<1>2. L!Sent' = L!Sent
  BY <1>1 DEF L!Create, L!Sent, DeliveryInv, DeliveryTypes
<1>3. DeliveryTypes'
  BY <1>1 DEF L!Create, DeliveryInv, DeliveryTypes, L!calls
<1>4. Forward /\ PendingSent'
  BY <1>2 DEF L!Create, Forward, PendingSent, DeliveryInv
<1> QED BY <1>3, <1>4, AllSame DEF DeliveryInv, L!Create

LEMMA SendStep == ASSUME DeliveryInv, NEW e \in L!Events, L!Send(e) PROVE DeliveryInv'
<1>1. Forward /\ PendingSent'
  BY EmitForward DEF L!Send
<1>2. DeliveryTypes'
  BY DEF L!Send, L!Emit, DeliveryInv, DeliveryTypes, L!calls
<1> QED BY <1>1, <1>2, AllSame DEF DeliveryInv, L!Send

LEMMA WriteStep ==
  ASSUME DeliveryInv, NEW e \in L!Events, NEW t \in Transports, L!WriteSettles(e, t)
  PROVE  DeliveryInv'
<1>1. Forward /\ PendingSent'
  BY DEF L!WriteSettles, Forward, PendingSent, L!Sent, DeliveryInv
<1>2. DeliveryTypes'
  BY DEF L!WriteSettles, DeliveryInv, DeliveryTypes, L!calls
<1> QED BY <1>1, <1>2, AllSame DEF DeliveryInv, L!WriteSettles

LEMMA SentKnown ==
  DeliveryInv => L!Sent \subseteq L!Events /\ unsent \subseteq L!Events /\ L!Active \subseteq L!Sent
BY DEF DeliveryInv, DeliveryTypes, L!Sent, PendingSent, L!Active, L!Writes

LEMMA FlushStep ==
  ASSUME DeliveryInv, NEW c \in Calls, NEW recover \in BOOLEAN, NEW timeout \in BOOLEAN,
         L!FlushCall(c, recover, timeout)
  PROVE  DeliveryInv'
<1>1. Forward /\ PendingSent' /\ (recover => L!Sent' = 1..created) /\ (~recover => L!Sent' = L!Sent)
  <2>1. CASE recover
    <3>1. L!Emit(unsent) /\ created' = created /\ durable' = durable
      BY <2>1 DEF L!FlushCall
    <3>2. L!Sent \cup unsent = 1..created
      BY DEF L!Sent, DeliveryInv, DeliveryTypes
    <3> QED BY <2>1, <3>1, <3>2, EmitForward
  <2>2. CASE ~recover
    BY <2>2 DEF L!FlushCall, Forward, PendingSent, L!Sent, DeliveryInv
  <2> QED BY <2>1, <2>2
<1>2. DeliveryTypes'
  <2>1. created' = created /\ 1..created \subseteq L!Events /\ unsent' \subseteq unsent
    BY DEF L!FlushCall, L!Emit, DeliveryInv, DeliveryTypes
  <2>2. \A S \in {L!Sent, unsent, L!Active, 1..created} : S \subseteq L!Events
    BY <2>1, SentKnown
  <2>3. due' \in [Calls -> SUBSET L!Events] /\ snapshot' \in [Calls -> SUBSET L!Events]
    BY <2>2 DEF L!FlushCall, DeliveryInv, DeliveryTypes
  <2>4. stage' \in [Calls -> {"none", "recovering", "settling", "flushing"}]
    BY DEF L!FlushCall, DeliveryInv, DeliveryTypes
  <2>5. /\ kind' \in [Calls -> {"none", "flush", "recover", "exit", "close"}]
        /\ timed' \in [Calls -> BOOLEAN]
        /\ result' \in [Calls -> {"none", "waiting", "returned", "timedOut"}]
    BY DEF L!FlushCall, DeliveryInv, DeliveryTypes
  <2>6. created' \in Nat /\ 1..created' \subseteq L!Events /\ unsent' \subseteq 1..created'
    BY <2>1 DEF DeliveryInv, DeliveryTypes
  <2> QED BY <2>3, <2>4, <2>5, <2>6 DEF L!FlushCall, DeliveryInv, DeliveryTypes
<1>3. ASSUME NEW d \in Calls PROVE CallOK(d)'
  <2>1. CASE d # c
    <3>1. Same(d)
      BY <2>1 DEF L!FlushCall, Same, DeliveryInv, DeliveryTypes
    <3> QED BY <3>1, <1>1, Undisturbed DEF DeliveryInv
  <2>2. CASE d = c /\ recover
    <3>1. /\ kind'[c] = "recover" /\ stage'[c] = "recovering" /\ result'[c] = "waiting"
          /\ due'[c] = 1..created
      BY <2>2 DEF L!FlushCall, DeliveryInv, DeliveryTypes
    <3> QED BY <3>1, <2>2, <1>1 DEF CallOK
  <2>3. CASE d = c /\ ~recover
    <3>1. /\ kind'[c] = "flush" /\ stage'[c] = "settling" /\ result'[c] = "waiting"
          /\ due'[c] = L!Sent /\ snapshot'[c] = L!Active /\ pending' = pending
      BY <2>3 DEF L!FlushCall, DeliveryInv, DeliveryTypes
    <3>2. Late(due[c])' \subseteq L!Active
      BY <3>1, SentKnown DEF Late, L!Active
    <3> QED BY <3>1, <3>2, <2>3, <1>1 DEF CallOK
  <2> QED BY <2>1, <2>2, <2>3
<1> QED BY <1>1, <1>2, <1>3 DEF DeliveryInv

LEMMA ExitStep ==
  ASSUME DeliveryInv, NEW c \in Calls, NEW close \in BOOLEAN, NEW timeout \in BOOLEAN,
         L!ExitCall(c, close, timeout)
  PROVE  DeliveryInv'
<1>1. Forward /\ PendingSent' /\ L!Sent' = 1..created
  <2>1. L!Sent \cup unsent = 1..created
    BY DEF L!Sent, DeliveryInv, DeliveryTypes
  <2> QED BY <2>1, EmitForward DEF L!ExitCall
<1>2. DeliveryTypes'
  <2>1. created' = created /\ 1..created \subseteq L!Events /\ unsent' \subseteq unsent
    BY DEF L!ExitCall, L!Emit, DeliveryInv, DeliveryTypes
  <2>2. L!Active \cup unsent \subseteq L!Events
    BY SentKnown
  <2> QED BY <2>1, <2>2 DEF L!ExitCall, DeliveryInv, DeliveryTypes
<1>3. ASSUME NEW d \in Calls PROVE CallOK(d)'
  <2>1. CASE d # c
    <3>1. Same(d)
      BY <2>1 DEF L!ExitCall, Same, DeliveryInv, DeliveryTypes
    <3> QED BY <3>1, <1>1, Undisturbed DEF DeliveryInv
  <2>2. CASE d = c
    <3>1. /\ kind'[c] \in {"exit", "close"} /\ stage'[c] = "recovering"
          /\ result'[c] = "waiting" /\ due'[c] = 1..created /\ handed'[c] = L!Active \cup unsent
          /\ pending' = pending \cup L!Writes(unsent)
      BY DEF L!ExitCall, L!Emit, DeliveryInv, DeliveryTypes
    <3>2. Late(due[c])' \subseteq handed'[c]
      BY <3>1, SentKnown DEF Late, L!Active, L!Writes, DeliveryInv, PendingSent
    <3> QED BY <2>2, <3>1, <3>2, <1>1 DEF CallOK
  <2> QED BY <2>1, <2>2
<1> QED BY <1>1, <1>2, <1>3 DEF DeliveryInv

(* A continuation of call c, or a transport's answer to it, which leaves    *)
(* the events as they are, keeps Inv if it keeps what c knows.              *)
LEMMA OwnStep ==
  ASSUME DeliveryInv, DeliveryTypes', NEW c \in Calls, CallOK(c)',
         UNCHANGED <<created, unsent, pending>>, durable \subseteq durable',
         \A d \in Calls \ {c} : Same(d)
  PROVE  DeliveryInv'
<1>1. Forward /\ PendingSent'
  BY DEF Forward, PendingSent, L!Sent, DeliveryInv
<1>2. ASSUME NEW d \in Calls PROVE CallOK(d)'
  BY <1>1, Undisturbed DEF DeliveryInv
<1> QED BY <1>1, <1>2 DEF DeliveryInv

LEMMA RecoveredStep == ASSUME DeliveryInv, NEW c \in Calls, L!Recovered(c) PROVE DeliveryInv'
<1>1. DeliveryTypes'
  BY SentKnown DEF L!Recovered, DeliveryInv, DeliveryTypes
<1>2. Late(due[c])' \subseteq L!Active /\ snapshot'[c] = L!Active
  BY SentKnown DEF L!Recovered, Late, L!Active, CallOK, DeliveryInv, DeliveryTypes
<1>3. /\ stage'[c] = "settling" /\ stage[c] = "recovering"
      /\ UNCHANGED <<kind, due, result, handed, durable, pending>> /\ L!Sent' = L!Sent
  BY DEF L!Recovered, DeliveryInv, DeliveryTypes, L!Sent
<1>4. CallOK(c)'
  BY <1>2, <1>3 DEF CallOK, DeliveryInv, Late, L!Writes
<1>5. \A d \in Calls \ {c} : Same(d)
  BY DEF L!Recovered, Same, DeliveryInv, DeliveryTypes
<1> QED BY <1>1, <1>4, <1>5, OwnStep DEF L!Recovered

LEMMA SettledStep == ASSUME DeliveryInv, NEW c \in Calls, L!TasksSettled(c) PROVE DeliveryInv'
<1>0. L!Written \subseteq L!Writes(L!Events)
  BY SentKnown DEF L!Written, L!Writes
<1>1. DeliveryTypes'
  BY <1>0 DEF L!TasksSettled, DeliveryInv, DeliveryTypes
<1>2. /\ stage'[c] = "flushing" /\ stage[c] = "settling" /\ flushing'[c] = Transports
      /\ before'[c] = L!Written
      /\ UNCHANGED <<kind, due, result, handed, durable, pending>> /\ L!Sent' = L!Sent
  BY DEF L!TasksSettled, DeliveryInv, DeliveryTypes, L!Sent
<1>3. Late(due[c]) = {}
  BY SentKnown, <1>2 DEF L!TasksSettled, L!SnapshotSettled, Late, L!Active, CallOK, DeliveryInv
<1>4. L!Writes(due[c]) \subseteq L!Written
  BY <1>3 DEF L!Written, L!Writes, Late, CallOK, DeliveryInv
<1>5. CallOK(c)'
  BY <1>2, <1>4 DEF CallOK, DeliveryInv, Late, L!Writes
<1>6. \A d \in Calls \ {c} : Same(d)
  BY DEF L!TasksSettled, Same, DeliveryInv, DeliveryTypes
<1> QED BY <1>1, <1>5, <1>6, OwnStep DEF L!TasksSettled

LEMMA FlushedStep ==
  ASSUME DeliveryInv, NEW c \in Calls, NEW t \in Transports, L!TransportFlushed(c, t)
  PROVE  DeliveryInv'
<1>1. DeliveryTypes'
  BY DEF L!TransportFlushed, DeliveryInv, DeliveryTypes
<1>2. /\ flushing'[c] = flushing[c] \ {t} /\ before'[c] = {w \in before[c] : w[2] # t}
      /\ durable' = durable \cup {w \in before[c] : w[2] = t}
      /\ UNCHANGED <<kind, due, stage, snapshot, result, handed, pending>> /\ L!Sent' = L!Sent
  BY DEF L!TransportFlushed, DeliveryInv, DeliveryTypes, L!Sent
<1>3. CallOK(c)'
  BY <1>2 DEF CallOK, DeliveryInv, Late, L!Writes
<1>4. \A d \in Calls \ {c} : Same(d)
  BY DEF L!TransportFlushed, Same, DeliveryInv, DeliveryTypes
<1> QED BY <1>1, <1>2, <1>3, <1>4, OwnStep DEF L!TransportFlushed

LEMMA ExitedStep ==
  ASSUME DeliveryInv, NEW c \in Calls, NEW t \in Transports, L!TransportExited(c, t)
  PROVE  DeliveryInv'
<1>1. DeliveryTypes'
  BY DEF L!TransportExited, DeliveryInv, DeliveryTypes
<1>2. \A d \in Calls : Same(d)
  BY DEF L!TransportExited, Same
<1>3. CallOK(c)'
  BY <1>2, Undisturbed DEF L!TransportExited, Forward, L!Sent, DeliveryInv
<1> QED BY <1>1, <1>2, <1>3, OwnStep DEF L!TransportExited

LEMMA EndsStep ==
  ASSUME DeliveryInv, NEW c \in Calls, L!Returns(c) \/ L!TimesOut(c)
  PROVE  DeliveryInv'
<1>1. PICK o \in {"returned", "timedOut"} : L!Ends(c, o) /\ (o = "returned" => L!WorkOver(c))
  BY DEF L!Returns, L!TimesOut
<1>2. DeliveryTypes'
  BY <1>1 DEF L!Ends, DeliveryInv, DeliveryTypes
<1>3. /\ result'[c] = o /\ kind[c] # "none"
      /\ UNCHANGED <<kind, due, stage, snapshot, flushing, handed, before, durable, pending>>
      /\ L!Sent' = L!Sent
  BY <1>1 DEF L!Ends, DeliveryInv, DeliveryTypes, L!Sent, CallOK
<1>4. o = "returned" => L!Writes(due[c]) \subseteq durable
  BY <1>1 DEF L!WorkOver, CallOK, DeliveryInv
<1>5. CallOK(c)'
  BY <1>3, <1>4 DEF CallOK, DeliveryInv, Late, L!Writes
<1>6. \A d \in Calls \ {c} : Same(d)
  BY <1>1 DEF L!Ends, Same, DeliveryInv, DeliveryTypes
<1> QED BY <1>1, <1>2, <1>5, <1>6, OwnStep DEF L!Ends

-----------------------------------------------------------------------------
LEMMA DeliveryInvariance == L!Spec => []DeliveryInv
<1>1. DeliveryInv /\ [L!Next]_(L!vars) => DeliveryInv'
  <2> SUFFICES ASSUME DeliveryInv, [L!Next]_(L!vars) PROVE DeliveryInv'
    OBVIOUS
  <2>1. CASE L!Create
    BY <2>1, CreateStep
  <2>2. ASSUME NEW e \in L!Events, L!Send(e) PROVE DeliveryInv'
    BY <2>2, SendStep
  <2>3. ASSUME NEW c \in Calls, NEW b \in BOOLEAN, NEW timeout \in BOOLEAN,
               L!FlushCall(c, b, timeout) \/ L!ExitCall(c, b, timeout)
        PROVE  DeliveryInv'
    BY <2>3, FlushStep, ExitStep
  <2>4. ASSUME NEW c \in Calls, L!Continue(c) PROVE DeliveryInv'
    BY <2>4, RecoveredStep, SettledStep, EndsStep DEF L!Continue
  <2>5. CASE L!TransportStep
    BY <2>5, WriteStep, FlushedStep, ExitedStep DEF L!TransportStep
  <2>6. CASE UNCHANGED L!vars
    <3>1. DeliveryTypes' /\ PendingSent' /\ Forward /\ UNCHANGED L!calls
      BY <2>6 DEF L!vars, L!calls, DeliveryInv, DeliveryTypes, PendingSent, Forward, L!Sent
    <3> QED BY <3>1, AllSame DEF DeliveryInv
  <2> QED BY <2>1, <2>2, <2>3, <2>4, <2>5, <2>6 DEF L!Next
<1> QED BY <1>1, DeliveryStarts, PTL DEF L!Spec

(* Every variable stays within its type. *)
THEOREM DeliveryTypeCorrect == L!Spec => []DeliveryTypes
<1>1. DeliveryInv => DeliveryTypes
  BY DEF DeliveryInv
<1> QED BY <1>1, DeliveryInvariance, PTL

(* 1514-1597: a drain that did not time out covered what it was for,        *)
(* whatever was created, sent and drained beside it, and a drain on exit    *)
(* handed what is still on its way to the transports.                       *)
THEOREM DeliveryAlwaysCovers == L!Spec => []L!FlushCovers
<1>1. DeliveryInv => L!FlushCovers
  <2> SUFFICES ASSUME DeliveryInv, NEW c \in Calls
               PROVE  /\ result[c] = "returned" => L!Writes(due[c]) \subseteq durable
                      /\ kind[c] \in {"exit", "close"} =>
                           due[c] \cap (unsent \cup L!Active) \subseteq handed[c]
    BY DEF L!FlushCovers
  <2>1. due[c] \cap unsent = {}
    BY DEF DeliveryInv, CallOK, L!Sent
  <2>2. due[c] \cap L!Active \subseteq Late(due[c])
    BY DEF L!Active, Late
  <2> QED BY <2>1, <2>2 DEF DeliveryInv, CallOK
<1> QED BY <1>1, DeliveryInvariance, PTL

-----------------------------------------------------------------------------
(* Whatever the process does, "own" goes through a step of LoggerDelivery   *)
(* or none.                                                                 *)
LEMMA Composition == Spec => L!Spec
<1>1. Init => L!Init
  BY DEF Init
<1>2. [Next]_vars => [L!Next]_(L!vars)
  <2> SUFFICES ASSUME [Next]_vars PROVE [L!Next]_(L!vars)
    OBVIOUS
  <2>0. UNCHANGED delivery => UNCHANGED L!vars
    BY DEF delivery, L!vars
  <2>1. ASSUME NEW c \in Calls, NEW close \in BOOLEAN, NEW timeout \in BOOLEAN,
               L!ExitCall(c, close, timeout)
        PROVE  L!Next
    BY <2>1 DEF L!Next
  <2>2. ASSUME NEW c \in Calls, FlushRegistered(c) PROVE [L!Next]_(L!vars)
    BY <2>0, <2>1, <2>2 DEF FlushRegistered
  <2>3. CASE Create \/ TransportStep
    BY <2>3 DEF Create, TransportStep, Deliver, L!Next
  <2>4. ASSUME NEW e \in L!Events, Send(e) PROVE L!Next
    BY <2>4 DEF Send, Deliver, L!Next
  <2>5. ASSUME NEW c \in Calls, NEW timeout \in BOOLEAN, CloseOwn(c, timeout) PROVE L!Next
    BY <2>1, <2>5 DEF CloseOwn
  <2>6. ASSUME NEW c \in Calls, NEW recover \in BOOLEAN, NEW timeout \in BOOLEAN,
               FlushCall(c, recover, timeout)
        PROVE  L!Next
    BY <2>6 DEF FlushCall, Deliver, L!Next
  <2>7. ASSUME NEW l \in Loggers, Register(l) \/ Unregister(l) PROVE UNCHANGED L!vars
    BY <2>0, <2>7 DEF Register, Unregister
  <2>8. ASSUME NEW c \in Calls, BeforeExit(c) PROVE [L!Next]_(L!vars)
    BY <2>2, <2>8 DEF BeforeExit
  <2>9. CASE BeforeExitOver \/ LoopEnds \/ Unheard \/ Reraise
    BY <2>0, <2>9 DEF BeforeExitOver, LoopEnds, Unheard, Reraise
  <2>10. ASSUME NEW c \in Calls, Continue(c) PROVE L!Next
    BY <2>10 DEF Continue, Deliver, L!Next
  <2>11. CASE Signal
    BY <2>2, <2>11, ProcessAssumption DEF Signal
  <2>12. CASE UNCHANGED vars
    BY <2>0, <2>12 DEF vars, delivery
  <2> QED
    BY <2>3, <2>4, <2>5, <2>6, <2>7, <2>8, <2>9, <2>10, <2>11, <2>12
       DEF Next, OtherStep, OtherCalls
<1> QED BY <1>1, <1>2, PTL DEF Spec, L!Spec

(* LoggerDelivery's property holds of the drains among the other calls.     *)
THEOREM FlushAlwaysCovers == Spec => []FlushCovers
<1>1. L!FlushCovers => FlushCovers
  BY DEF FlushCovers
<1> QED BY <1>1, DeliveryAlwaysCovers, Composition, PTL

-----------------------------------------------------------------------------
Types ==
  /\ kind \in [Calls -> {"none", "flush", "recover", "exit", "close"}]
  /\ timed \in [Calls -> BOOLEAN]
  /\ result \in [Calls -> {"none", "waiting", "returned", "timedOut"}]
  /\ registered \subseteq Loggers
  /\ installed \in BOOLEAN /\ onBeforeExit \in BOOLEAN /\ others \in BOOLEAN
  /\ shutdown \in {"no", "draining", "reraised"}
  /\ beforeExitDrain \in Calls \cup {"none"}
  /\ ended \in {"no", "signal", "empty"}
  /\ drains \subseteq Calls /\ late \in BOOLEAN

(* A drain of the lifecycle that waits has a timer, so that the loop cannot *)
(* run empty under it.                                                      *)
DrainsTimed ==
  /\ \A c \in drains : kind[c] = "exit" /\ (result[c] = "waiting" => timed[c])
  /\ \A c \in Calls : kind[c] = "none" => result[c] # "waiting"

(* The handlers are there while anybody is registered, until the signal is  *)
(* raised again, which ends the process unless others listen.               *)
HandlersHold ==
  /\ registered # {} /\ shutdown # "reraised" => installed
  /\ ~others /\ shutdown = "reraised" => ended # "no"
  /\ beforeExitDrain # "signal"
  /\ beforeExitDrain # "none" => beforeExitDrain \in drains \/ result[beforeExitDrain] # "waiting"

(* A registered "own" that was in time was drained, or will be.             *)
OwnCovered ==
  "own" \in registered /\ ~late =>
    /\ shutdown # "no" => "signal" \in drains
    /\ drains = {} => shutdown = "no" /\ onBeforeExit

Inv == Types /\ DrainsTimed /\ HandlersHold /\ OwnCovered /\ DiesDrained

-----------------------------------------------------------------------------
LEMMA InitInv == Init => Inv
<1> SUFFICES ASSUME Init PROVE Inv
  OBVIOUS
<1>1. Types
  BY ProcessAssumption DEF Init, L!Init, Types, Loggers
<1>2. DrainsTimed /\ HandlersHold /\ OwnCovered /\ DiesDrained
  BY DEF Init, L!Init, DrainsTimed, HandlersHold, OwnCovered, DiesDrained
<1> QED BY <1>1, <1>2 DEF Inv

(* What LoggerDelivery may do to a drain that was begun, and to a call.     *)
Kept ==
  /\ kind' \in [Calls -> {"none", "flush", "recover", "exit", "close"}]
  /\ timed' \in [Calls -> BOOLEAN]
  /\ result' \in [Calls -> {"none", "waiting", "returned", "timedOut"}]
  /\ \A c \in Calls : kind[c] # "none" =>
       /\ kind'[c] = kind[c]
       /\ result'[c] = "waiting" => result[c] = "waiting" /\ timed'[c] = timed[c]
  /\ \A c \in Calls : kind'[c] = "none" => kind[c] = "none" /\ result'[c] = result[c]
  /\ beforeExitDrain \in Calls /\ result'[beforeExitDrain] = "waiting" =>
       result[beforeExitDrain] = "waiting"

LEMMA CallKept ==
  ASSUME Inv, NEW c \in Calls \ {beforeExitDrain}, NEW close \in BOOLEAN,
         NEW timeout \in BOOLEAN, L!ExitCall(c, close, timeout) \/ L!FlushCall(c, close, timeout)
  PROVE  Kept
<1>1. kind[c] = "none"
  BY DEF L!ExitCall, L!FlushCall
<1>2. PICK k \in {"flush", "recover", "exit", "close"} : kind' = [kind EXCEPT ![c] = k]
  BY DEF L!ExitCall, L!FlushCall
<1>3. /\ timed' = [timed EXCEPT ![c] = timeout]
      /\ result' = [result EXCEPT ![c] = "waiting"]
  BY DEF L!ExitCall, L!FlushCall
<1>4. kind' \in [Calls -> {"none", "flush", "recover", "exit", "close"}]
  BY <1>2 DEF Inv, Types
<1>5. /\ timed' \in [Calls -> BOOLEAN]
      /\ result' \in [Calls -> {"none", "waiting", "returned", "timedOut"}]
  BY <1>3 DEF Inv, Types
<1>6. \A d \in Calls \ {c} : kind'[d] = kind[d] /\ timed'[d] = timed[d] /\ result'[d] = result[d]
  BY <1>2, <1>3 DEF Inv, Types
<1>7. kind'[c] # "none"
  BY <1>2 DEF Inv, Types
<1> QED BY <1>1, <1>4, <1>5, <1>6, <1>7 DEF Kept

LEMMA ContinueKept ==
  ASSUME Inv, NEW c \in Calls, L!Continue(c)
  PROVE  Kept
<1>1. CASE L!Recovered(c) \/ L!TasksSettled(c)
  BY <1>1 DEF L!Recovered, L!TasksSettled, Kept, Inv, Types
<1>2. CASE L!Returns(c) \/ L!TimesOut(c)
  <2>1. PICK o \in {"returned", "timedOut"} : L!Ends(c, o)
    BY <1>2 DEF L!Returns, L!TimesOut
  <2>2. /\ result[c] = "waiting" /\ kind' = kind
        /\ result' = [result EXCEPT ![c] = o] /\ timed' = [timed EXCEPT ![c] = FALSE]
    BY <2>1 DEF L!Ends
  <2> QED BY <2>2 DEF Kept, Inv, Types, DrainsTimed
<1> QED BY <1>1, <1>2 DEF L!Continue

LEMMA StillKept ==
  ASSUME Inv, L!Create \/ L!TransportStep \/ (\E e \in L!Events : L!Send(e))
              \/ UNCHANGED <<kind, timed, result>>
  PROVE  Kept
<1>1. UNCHANGED <<kind, timed, result>>
  BY DEF L!Create, L!TransportStep, L!Send, L!calls, L!WriteSettles, L!TransportFlushed,
         L!TransportExited
<1> QED BY <1>1 DEF Kept, Inv, Types

(* A step of LoggerDelivery keeps Inv, the process being as it was. *)
LEMMA DeliverStep ==
  ASSUME Inv, Alive, Kept, UNCHANGED life
  PROVE  Inv'
<1>1. UNCHANGED <<registered, installed, onBeforeExit, shutdown, beforeExitDrain, others,
                  ended, drains, late>>
  BY DEF life
<1>2. Types' /\ DrainsTimed'
  BY <1>1 DEF Inv, Types, Kept, DrainsTimed
<1>3. HandlersHold'
  BY <1>1 DEF Inv, Types, Kept, HandlersHold
<1>4. OwnCovered' /\ DiesDrained'
  BY <1>1 DEF Inv, OwnCovered, DiesDrained, Alive
<1> QED BY <1>2, <1>3, <1>4 DEF Inv

-----------------------------------------------------------------------------
LEMMA RegisterStep == ASSUME Inv, NEW l \in Loggers, Register(l) PROVE Inv'
<1>1. /\ UNCHANGED <<kind, timed, result, shutdown, beforeExitDrain, others, ended, drains>>
      /\ ended = "no" /\ l \notin registered /\ registered' = registered \cup {l} /\ installed' = TRUE
      /\ onBeforeExit' = (onBeforeExit \/ ~installed)
      /\ late' = (IF l = "own" THEN shutdown # "no" \/ ~onBeforeExit' ELSE late)
  BY DEF Register, Alive, delivery
<1>2. Types' /\ DrainsTimed'
  BY <1>1 DEF Inv, Types, DrainsTimed
<1>3. HandlersHold' /\ DiesDrained'
  BY <1>1 DEF Inv, HandlersHold, DiesDrained
<1>4. OwnCovered'
  <2>1. CASE l = "own"
    BY <1>1, <2>1 DEF OwnCovered
  <2>2. CASE l # "own"
    BY <1>1, <2>2 DEF Inv, OwnCovered
  <2> QED BY <2>1, <2>2
<1> QED BY <1>2, <1>3, <1>4 DEF Inv

(* Whatever the calls of "own" do meanwhile, a logger that leaves keeps Inv. *)
LEMMA LeaveStep ==
  ASSUME Inv, NEW l \in Loggers, l \in registered, Alive, Leave(l), Kept
  PROVE  Inv'
<1>1. /\ UNCHANGED <<shutdown, beforeExitDrain, others, ended, drains>> /\ ended = "no"
      /\ registered' = registered \ {l} /\ installed' = (installed /\ registered' # {})
      /\ onBeforeExit' = (onBeforeExit /\ installed') /\ late' = (late /\ l # "own")
  BY DEF Leave, Alive
<1>2. Types' /\ DrainsTimed'
  BY <1>1 DEF Inv, Types, DrainsTimed, Kept
<1>3. HandlersHold' /\ DiesDrained'
  BY <1>1 DEF Inv, Types, HandlersHold, DiesDrained, Kept
<1>4. OwnCovered'
  BY <1>1 DEF Inv, OwnCovered, HandlersHold
<1> QED BY <1>2, <1>3, <1>4 DEF Inv

(* A drain of the lifecycle covers "own" if it is registered. *)
LEMMA Drained ==
  ASSUME Inv, NEW c \in Calls \ {beforeExitDrain}, FlushRegistered(c)
  PROVE  /\ Kept
         /\ \/ /\ "own" \in registered /\ kind'[c] = "exit" /\ timed'[c] = TRUE
               /\ drains' = drains \cup {c} /\ late' = FALSE /\ kind[c] = "none"
            \/ "own" \notin registered /\ UNCHANGED <<drains, late, kind, timed, result>>
<1>1. CASE "own" \in registered
  <2>1. L!ExitCall(c, FALSE, TRUE) /\ drains' = drains \cup {c} /\ late' = FALSE
    BY <1>1 DEF FlushRegistered
  <2>2. kind'[c] = "exit" /\ timed'[c] = TRUE /\ kind[c] = "none"
    BY <2>1 DEF L!ExitCall, Inv, Types
  <2>3. Kept
    BY <2>1, CallKept
  <2> QED BY <1>1, <2>1, <2>2, <2>3
<1>2. CASE "own" \notin registered
  <2>1. UNCHANGED <<drains, late, kind, timed, result>>
    BY <1>2 DEF FlushRegistered, delivery
  <2> QED BY <1>2, <2>1, StillKept
<1> QED BY <1>1, <1>2

LEMMA SignalStep == ASSUME Inv, Signal PROVE Inv'
<1>1. /\ UNCHANGED <<registered, installed, onBeforeExit, beforeExitDrain, others, ended>>
      /\ ended = "no" /\ shutdown = "no" /\ shutdown' = "draining" /\ FlushRegistered("signal")
  BY DEF Signal, Alive
<1>2. "signal" \in Calls \ {beforeExitDrain}
  BY ProcessAssumption DEF Inv, HandlersHold
<1>3. /\ Kept
      /\ \/ /\ "own" \in registered /\ kind'["signal"] = "exit" /\ timed'["signal"] = TRUE
            /\ drains' = drains \cup {"signal"} /\ late' = FALSE /\ kind["signal"] = "none"
         \/ "own" \notin registered /\ UNCHANGED <<drains, late, kind, timed, result>>
  BY <1>1, <1>2, Drained
<1>t. Types'
  BY <1>1, <1>2, <1>3 DEF Inv, Types, Kept
<1>d. DrainsTimed'
  BY <1>1, <1>2, <1>3 DEF Inv, Types, DrainsTimed, Kept
<1>4. Types' /\ DrainsTimed'
  BY <1>t, <1>d
<1>5. HandlersHold' /\ DiesDrained'
  BY <1>1, <1>3 DEF Inv, Types, HandlersHold, DiesDrained, Kept
<1>6. OwnCovered'
  BY <1>1, <1>3 DEF Inv, OwnCovered
<1> QED BY <1>4, <1>5, <1>6 DEF Inv

LEMMA BeforeExitStep == ASSUME Inv, NEW c \in OtherCalls, BeforeExit(c) PROVE Inv'
<1>1. /\ UNCHANGED <<registered, installed, shutdown, others, ended>>
      /\ ended = "no" /\ onBeforeExit' = FALSE /\ beforeExitDrain' = c /\ FlushRegistered(c)
      /\ beforeExitDrain = "none" /\ shutdown = "no" /\ kind[c] = "none"
  BY DEF BeforeExit, Alive, Drains
<1>2. c \in Calls \ {beforeExitDrain} /\ c # "signal"
  BY DEF OtherCalls
<1>3. /\ Kept
      /\ \/ /\ "own" \in registered /\ kind'[c] = "exit" /\ timed'[c] = TRUE
            /\ drains' = drains \cup {c} /\ late' = FALSE /\ kind[c] = "none"
         \/ "own" \notin registered /\ UNCHANGED <<drains, late, kind, timed, result>>
  BY <1>1, <1>2, Drained
<1>t. Types'
  BY <1>1, <1>2, <1>3 DEF Inv, Types, Kept
<1>d. DrainsTimed'
  BY <1>1, <1>2, <1>3 DEF Inv, Types, DrainsTimed, Kept
<1>4. Types' /\ DrainsTimed'
  BY <1>t, <1>d
<1>5. OwnCovered' /\ DiesDrained'
  BY <1>1, <1>3 DEF Inv, OwnCovered, DiesDrained
<1>6. HandlersHold'
  BY <1>1, <1>2, <1>3 DEF Inv, HandlersHold, DrainsTimed
<1> QED BY <1>4, <1>5, <1>6 DEF Inv

LEMMA ReraiseStep == ASSUME Inv, Reraise PROVE Inv'
<1>1. /\ UNCHANGED <<kind, timed, result, registered, beforeExitDrain, others, drains, late>>
      /\ ended = "no" /\ shutdown = "draining" /\ result["signal"] # "waiting"
      /\ shutdown' = "reraised" /\ installed' = FALSE /\ onBeforeExit' = FALSE
      /\ ended' = IF others THEN ended ELSE "signal"
  BY DEF Reraise, Alive, SignalDrained, Settled, delivery
<1>2. Types' /\ DrainsTimed'
  BY <1>1 DEF Inv, Types, DrainsTimed
<1>3. HandlersHold' /\ OwnCovered'
  BY <1>1 DEF Inv, Types, HandlersHold, OwnCovered
<1>4. DiesDrained'
  <2>1. ended' \in {"no", "signal"}
    BY <1>1
  <2>2. "own" \in registered /\ ~late => "signal" \in drains
    BY <1>1 DEF Inv, OwnCovered
  <2> QED BY <1>1, <2>1, <2>2 DEF DiesDrained, Settled
<1> QED BY <1>2, <1>3, <1>4 DEF Inv

LEMMA UnheardStep == ASSUME Inv, Unheard PROVE Inv'
<1>1. /\ UNCHANGED <<kind, timed, result, registered, installed, onBeforeExit, shutdown,
                     beforeExitDrain, others, drains, late>>
      /\ ended = "no" /\ ~installed /\ ~others /\ ended' = "signal"
  BY DEF Unheard, Alive, delivery
<1>2. registered = {}
  BY <1>1 DEF Inv, HandlersHold
<1> QED BY <1>1, <1>2 DEF Inv, Types, DrainsTimed, HandlersHold, OwnCovered, DiesDrained

LEMMA BeforeExitOverStep == ASSUME Inv, BeforeExitOver PROVE Inv'
<1>1. /\ UNCHANGED <<kind, timed, result, registered, installed, onBeforeExit, shutdown,
                     others, ended, drains, late>>
      /\ ended = "no" /\ beforeExitDrain' = "none"
  BY DEF BeforeExitOver, Alive, delivery
<1> QED BY <1>1 DEF Inv, Types, DrainsTimed, HandlersHold, OwnCovered, DiesDrained

(* A loop runs empty under no drain, and not before there was one. *)
LEMMA LoopEndsStep == ASSUME Inv, LoopEnds PROVE Inv'
<1>1. /\ UNCHANGED <<kind, timed, result, registered, installed, onBeforeExit, shutdown,
                     beforeExitDrain, others, drains, late>>
      /\ ended = "no" /\ ended' = "empty" /\ Empty /\ ~Drains
  BY DEF LoopEnds, Alive, delivery
<1>2. \A c \in drains : result[c] # "waiting"
  BY <1>1 DEF Empty, L!TimerArmed, Inv, Types, DrainsTimed
<1>3. "own" \in registered /\ ~late => drains # {}
  BY <1>1 DEF Empty, Drains, Quiet, EmptyDrained, Settled, Inv, HandlersHold, OwnCovered
<1>4. DiesDrained'
  BY <1>1, <1>2, <1>3 DEF DiesDrained, Settled
<1> QED BY <1>1, <1>4 DEF Inv, Types, DrainsTimed, HandlersHold, OwnCovered

LEMMA Invariance == Spec => []Inv
<1>1. Inv /\ [Next]_vars => Inv'
  <2> SUFFICES ASSUME Inv, [Next]_vars PROVE Inv'
    OBVIOUS
  <2>1. CASE Create \/ TransportStep \/ \E e \in L!Events : Send(e)
    BY <2>1, StillKept, DeliverStep DEF Create, TransportStep, Send, Deliver
  <2>2. ASSUME NEW c \in Calls, Continue(c) PROVE Inv'
    BY <2>2, ContinueKept, DeliverStep DEF Continue, Deliver
  <2>3. ASSUME NEW c \in OtherCalls, NEW recover \in BOOLEAN, NEW timeout \in BOOLEAN,
               FlushCall(c, recover, timeout)
        PROVE  Inv'
    BY <2>3, CallKept, DeliverStep DEF FlushCall, Deliver, OtherCalls
  <2>4. ASSUME NEW c \in OtherCalls, NEW timeout \in BOOLEAN, CloseOwn(c, timeout) PROVE Inv'
    <3>1. Kept /\ Alive
      BY <2>4, CallKept DEF CloseOwn, OtherCalls
    <3> QED BY <2>4, <3>1, LeaveStep, DeliverStep DEF CloseOwn, Loggers
  <2>5. ASSUME NEW l \in Loggers, Unregister(l) PROVE Inv'
    <3>1. Kept
      BY <2>5, StillKept DEF Unregister, delivery
    <3> QED BY <2>5, <3>1, LeaveStep DEF Unregister
  <2>6. CASE UNCHANGED vars
    BY <2>6 DEF vars, Inv, Types, DrainsTimed, HandlersHold, OwnCovered, DiesDrained, Settled
  <2> QED
    BY <2>1, <2>2, <2>3, <2>4, <2>5, <2>6, RegisterStep, SignalStep, BeforeExitStep,
       ReraiseStep, UnheardStep, BeforeExitOverStep, LoopEndsStep DEF Next, OtherStep
<1> QED BY <1>1, InitInv, PTL DEF Spec

(* 41-108, 152-165: no order in which loggers come and go, signals arrive   *)
(* and loops run empty lets the process end without its drain.              *)
THEOREM AlwaysDiesDrained == Spec => []DiesDrained
<1>1. Inv => DiesDrained
  BY DEF Inv
<1> QED BY <1>1, Invariance, PTL
=============================================================================
