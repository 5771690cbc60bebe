---------------------------- MODULE MCLogging_proofs ----------------------------
(***************************************************************************)
(* Theorems about the parts of MCLogging, for any number of run() calls,   *)
(* providers, loggers, invocations, records, transports, spans, attributes *)
(* and writes, and any lists of metrics and limits. Each part has          *)
(* an inductive invariant of its own, which the steps of the other parts   *)
(* leave alone:                                                            *)
(*                                                                         *)
(* - LogContext: while nothing overlapped, the run() calls under way are   *)
(*   those around the one whose frame is current (Nested), so the          *)
(*   innermost of them, that is executing, is current (ActorIsCurrent);    *)
(* - LogRecords: what a logger shares, and with whom;                      *)
(* - WorkerLoggers, WasmHost: what was waited for, and what answered;      *)
(* - OtelSpan: where the function is, against what the work has done;      *)
(* - HostLoggers: who is registered, against the handlers there are;       *)
(* - ErrorTracking: the hashes in the set, against the records posted;     *)
(* - OtelTransport: which calls were made, against the call at hand, and   *)
(*   which identifiers the attributes have;                                *)
(* - InstrumentedTransport: which series a write is in, and that no label  *)
(*   set gets a series of its own once another one was refused;            *)
(* - PrometheusRegistry: the names taken, against the metrics there are.   *)
(*                                                                         *)
(* What a recursive function computes is proved by induction on its        *)
(* argument (Induct), and that it exists at all (Recursion); both follow   *)
(* from the well-foundedness of the order of the natural numbers.          *)
(***************************************************************************)
EXTENDS MCLogging, SequenceTheorems, FiniteSetTheorems, WellFoundedInduction, TLAPS

LEMMA FramesStep ==
  ASSUME [Next]_vars
  PROVE  \/ C!NextFrame
         \/ UNCHANGED <<tracked, current, frames, status, parent, previous, stack, snapshot,
                        overlapped, cleared>>
<1>1. CASE UNCHANGED vars
  BY <1>1 DEF vars, recordVars, contextVars
<1>2. CASE C!NextProvider
  BY <1>2 DEF C!NextProvider, C!InstallLogContextProvider, C!RemoveProvider, C!frameVars
<1> QED BY <1>1, <1>2 DEF Next, recordVars, contextVars

-----------------------------------------------------------------------------
(* LogContext's Around as a function of who called whom.                    *)
UpwardIn(p, S) == \A t \in S : p[t] = 0 \/ p[t] \in S
AroundIn(p, t) ==
  {u \in C!Runs : \A S \in SUBSET C!Runs : (t = 0 \/ t \in S) /\ UpwardIn(p, S) => u \in S}

(* A caller starts before what it calls.                                    *)
Callers == {p \in [C!Runs -> C!Runs \cup {0}] : \A t \in C!Runs : p[t] < t}

LEMMA AroundIs ==
  /\ \A t : C!Around(t) = AroundIn(parent, t)
  /\ \A t : (C!Around(t))' = AroundIn(parent', t)
BY DEF C!Around, C!Upward, C!Outside, AroundIn, UpwardIn

LEMMA AroundNone == ASSUME NEW p PROVE AroundIn(p, 0) = {}
<1>1. {} \in SUBSET C!Runs /\ UpwardIn(p, {})
  BY DEF UpwardIn
<1>2. \A u \in AroundIn(p, 0) : u \in {}
  BY <1>1 DEF AroundIn
<1> QED BY <1>2

LEMMA AroundBounds ==
  ASSUME NEW p \in Callers, NEW t \in C!Runs
  PROVE  t \in AroundIn(p, t) /\ \A u \in AroundIn(p, t) : u \in C!Runs /\ u <= t
<1> DEFINE S == {u \in C!Runs : u <= t}
<1>1. C!Runs \subseteq Nat
  BY DEF C!Runs
<1>2. S \in SUBSET C!Runs /\ t \in S
  BY <1>1
<1>3. UpwardIn(p, S)
  <2> SUFFICES ASSUME NEW u \in S PROVE p[u] = 0 \/ p[u] \in S
    BY DEF UpwardIn
  <2>1. u \in C!Runs /\ u <= t /\ p[u] \in C!Runs \cup {0} /\ p[u] < u
    BY DEF Callers
  <2>2. CASE p[u] \in C!Runs
    <3>1. p[u] \in Nat /\ u \in Nat /\ t \in Nat
      BY <1>1, <2>1, <2>2
    <3>2. p[u] <= t
      BY <2>1, <3>1
    <3> QED BY <2>2, <3>2
  <2> QED BY <2>1, <2>2
<1>4. \A u \in AroundIn(p, t) : u \in S
  BY <1>2, <1>3 DEF AroundIn
<1>5. t \in AroundIn(p, t)
  <2>1. t # 0
    BY DEF C!Runs
  <2> QED BY <2>1 DEF AroundIn
<1> QED BY <1>4, <1>5

LEMMA AroundCaller ==
  ASSUME NEW p \in Callers, NEW t \in C!Runs
  PROVE  AroundIn(p, t) = AroundIn(p, p[t]) \cup {t}
<1>1. ASSUME NEW u \in AroundIn(p, p[t]) PROVE u \in AroundIn(p, t)
  <2> SUFFICES ASSUME NEW S \in SUBSET C!Runs, t = 0 \/ t \in S, UpwardIn(p, S) PROVE u \in S
    BY DEF AroundIn
  <2>1. t \in S
    BY DEF C!Runs
  <2>2. p[t] = 0 \/ p[t] \in S
    BY <2>1 DEF UpwardIn
  <2> QED BY <2>2 DEF AroundIn
<1>2. ASSUME NEW u \in AroundIn(p, t), u # t, NEW S \in SUBSET C!Runs, p[t] = 0 \/ p[t] \in S, UpwardIn(p, S)
      PROVE  u \in S
  <2>1. S \cup {t} \in SUBSET C!Runs /\ UpwardIn(p, S \cup {t})
    BY <1>2 DEF UpwardIn
  <2> QED BY <1>2, <2>1 DEF AroundIn
<1>3. ASSUME NEW u \in AroundIn(p, t), u # t PROVE u \in AroundIn(p, p[t])
  BY <1>2, <1>3 DEF AroundIn
<1>4. t \in AroundIn(p, t)
  BY AroundBounds
<1> QED BY <1>1, <1>3, <1>4

(* A run that calls nothing yet is around none but itself.                  *)
LEMMA AroundOthers ==
  ASSUME NEW p, NEW q, NEW t \in C!Runs, NEW u \in C!Runs \cup {0}, u # t,
         \A v \in C!Runs \ {t} : q[v] = p[v] /\ p[v] # t
  PROVE  AroundIn(q, u) = AroundIn(p, u)
<1>1. ASSUME NEW S \in SUBSET C!Runs
      PROVE  /\ S \ {t} \in SUBSET C!Runs
             /\ UpwardIn(p, S) => UpwardIn(q, S \ {t})
             /\ UpwardIn(q, S) => UpwardIn(p, S \ {t})
  BY <1>1 DEF UpwardIn
<1>2. ASSUME NEW v \in AroundIn(p, u), NEW S \in SUBSET C!Runs, u = 0 \/ u \in S, UpwardIn(q, S)
      PROVE  v \in S
  <2>1. u = 0 \/ u \in S \ {t}
    BY <1>2
  <2>2. v \in S \ {t}
    BY <1>1, <1>2, <2>1 DEF AroundIn
  <2> QED BY <2>2
<1>3. ASSUME NEW v \in AroundIn(q, u), NEW S \in SUBSET C!Runs, u = 0 \/ u \in S, UpwardIn(p, S)
      PROVE  v \in S
  <2>1. u = 0 \/ u \in S \ {t}
    BY <1>3
  <2>2. v \in S \ {t}
    BY <1>1, <1>3, <2>1 DEF AroundIn
  <2> QED BY <2>2
<1>4. AroundIn(p, u) \subseteq AroundIn(q, u)
  BY <1>2 DEF AroundIn
<1>5. AroundIn(q, u) \subseteq AroundIn(p, u)
  BY <1>3 DEF AroundIn
<1> QED BY <1>4, <1>5

-----------------------------------------------------------------------------
Live == {t \in C!Runs : status[t] \notin {"new", "done"}}

FrameTypes ==
  /\ status \in [C!Runs -> {"new", "executing", "suspended", "resumed", "settled", "done"}]
  /\ parent \in Callers
  /\ previous \in [C!Runs -> C!Runs \cup {0}]
  /\ current \in C!Runs \cup {0}
  /\ stack \in Seq(C!Runs)

(* Runs start in order, and a caller before what it calls.                  *)
Started ==
  /\ \A t, u \in C!Runs : u < t /\ status[u] = "new" => status[t] = "new"
  /\ \A t \in C!Runs : parent[t] # 0 => status[parent[t]] # "new"

(* Whatever executes is on the stack once, above what it is nested in.      *)
Stacked ==
  /\ \A t \in C!Runs : status[t] \in {"executing", "resumed"} <=> \E i \in 1..Len(stack) : stack[i] = t
  /\ \A i, j \in 1..Len(stack) : stack[i] = stack[j] => i = j
  /\ \A i, j \in 1..Len(stack) : i <= j => stack[i] \in AroundIn(parent, stack[j])

(* As long as nothing overlapped, the single frame is that of the innermost *)
(* run under way, each saved its caller's, and only the innermost settles.  *)
Nested ==
  \/ tracked \/ overlapped
  \/ /\ Live = AroundIn(parent, current)
     /\ \A t \in Live : previous[t] = parent[t]
     /\ \A t \in C!Runs : status[t] = "settled" => t = current

FrameInv == FrameTypes /\ Started /\ Stacked /\ Nested

LEMMA FrameInit == Init => FrameInv
<1> SUFFICES ASSUME Init PROVE FrameInv
  OBVIOUS
<1>1. /\ status = [t \in C!Runs |-> "new"] /\ parent = [t \in C!Runs |-> 0]
      /\ previous = [t \in C!Runs |-> 0] /\ current = 0 /\ stack = <<>>
  BY DEF Init, C!Init, C!Outside
<1>2. C!Runs \subseteq Nat /\ \A t \in C!Runs : 0 < t
  BY DEF C!Runs
<1>3. FrameTypes /\ Started
  BY <1>1, <1>2 DEF FrameTypes, Callers, Started
<1>4. Stacked
  <2>1. 1..Len(stack) = {}
    BY <1>1
  <2> QED BY <1>1, <2>1 DEF Stacked
<1>5. Nested
  BY <1>1, AroundNone DEF Nested, Live
<1> QED BY <1>3, <1>4, <1>5 DEF FrameInv

(* The innermost executing run is a run, around which the others execute.   *)
LEMMA TheActor ==
  ASSUME FrameTypes, Stacked
  PROVE  /\ stack = <<>> => C!Actor = 0 /\ \A t \in C!Runs : status[t] \notin {"executing", "resumed"}
         /\ stack # <<>> => /\ C!Actor \in C!Runs /\ status[C!Actor] \in {"executing", "resumed"}
                           /\ Len(stack) \in 1..Len(stack) /\ C!Actor = stack[Len(stack)]
         /\ \A t \in C!Runs : status[t] \in {"executing", "resumed"} => t \in AroundIn(parent, C!Actor)
<1>1. CASE stack = <<>>
  BY <1>1 DEF C!Actor, C!Outside, Stacked
<1>2. CASE stack # <<>>
  <2>1. Len(stack) \in 1..Len(stack) /\ C!Actor = stack[Len(stack)] /\ C!Actor \in C!Runs
    BY <1>2 DEF C!Actor, C!Last, FrameTypes
  <2>2. \A i \in 1..Len(stack) : i <= Len(stack)
    BY <1>2 DEF FrameTypes
  <2> QED BY <1>2, <2>1, <2>2 DEF Stacked
<1> QED BY <1>1, <1>2

LEMMA ActorIsCurrent ==
  ASSUME FrameInv, ~tracked, ~overlapped, ~C!Beside(C!Actor)
  PROVE  current = C!Actor
<1>1. Live \subseteq AroundIn(parent, C!Actor)
  <2>1. \A t \in Live : t \in C!Pending \/ status[t] \in {"executing", "resumed"}
    BY DEF Live, C!Pending, FrameInv, FrameTypes
  <2>2. C!Pending \subseteq AroundIn(parent, C!Actor)
    BY AroundIs DEF C!Beside
  <2> QED BY <2>1, <2>2, TheActor DEF Live, FrameInv
<1>2. Live = AroundIn(parent, current)
  BY DEF FrameInv, Nested
<1>3. parent \in Callers /\ current \in C!Runs \cup {0} /\ C!Actor \in C!Runs \cup {0}
  BY TheActor DEF FrameInv, FrameTypes
<1>4. C!Actor # 0 => C!Actor \in Live
  BY <1>3, TheActor DEF FrameInv, Live
<1>5. current = 0 => C!Actor = 0
  BY <1>2, <1>4, AroundNone
<1>6. C!Actor = 0 => current = 0
  BY <1>1, <1>2, <1>3, AroundNone, AroundBounds
<1>7. ASSUME current # 0, C!Actor # 0 PROVE current = C!Actor
  <2>1. current \in AroundIn(parent, C!Actor) /\ C!Actor \in AroundIn(parent, current)
    BY <1>1, <1>2, <1>3, <1>4, <1>7, AroundBounds
  <2>2. current <= C!Actor /\ C!Actor <= current
    BY <1>3, <1>7, <2>1, AroundBounds
  <2> QED BY <1>3, <1>7, <2>2 DEF C!Runs
<1> QED BY <1>5, <1>6, <1>7

LEMMA RunStep ==
  ASSUME FrameInv, NEW t \in C!Runs, NEW context, C!Run(t, context)
  PROVE  FrameInv'
<1> DEFINE a == C!Actor
<1>1. /\ status[t] = "new" /\ \A u \in 1..(t - 1) : status[u] # "new"
      /\ status' = [status EXCEPT ![t] = "executing"]
      /\ parent' = [parent EXCEPT ![t] = a] /\ previous' = [previous EXCEPT ![t] = current]
      /\ current' = IF tracked THEN current ELSE t
      /\ stack' = Append(stack, t) /\ tracked' = tracked
      /\ overlapped' = (overlapped \/ C!Beside(a))
  BY DEF C!Run, C!Acts
<1>2. FrameTypes /\ Started /\ Stacked /\ Nested
  BY DEF FrameInv
<1>3. a \in C!Runs \cup {0} /\ (a # 0 => status[a] \in {"executing", "resumed"})
  BY <1>2, TheActor
<1>4. a < t
  <2>1. a # 0 => a \in C!Runs /\ a # t /\ ~(t < a)
    BY <1>1, <1>2, <1>3 DEF Started
  <2> QED BY <1>3, <2>1 DEF C!Runs
<1>5. FrameTypes'
  <2>1. parent' \in Callers
    BY <1>1, <1>2, <1>3, <1>4 DEF FrameTypes, Callers
  <2>2. status' \in [C!Runs -> {"new", "executing", "suspended", "resumed", "settled", "done"}]
    BY <1>1, <1>2 DEF FrameTypes
  <2>3. previous' \in [C!Runs -> C!Runs \cup {0}] /\ current' \in C!Runs \cup {0}
    BY <1>1, <1>2 DEF FrameTypes
  <2>4. stack' \in Seq(C!Runs)
    BY <1>1, <1>2 DEF FrameTypes
  <2> QED BY <2>1, <2>2, <2>3, <2>4 DEF FrameTypes
<1>6. Started'
  <2>1. \A u \in C!Runs : u < t => status[u] # "new"
    BY <1>1 DEF C!Runs
  <2>2. \A u \in C!Runs : status'[u] = "new" <=> status[u] = "new" /\ u # t
    BY <1>1, <1>2 DEF FrameTypes
  <2>3. ASSUME NEW v \in C!Runs, NEW u \in C!Runs, u < v, status'[u] = "new" PROVE status'[v] = "new"
    <3>1. v # t /\ status[v] = "new"
      BY <1>2, <2>1, <2>2, <2>3 DEF Started
    <3> QED BY <2>2, <3>1
  <2>4. ASSUME NEW v \in C!Runs, parent'[v] # 0 PROVE status'[parent'[v]] # "new"
    <3>1. CASE v = t
      BY <1>1, <1>2, <1>3, <2>2, <2>4, <3>1 DEF FrameTypes, Callers
    <3>2. CASE v # t
      <4>1. parent'[v] = parent[v] /\ parent[v] \in C!Runs /\ status[parent[v]] # "new"
        BY <1>1, <1>2, <2>4, <3>2 DEF FrameTypes, Callers, Started
      <4> QED BY <2>2, <4>1
    <3> QED BY <3>1, <3>2
  <2> QED BY <2>3, <2>4 DEF Started
<1>7. \A u \in C!Runs \cup {0} : u # t => AroundIn(parent', u) = AroundIn(parent, u)
  <2>1. \A v \in C!Runs \ {t} : parent'[v] = parent[v] /\ parent[v] # t
    BY <1>1, <1>2 DEF FrameTypes, Callers, Started, C!Runs
  <2> QED BY <2>1, AroundOthers
<1>8. AroundIn(parent', t) = AroundIn(parent, a) \cup {t}
  <2>1. parent'[t] = a /\ a # t
    <3>1. parent'[t] = a
      BY <1>1, <1>2 DEF FrameTypes, Callers
    <3>2. a # t
      BY <1>3, <1>4 DEF C!Runs
    <3> QED BY <3>1, <3>2
  <2> QED BY <1>3, <1>5, <1>7, <2>1, AroundCaller DEF FrameTypes
<1>9. Stacked'
  <2>1. /\ Len(stack') = Len(stack) + 1 /\ stack'[Len(stack) + 1] = t
        /\ \A i \in 1..Len(stack) : stack'[i] = stack[i] /\ stack[i] \in C!Runs
        /\ 1..Len(stack') = 1..Len(stack) \cup {Len(stack) + 1}
        /\ Len(stack) \in Nat
    BY <1>1, <1>2 DEF FrameTypes
  <2>2. \A i \in 1..Len(stack) : status[stack[i]] \in {"executing", "resumed"} /\ stack[i] # t
    BY <1>1, <1>2, <2>1 DEF Stacked
  <2>3. ASSUME NEW u \in C!Runs
        PROVE  status'[u] \in {"executing", "resumed"} <=> \E i \in 1..Len(stack') : stack'[i] = u
    <3>1. CASE u = t
      BY <1>1, <1>2, <2>1, <3>1 DEF FrameTypes
    <3>2. CASE u # t
      <4>1. status'[u] = status[u]
        BY <1>1, <1>2, <3>2 DEF FrameTypes
      <4> QED BY <1>2, <2>1, <3>2, <4>1 DEF Stacked
    <3> QED BY <3>1, <3>2
  <2>4. ASSUME NEW i \in 1..Len(stack'), NEW j \in 1..Len(stack'), stack'[i] = stack'[j] PROVE i = j
    BY <1>2, <2>1, <2>2, <2>4 DEF Stacked
  <2>5. ASSUME NEW i \in 1..Len(stack'), NEW j \in 1..Len(stack'), i <= j
        PROVE  stack'[i] \in AroundIn(parent', stack'[j])
    <3>1. CASE j = Len(stack) + 1
      BY <1>2, <1>8, <2>1, <2>2, <3>1, TheActor
    <3>2. CASE j # Len(stack) + 1
      <4>1. i \in 1..Len(stack) /\ j \in 1..Len(stack)
        BY <2>1, <2>5, <3>2
      <4>2. stack[i] \in AroundIn(parent, stack[j])
        BY <1>2, <2>5, <4>1 DEF Stacked
      <4> QED BY <1>7, <2>1, <2>2, <4>1, <4>2
    <3> QED BY <3>1, <3>2
  <2> QED BY <2>3, <2>4, <2>5 DEF Stacked
<1>10. Nested'
  <2> SUFFICES ASSUME ~tracked, ~overlapped, ~C!Beside(a) PROVE Nested'
    BY <1>1 DEF Nested
  <2>1. current = a /\ current' = t
    BY <1>1, ActorIsCurrent
  <2>2. Live = AroundIn(parent, a) /\ \A u \in Live : previous[u] = parent[u]
    BY <1>2, <2>1 DEF Nested
  <2>3. Live' = Live \cup {t} /\ t \notin Live
    BY <1>1, <1>2 DEF Live, FrameTypes
  <2>4. \A u \in Live' : previous'[u] = parent'[u]
    BY <1>1, <1>2, <2>1, <2>2, <2>3 DEF FrameTypes, Callers, Live
  <2>5. \A u \in C!Runs : status'[u] # "settled"
    <3>1. \A u \in C!Runs : status[u] = "settled" => u = a
      BY <1>2, <2>1 DEF Nested
    <3>2. \A u \in C!Runs : status[u] # "settled"
      BY <1>3, <3>1 DEF C!Runs
    <3> QED BY <1>1, <1>2, <3>2 DEF FrameTypes
  <2> QED BY <1>8, <2>1, <2>2, <2>3, <2>4, <2>5 DEF Nested
<1> QED BY <1>5, <1>6, <1>9, <1>10 DEF FrameInv

LEMMA Pieces ==
  ASSUME NEW S, NEW s \in Seq(S), NEW m \in 1..(Len(s) + 1), NEW n \in (m - 1)..Len(s)
  PROVE  /\ SubSeq(s, m, n) \in Seq(S) /\ Len(SubSeq(s, m, n)) = n - m + 1
         /\ \A i \in 1..(n - m + 1) : SubSeq(s, m, n)[i] = s[m + i - 1]
<1>1. \A i \in m..n : s[i] \in S
  OBVIOUS
<1> QED BY <1>1, SubSeqProperties

(* The callback that executes gives way to the one that called it.          *)
LEMMA Gives ==
  ASSUME FrameInv, stack # <<>>, NEW s \in {"suspended", "settled", "done"},
         status' = [status EXCEPT ![C!Actor] = s], stack' = C!Front(stack), parent' = parent
  PROVE  /\ Started' /\ Stacked' /\ stack' \in Seq(C!Runs)
         /\ status' \in [C!Runs -> {"new", "executing", "suspended", "resumed", "settled", "done"}]
         /\ \A t \in C!Runs : status'[t] = IF t = C!Actor THEN s ELSE status[t]
<1> DEFINE a == C!Actor  n == Len(stack)
<1>0. FrameTypes /\ Started /\ Stacked
  BY DEF FrameInv
<1>1. /\ a \in C!Runs /\ status[a] \in {"executing", "resumed"}
      /\ n \in 1..n /\ a = stack[n]
  BY <1>0, TheActor
<1>2. /\ stack' \in Seq(C!Runs) /\ Len(stack') = n - 1 /\ 1..Len(stack') = 1..n \ {n}
      /\ \A i \in 1..Len(stack') : stack'[i] = stack[i]
  <2>1. stack \in Seq(C!Runs) /\ n \in Nat /\ n # 0 /\ stack' = SubSeq(stack, 1, n - 1)
    BY <1>0, <1>1 DEF C!Front, FrameTypes
  <2>2. /\ stack' \in Seq(C!Runs) /\ Len(stack') = n - 1
        /\ \A i \in 1..(n - 1) : stack'[i] = stack[i]
    <3>1. 1 \in 1..(Len(stack) + 1) /\ n - 1 \in (1 - 1)..Len(stack) /\ (n - 1) - 1 + 1 = n - 1
      BY <2>1
    <3>2. /\ SubSeq(stack, 1, n - 1) \in Seq(C!Runs) /\ Len(SubSeq(stack, 1, n - 1)) = (n - 1) - 1 + 1
          /\ \A i \in 1..((n - 1) - 1 + 1) : SubSeq(stack, 1, n - 1)[i] = stack[1 + i - 1]
      BY <2>1, <3>1, Pieces
    <3> QED BY <2>1, <3>1, <3>2
  <2> QED BY <2>1, <2>2
<1>3. \A t \in C!Runs : status'[t] = IF t = a THEN s ELSE status[t]
  BY <1>0 DEF FrameTypes
<1>4. status' \in [C!Runs -> {"new", "executing", "suspended", "resumed", "settled", "done"}]
  BY <1>0 DEF FrameTypes
<1>5. Started'
  <2>1. \A t \in C!Runs : status'[t] = "new" <=> status[t] = "new"
    BY <1>1, <1>3
  <2> QED BY <1>0, <2>1 DEF Started, FrameTypes, Callers
<1>6. Stacked'
  <2>1. ASSUME NEW t \in C!Runs
        PROVE  status'[t] \in {"executing", "resumed"} <=> \E i \in 1..Len(stack') : stack'[i] = t
    <3>1. CASE t = a
      BY <1>0, <1>1, <1>2, <1>3, <3>1 DEF Stacked
    <3>2. CASE t # a
      BY <1>0, <1>1, <1>2, <1>3, <3>2 DEF Stacked
    <3> QED BY <3>1, <3>2
  <2> QED BY <1>0, <1>2, <2>1 DEF Stacked
<1> QED BY <1>2, <1>3, <1>4, <1>5, <1>6

(* A run that ends on top of the nesting leaves its caller on top.          *)
LEMMA Ends ==
  ASSUME FrameInv, ~tracked, ~overlapped, current # 0, NEW s \in {"done"}, tracked' = tracked,
         status' = [status EXCEPT ![current] = s], current' = previous[current],
         parent' = parent, previous' = previous, status[current] # "done"
  PROVE  Nested' /\ current' \in C!Runs \cup {0}
<1>1. /\ current \in C!Runs /\ parent \in Callers
      /\ Live = AroundIn(parent, current) /\ \A t \in Live : previous[t] = parent[t]
      /\ \A t \in C!Runs : status[t] = "settled" => t = current
  BY DEF FrameInv, FrameTypes, Nested
<1>2. current \in Live
  BY <1>1, AroundBounds
<1>3. current' = parent[current] /\ parent[current] \in C!Runs \cup {0} /\ parent[current] < current
  BY <1>1, <1>2 DEF Callers
<1>4. current \notin AroundIn(parent, parent[current])
  <2>1. CASE parent[current] = 0
    BY <2>1, AroundNone
  <2>2. CASE parent[current] \in C!Runs
    <3>1. current \in AroundIn(parent, parent[current]) => current <= parent[current]
      BY <1>1, <2>2, AroundBounds
    <3> QED BY <1>1, <1>3, <2>2, <3>1 DEF C!Runs
  <2> QED BY <1>3, <2>1, <2>2
<1>5. \A t \in C!Runs : status'[t] = IF t = current THEN "done" ELSE status[t]
  BY DEF FrameInv, FrameTypes
<1>6. Live' = Live \ {current}
  BY <1>1, <1>5 DEF Live
<1>7. AroundIn(parent, current) = AroundIn(parent, parent[current]) \cup {current}
  BY <1>1, AroundCaller
<1>8. Live' = AroundIn(parent', current')
  BY <1>1, <1>3, <1>4, <1>6, <1>7
<1>9. \A t \in Live' : previous'[t] = parent'[t]
  BY <1>1, <1>6
<1>10. \A t \in C!Runs : status'[t] # "settled"
  BY <1>1, <1>5
<1> QED BY <1>3, <1>8, <1>9, <1>10 DEF Nested

LEMMA FrameNext == ASSUME FrameInv, [Next]_vars PROVE FrameInv'
<1>0. FrameTypes /\ Started /\ Stacked /\ Nested
  BY DEF FrameInv
<1>1. ASSUME NEW t \in C!Runs, NEW context, C!Run(t, context) PROVE FrameInv'
  BY <1>1, RunStep
<1>2. ASSUME NEW t \in C!Runs,
             C!RunWithLogContext(t) \/ C!RunWithMergedLogContext(t)
             \/ C!RunWithExecutionLogContext(t) \/ C!RunWithCapturedLogContext(t)
      PROVE  FrameInv'
  BY <1>1, <1>2 DEF C!RunWithLogContext, C!RunWithMergedLogContext, C!RunWithExecutionLogContext,
                    C!RunWithCapturedLogContext
<1>3. ASSUME NEW t \in C!Runs, C!Resume(t) PROVE FrameInv'
  <2>1. /\ stack = <<>> /\ status[t] = "suspended" /\ stack' = <<t>>
        /\ status' = [status EXCEPT ![t] = "resumed"]
        /\ overlapped' = (overlapped \/ C!Beside(t))
        /\ UNCHANGED <<tracked, current, parent, previous>>
    BY <1>3 DEF C!Resume
  <2>2. \A u \in C!Runs : status'[u] = IF u = t THEN "resumed" ELSE status[u]
    BY <1>0, <2>1 DEF FrameTypes
  <2>3. FrameTypes'
    <3>1. status' \in [C!Runs -> {"new", "executing", "suspended", "resumed", "settled", "done"}]
      BY <1>0, <2>1 DEF FrameTypes
    <3> QED BY <1>0, <2>1, <3>1 DEF FrameTypes
  <2>4. Started'
    <3>1. \A u \in C!Runs : status'[u] = "new" <=> status[u] = "new"
      BY <2>1, <2>2
    <3> QED BY <1>0, <2>1, <3>1 DEF Started, FrameTypes, Callers
  <2>5. Stacked'
    <3>1. 1..Len(stack') = {1} /\ stack'[1] = t
      BY <2>1
    <3>2. \A u \in C!Runs : status[u] \notin {"executing", "resumed"}
      BY <1>0, <2>1, TheActor
    <3>3. t \in AroundIn(parent, t)
      BY <1>0, AroundBounds DEF FrameTypes
    <3> QED BY <2>1, <2>2, <3>1, <3>2, <3>3 DEF Stacked
  <2>6. Nested'
    <3>1. Live' = Live
      BY <2>1, <2>2 DEF Live
    <3> SUFFICES ASSUME ~tracked, ~overlapped PROVE Nested'
      BY <2>1 DEF Nested
    <3>2. /\ Live = AroundIn(parent, current) /\ \A u \in Live : previous[u] = parent[u]
          /\ \A u \in C!Runs : status'[u] = "settled" => u = current
      BY <1>0, <2>2 DEF Nested
    <3> QED BY <2>1, <3>1, <3>2 DEF Nested
  <2> QED BY <2>3, <2>4, <2>5, <2>6 DEF FrameInv
<1>4. ASSUME NEW t \in C!Runs, C!Finally(t) PROVE FrameInv'
  <2>1. /\ stack = <<>> /\ status[t] = "settled" /\ current' = previous[t]
        /\ status' = [status EXCEPT ![t] = "done"]
        /\ UNCHANGED <<tracked, parent, previous, stack, overlapped>>
    BY <1>4 DEF C!Finally
  <2>2. \A u \in C!Runs : status'[u] = IF u = t THEN "done" ELSE status[u]
    BY <1>0, <2>1 DEF FrameTypes
  <2>3. FrameTypes'
    <3>1. status' \in [C!Runs -> {"new", "executing", "suspended", "resumed", "settled", "done"}]
      BY <1>0, <2>1 DEF FrameTypes
    <3> QED BY <1>0, <2>1, <3>1 DEF FrameTypes
  <2>4. Started'
    <3>1. \A u \in C!Runs : status'[u] = "new" <=> status[u] = "new"
      BY <2>1, <2>2
    <3> QED BY <1>0, <2>1, <3>1 DEF Started, FrameTypes, Callers
  <2>5. Stacked'
    BY <1>0, <2>1, <2>2 DEF Stacked
  <2>6. Nested'
    <3> SUFFICES ASSUME ~tracked, ~overlapped PROVE Nested'
      BY <2>1 DEF Nested
    <3>1. t = current /\ current # 0 /\ status[current] # "done"
      BY <1>0, <2>1 DEF Nested, C!Runs
    <3> QED BY <2>1, <3>1, Ends
  <2> QED BY <2>3, <2>4, <2>5, <2>6 DEF FrameInv
<1>5. CASE C!Await
  <2>1. /\ stack # <<>> /\ stack' = C!Front(stack)
        /\ status' = [status EXCEPT ![C!Actor] = "suspended"]
        /\ UNCHANGED <<tracked, current, parent, previous, overlapped>>
    BY <1>5 DEF C!Await
  <2>2. /\ Started' /\ Stacked' /\ stack' \in Seq(C!Runs)
        /\ status' \in [C!Runs -> {"new", "executing", "suspended", "resumed", "settled", "done"}]
        /\ \A t \in C!Runs : status'[t] = IF t = C!Actor THEN "suspended" ELSE status[t]
    BY <2>1, Gives
  <2>3. Live' = Live
    BY <1>0, <2>1, <2>2, TheActor DEF Live
  <2>4. Nested'
    BY <1>0, <2>1, <2>2, <2>3 DEF Nested
  <2> QED BY <1>0, <2>1, <2>2, <2>4 DEF FrameInv, FrameTypes
<1>6. CASE C!Return
  <2>1. /\ stack # <<>> /\ stack' = C!Front(stack) /\ status[C!Actor] = "executing"
        /\ status' = [status EXCEPT ![C!Actor] = "done"]
        /\ current' = IF tracked THEN current ELSE previous[C!Actor]
        /\ overlapped' = (overlapped \/ C!Beside(C!Actor))
        /\ UNCHANGED <<tracked, parent, previous>>
    BY <1>6 DEF C!Return, C!Acts
  <2>2. /\ Started' /\ Stacked' /\ stack' \in Seq(C!Runs)
        /\ status' \in [C!Runs -> {"new", "executing", "suspended", "resumed", "settled", "done"}]
    BY <2>1, Gives
  <2>3. C!Actor \in C!Runs
    BY <1>0, <2>1, TheActor
  <2>4. current' \in C!Runs \cup {0}
    BY <1>0, <2>1, <2>3 DEF FrameTypes
  <2>5. Nested'
    <3> SUFFICES ASSUME ~tracked, ~overlapped, ~C!Beside(C!Actor) PROVE Nested'
      BY <2>1 DEF Nested
    <3>1. current = C!Actor /\ current # 0
      BY <2>3, ActorIsCurrent DEF C!Runs
    <3> QED BY <2>1, <3>1, Ends
  <2> QED BY <1>0, <2>1, <2>2, <2>4, <2>5 DEF FrameInv, FrameTypes
<1>7. CASE C!Settle
  <2> DEFINE s == IF tracked THEN "done" ELSE "settled"
  <2>1. /\ stack # <<>> /\ stack' = C!Front(stack) /\ status[C!Actor] = "resumed"
        /\ status' = [status EXCEPT ![C!Actor] = s]
        /\ overlapped' = (overlapped \/ C!Beside(C!Actor))
        /\ UNCHANGED <<tracked, current, parent, previous>>
    BY <1>7 DEF C!Settle, C!Acts
  <2>2. /\ Started' /\ Stacked' /\ stack' \in Seq(C!Runs)
        /\ status' \in [C!Runs -> {"new", "executing", "suspended", "resumed", "settled", "done"}]
        /\ \A t \in C!Runs : status'[t] = IF t = C!Actor THEN s ELSE status[t]
    BY <2>1, Gives
  <2>3. Nested'
    <3> SUFFICES ASSUME ~tracked, ~overlapped, ~C!Beside(C!Actor) PROVE Nested'
      BY <2>1 DEF Nested
    <3>1. current = C!Actor
      BY ActorIsCurrent
    <3>2. Live' = Live
      BY <2>1, <2>2 DEF Live
    <3> QED BY <1>0, <2>1, <2>2, <3>1, <3>2 DEF Nested
  <2> QED BY <1>0, <2>1, <2>2, <2>3 DEF FrameInv, FrameTypes
<1>8. CASE C!CaptureLogContext \/ C!UpdateLogContext \/ C!UpdateExecutionLogContext
  <2>1. /\ UNCHANGED <<tracked, current, status, parent, previous, stack>>
        /\ overlapped' = (overlapped \/ C!Beside(C!Actor))
    BY <1>8 DEF C!CaptureLogContext, C!UpdateLogContext, C!UpdateExecutionLogContext, C!Rewrite, C!Acts
  <2>2. FrameTypes' /\ Started'
    BY <1>0, <2>1 DEF FrameTypes, Started
  <2>3. Stacked'
    BY <1>0, <2>1 DEF Stacked
  <2>4. Nested'
    BY <1>0, <2>1 DEF Nested, Live
  <2> QED BY <2>2, <2>3, <2>4 DEF FrameInv
<1>9. CASE UNCHANGED <<tracked, current, frames, status, parent, previous, stack, snapshot,
                       overlapped, cleared>>
  BY <1>0, <1>9 DEF FrameInv, FrameTypes, Started, Stacked, Nested, Live
<1> QED BY <1>2, <1>3, <1>4, <1>5, <1>6, <1>7, <1>8, <1>9, FramesStep DEF C!NextFrame

LEMMA FrameOwned == FrameInv => C!FrameIsOwn
<1>1. CASE tracked
  BY <1>1 DEF C!FrameIsOwn, C!Store
<1>2. CASE ~tracked
  BY <1>2, ActorIsCurrent DEF C!FrameIsOwn, C!Store
<1> QED BY <1>1, <1>2

-----------------------------------------------------------------------------
LEMMA ProviderStep ==
  ASSUME [Next]_vars
  PROVE  C!NextProvider \/ UNCHANGED <<provider, replaced, installed, unordered>>
<1>1. CASE UNCHANGED vars
  BY <1>1 DEF vars, recordVars, contextVars
<1>2. CASE C!NextFrame
  BY <1>2 DEF C!NextFrame, C!RunWithLogContext, C!RunWithMergedLogContext, C!RunWithExecutionLogContext,
    C!RunWithCapturedLogContext, C!Run, C!CaptureLogContext, C!UpdateLogContext,
    C!UpdateExecutionLogContext, C!Rewrite, C!Resume, C!Finally, C!Await, C!Return, C!Settle, C!providerVars
<1> QED BY <1>1, <1>2 DEF Next, recordVars, contextVars

(* Each provider replaced the one installed before it.                      *)
ProviderInv ==
  /\ installed \in Seq(Providers) /\ replaced \in [Providers -> Providers \cup {"none"}]
  /\ \A i, j \in 1..Len(installed) : installed[i] = installed[j] => i = j
  /\ ~unordered =>
       /\ provider = IF installed = <<>> THEN "none" ELSE installed[Len(installed)]
       /\ \A i \in 1..Len(installed) :
            replaced[installed[i]] = IF i = 1 THEN "none" ELSE installed[i - 1]
  /\ provider \in Providers \cup {"none"}

LEMMA ProviderInit == Init => ProviderInv
<1> SUFFICES ASSUME Init PROVE ProviderInv
  OBVIOUS
<1>1. provider = "none" /\ replaced = [p \in Providers |-> "none"] /\ installed = <<>>
  BY DEF Init, C!Init, C!None
<1>2. 1..Len(installed) = {}
  BY <1>1
<1> QED BY <1>1, <1>2 DEF ProviderInv

LEMMA Without ==
  ASSUME NEW S, NEW s \in Seq(S), NEW i \in 1..Len(s),
         \A j, k \in 1..Len(s) : s[j] = s[k] => j = k
  PROVE  LET r == C!RemoveAt(s, i) IN
         /\ r \in Seq(S) /\ Len(r) = Len(s) - 1
         /\ \A j \in 1..Len(r) : r[j] = IF j < i THEN s[j] ELSE s[j + 1]
         /\ \A j, k \in 1..Len(r) : r[j] = r[k] => j = k
<1> DEFINE a == SubSeq(s, 1, i - 1)  b == SubSeq(s, i + 1, Len(s))  r == a \o b
<1>1. C!RemoveAt(s, i) = r
  BY DEF C!RemoveAt
<1>2. /\ a \in Seq(S) /\ Len(a) = i - 1
      /\ \A j \in 1..(i - 1) : a[j] = s[j]
  <2>1. 1 \in 1..(Len(s) + 1) /\ i - 1 \in (1 - 1)..Len(s) /\ (i - 1) - 1 + 1 = i - 1
    OBVIOUS
  <2>2. /\ a \in Seq(S) /\ Len(a) = (i - 1) - 1 + 1
        /\ \A j \in 1..((i - 1) - 1 + 1) : a[j] = s[1 + j - 1]
    BY <2>1, Pieces
  <2> QED BY <2>1, <2>2
<1>3. /\ b \in Seq(S) /\ Len(b) = Len(s) - i
      /\ \A j \in 1..(Len(s) - i) : b[j] = s[i + j]
  <2>0. s \in Seq(S)
    OBVIOUS
  <2>1. i + 1 \in 1..(Len(s) + 1) /\ Len(s) \in ((i + 1) - 1)..Len(s) /\ Len(s) - (i + 1) + 1 = Len(s) - i
    OBVIOUS
  <2>2. /\ b \in Seq(S) /\ Len(b) = Len(s) - (i + 1) + 1
        /\ \A j \in 1..(Len(s) - (i + 1) + 1) : b[j] = s[(i + 1) + j - 1]
    BY ONLY <2>0, <2>1, Pieces
  <2>3. \A j \in 1..(Len(s) - i) : (i + 1) + j - 1 = i + j
    OBVIOUS
  <2> QED BY <2>1, <2>2, <2>3
<1> HIDE DEF a, b
<1>4. /\ r \in Seq(S) /\ Len(r) = Len(s) - 1
      /\ \A j \in 1..(Len(s) - 1) : r[j] = IF j < i THEN s[j] ELSE s[j + 1]
  <2>1. /\ r \in Seq(S) /\ Len(r) = Len(a) + Len(b)
        /\ \A j \in 1..Len(a) + Len(b) : r[j] = IF j <= Len(a) THEN a[j] ELSE b[j - Len(a)]
    <3>1. a \in Seq(S) /\ b \in Seq(S)
      BY <1>2, <1>3
    <3> QED BY ONLY <3>1, ConcatProperties
  <2>2. Len(a) + Len(b) = Len(s) - 1
    BY <1>2, <1>3
  <2>3. ASSUME NEW j \in 1..(Len(s) - 1) PROVE r[j] = IF j < i THEN s[j] ELSE s[j + 1]
    <3>1. CASE j < i
      <4>1. j \in 1..(i - 1) /\ r[j] = a[j]
        BY <1>2, <2>1, <2>2, <3>1
      <4> QED BY <1>2, <3>1, <4>1
    <3>2. CASE ~(j < i)
      <4>1. r[j] = b[j - (i - 1)]
        BY <1>2, <2>1, <2>2, <3>2
      <4>2. j - (i - 1) \in 1..(Len(s) - i) /\ i + (j - (i - 1)) = j + 1
        BY <3>2
      <4> QED BY <1>3, <3>2, <4>1, <4>2
    <3> QED BY <3>1, <3>2
  <2> HIDE DEF r
  <2> QED BY <2>1, <2>2, <2>3
<1> HIDE DEF r
<1>5. ASSUME NEW j \in 1..(Len(s) - 1), NEW k \in 1..(Len(s) - 1), r[j] = r[k] PROVE j = k
  <2> DEFINE f(x) == IF x < i THEN x ELSE x + 1
  <2>1. r[j] = s[f(j)] /\ r[k] = s[f(k)] /\ f(j) \in 1..Len(s) /\ f(k) \in 1..Len(s)
    BY <1>4
  <2>2. f(j) = f(k)
    BY <1>5, <2>1
  <2> QED BY <2>2
<1> QED BY <1>1, <1>4, <1>5

LEMMA ProviderNext == ASSUME ProviderInv, [Next]_vars PROVE ProviderInv'
<1>1. ASSUME NEW p \in Providers, C!InstallLogContextProvider(p) PROVE ProviderInv'
  <2>1. /\ replaced' = [replaced EXCEPT ![p] = provider] /\ provider' = p
        /\ installed' = Append(installed, p) /\ unordered' = unordered
        /\ \A i \in 1..Len(installed) : installed[i] # p
    BY <1>1 DEF C!InstallLogContextProvider, C!ToSet
  <2>2. /\ installed' \in Seq(Providers) /\ Len(installed') = Len(installed) + 1
        /\ installed'[Len(installed) + 1] = p /\ Len(installed) \in Nat
        /\ \A i \in 1..Len(installed) : installed'[i] = installed[i] /\ installed[i] \in Providers
        /\ 1..Len(installed') = 1..Len(installed) \cup {Len(installed) + 1}
    BY <2>1 DEF ProviderInv
  <2>3. replaced' \in [Providers -> Providers \cup {"none"}]
    BY <2>1 DEF ProviderInv
  <2>4. ASSUME NEW i \in 1..Len(installed'), NEW j \in 1..Len(installed'), installed'[i] = installed'[j]
        PROVE  i = j
    BY <2>1, <2>2, <2>4 DEF ProviderInv
  <2>5. ASSUME ~unordered
        PROVE  /\ provider' = IF installed' = <<>> THEN "none" ELSE installed'[Len(installed')]
               /\ \A i \in 1..Len(installed') :
                    replaced'[installed'[i]] = IF i = 1 THEN "none" ELSE installed'[i - 1]
    <3>1. provider' = installed'[Len(installed')] /\ installed' # <<>>
      BY <2>1, <2>2
    <3>2. ASSUME NEW i \in 1..Len(installed')
          PROVE  replaced'[installed'[i]] = IF i = 1 THEN "none" ELSE installed'[i - 1]
      <4>1. CASE i = Len(installed) + 1
        <5>1. replaced'[installed'[i]] = provider
          BY <2>1, <2>2, <4>1 DEF ProviderInv
        <5>2. CASE installed = <<>>
          BY <2>5, <4>1, <5>1, <5>2 DEF ProviderInv
        <5>3. CASE installed # <<>>
          <6>1. provider = installed[Len(installed)] /\ Len(installed) \in 1..Len(installed) /\ i # 1
            BY <2>2, <2>5, <4>1, <5>3 DEF ProviderInv
          <6> QED BY <2>2, <4>1, <5>1, <6>1
        <5> QED BY <5>2, <5>3
      <4>2. CASE i # Len(installed) + 1
        <5>1. i \in 1..Len(installed) /\ installed'[i] = installed[i] /\ installed[i] # p
          BY <2>1, <2>2, <4>2
        <5>2. replaced'[installed'[i]] = replaced[installed[i]]
          BY <2>1, <2>2, <5>1 DEF ProviderInv
        <5>3. i # 1 => i - 1 \in 1..Len(installed)
          BY <2>2, <5>1
        <5> QED BY <2>2, <2>5, <5>1, <5>2, <5>3 DEF ProviderInv
      <4> QED BY <4>1, <4>2
    <3> QED BY <3>1, <3>2
  <2> QED BY <2>1, <2>2, <2>3, <2>4, <2>5 DEF ProviderInv
<1>2. ASSUME NEW p \in Providers, C!RemoveProvider(p) PROVE ProviderInv'
  <2> DEFINE n == Len(installed)
             place == CHOOSE i \in DOMAIN installed : installed[i] = p
  <2>1. /\ provider' = replaced[p] /\ installed' = C!RemoveAt(installed, place) /\ replaced' = replaced
        /\ unordered' = (unordered \/ C!Last(installed) # p)
        /\ \E i \in DOMAIN installed : installed[i] = p
    BY <1>2 DEF C!RemoveProvider, C!ToSet
  <2>2. place \in 1..n /\ installed[place] = p /\ n \in Nat
    BY <2>1 DEF ProviderInv
  <2> HIDE DEF place
  <2>3. /\ installed' \in Seq(Providers) /\ Len(installed') = n - 1
        /\ \A i \in 1..Len(installed') : installed'[i] = IF i < place THEN installed[i] ELSE installed[i + 1]
        /\ \A i, j \in 1..Len(installed') : installed'[i] = installed'[j] => i = j
    BY <2>1, <2>2, Without DEF ProviderInv
  <2>4. ASSUME ~unordered, C!Last(installed) = p
        PROVE  /\ provider' = IF installed' = <<>> THEN "none" ELSE installed'[Len(installed')]
               /\ \A i \in 1..Len(installed') :
                    replaced'[installed'[i]] = IF i = 1 THEN "none" ELSE installed'[i - 1]
    <3>1. place = n /\ n \in 1..n
      BY <2>2, <2>4 DEF ProviderInv, C!Last
    <3>2. \A i \in 1..(n - 1) : installed'[i] = installed[i]
      BY <2>2, <2>3, <3>1
    <3>3. provider' = IF n = 1 THEN "none" ELSE installed[n - 1]
      BY <2>1, <2>2, <2>4, <3>1 DEF ProviderInv
    <3>4. n = 1 <=> installed' = <<>>
      BY <2>2, <2>3
    <3>5. n # 1 => n - 1 \in 1..(n - 1)
      BY <3>1, <2>2
    <3>6. ASSUME NEW i \in 1..(n - 1)
          PROVE  replaced'[installed'[i]] = IF i = 1 THEN "none" ELSE installed'[i - 1]
      <4>1. i \in 1..n /\ (i # 1 => i - 1 \in 1..(n - 1))
        BY <2>2
      <4> QED BY <2>1, <2>4, <3>2, <4>1 DEF ProviderInv
    <3> QED BY <2>3, <3>2, <3>3, <3>4, <3>5, <3>6
  <2>5. provider' \in Providers \cup {"none"}
    BY <2>1 DEF ProviderInv
  <2> QED BY <2>1, <2>3, <2>4, <2>5 DEF ProviderInv
<1>3. CASE UNCHANGED <<provider, replaced, installed, unordered>>
  BY <1>3 DEF ProviderInv
<1> QED BY <1>1, <1>2, <1>3, ProviderStep DEF C!NextProvider

LEMMA Unwound == ProviderInv => C!ProvidersUnwind
BY DEF ProviderInv, C!ProvidersUnwind, C!None, C!Last

(* LogContext's FrameIsOwn and ProvidersUnwind (src/context-shared.ts:36-57, *)
(* 172-177), for any number of run() calls and of installed providers.       *)
THEOREM ContextAlwaysOwn == Spec => []ContextIsOwn
<1>1. FrameInv /\ ProviderInv => ContextIsOwn
  BY FrameOwned, Unwound DEF ContextIsOwn
<1>2. Init => FrameInv /\ ProviderInv
  BY FrameInit, ProviderInit
<1>3. FrameInv /\ ProviderInv /\ [Next]_vars => (FrameInv /\ ProviderInv)'
  BY FrameNext, ProviderNext
<1> QED BY <1>1, <1>2, <1>3, PTL DEF Spec

-----------------------------------------------------------------------------
(* A context whose span and whose field of it are one.                      *)
Agrees(c) ==
  c.spanId = IF "otel.span_id" \in DOMAIN c.fields THEN c.fields["otel.span_id"] ELSE "none"

SpanInv ==
  ~cleared => /\ \A t \in C!Runs : Agrees(frames[t])
              /\ snapshot # <<>> => Agrees(snapshot[1])

LEMMA Merged ==
  ASSUME NEW c, Agrees(c), NEW p \in Patches
  PROVE  /\ Agrees(C!MergeLogContext(c, p))
         /\ p.spanId = "none" => Agrees(p)
         /\ (p.spanId = "cleared" => c.spanId = "none")
              => Agrees(C!ToStoredContext(C!MergeExecutionLogContexts(c, p)))
<1> DEFINE f == C!Spread(c.fields, p.fields)
           m == C!MergeExecutionLogContexts(c, p)
           s == C!ToStoredContext(m)
<1>1. "otel.span_id" \notin DOMAIN p.fields
  BY ContextAssumption
<1>2. /\ "otel.span_id" \in DOMAIN f <=> "otel.span_id" \in DOMAIN c.fields
      /\ "otel.span_id" \in DOMAIN f => f["otel.span_id"] = c.fields["otel.span_id"]
  BY <1>1 DEF C!Spread
<1>3. C!MergeLogContext(c, p).fields = f /\ C!MergeLogContext(c, p).spanId = c.spanId
  BY DEF C!MergeLogContext
<1>4. m.fields = f /\ m.spanId = CASE p.spanId = "none" -> c.spanId
                                   [] p.spanId = "cleared" -> "none"
                                   [] OTHER -> p.spanId
  BY DEF C!MergeExecutionLogContexts, C!None
<1>5. s.spanId = m.spanId /\ s.fields = C!ToLoggerFields(m)
  BY DEF C!ToStoredContext, C!MergeExecutionLogContexts
<1>6. ASSUME p.spanId = "cleared" => c.spanId = "none" PROVE Agrees(s)
  <2>1. CASE m.spanId = "none"
    <3>1. s.fields = f /\ s.spanId = "none" /\ c.spanId = "none"
      BY <1>4, <1>5, <1>6, <2>1 DEF C!ToLoggerFields, C!None
    <3> QED BY <1>2, <3>1 DEF Agrees
  <2>2. CASE m.spanId # "none"
    <3>1. s.fields = C!Spread(f, [k \in {"otel.span_id"} |-> m.spanId])
      BY <1>4, <1>5, <2>2 DEF C!ToLoggerFields, C!None, C!SpanKey
    <3>2. "otel.span_id" \in DOMAIN s.fields /\ s.fields["otel.span_id"] = m.spanId
      BY <3>1 DEF C!Spread
    <3> QED BY <1>5, <3>2 DEF Agrees
  <2> QED BY <2>1, <2>2
<1>7. Agrees(C!MergeLogContext(c, p))
  BY <1>2, <1>3 DEF Agrees
<1>8. p.spanId = "none" => Agrees(p)
  BY <1>1 DEF Agrees
<1> QED BY <1>6, <1>7, <1>8

LEMMA EmptyAgrees == Agrees(C!Empty)
<1>1. C!Empty.fields = <<>> /\ C!Empty.spanId = "none"
  BY DEF C!Empty, C!None
<1>2. "otel.span_id" \notin DOMAIN (<<>>)
  OBVIOUS
<1> QED BY <1>1, <1>2 DEF Agrees

LEMMA SpanInit == Init => DOMAIN frames = C!Runs /\ SpanInv
BY EmptyAgrees DEF Init, C!Init, SpanInv

LEMMA SpanNext ==
  ASSUME FrameInv, DOMAIN frames = C!Runs, SpanInv, [Next]_vars
  PROVE  DOMAIN frames' = C!Runs /\ SpanInv'
<1>1. C!Store \in C!Runs \cup {0}
  BY TheActor DEF FrameInv, FrameTypes, C!Store
<1>2. ~cleared => Agrees(C!Active) /\ (C!Store # 0 => Agrees(frames[C!Store]))
  BY <1>1, EmptyAgrees DEF C!Active, C!Outside, SpanInv
<1>3. ASSUME NEW t \in C!Runs, NEW c, frames' = [frames EXCEPT ![t] = c], snapshot' = snapshot,
             ~cleared' => ~cleared /\ Agrees(c)
      PROVE  DOMAIN frames' = C!Runs /\ SpanInv'
  BY <1>3 DEF SpanInv
<1>4. ASSUME NEW p, C!Clears(p), ~cleared' PROVE ~cleared /\ (p.spanId = "cleared" => C!Active.spanId = "none")
  BY <1>4 DEF C!Clears, C!None
<1>5. ASSUME NEW t \in C!Runs, C!RunWithLogContext(t) \/ C!RunWithMergedLogContext(t)
      PROVE  DOMAIN frames' = C!Runs /\ SpanInv'
  <2>0. PICK p \in Patches : /\ p.spanId = "none" /\ cleared' = cleared
                             /\ C!Run(t, p) \/ C!Run(t, C!MergeLogContext(C!Active, p))
    BY <1>5 DEF C!RunWithLogContext, C!RunWithMergedLogContext, C!None
  <2>1. PICK c : (c = p \/ c = C!MergeLogContext(C!Active, p)) /\ C!Run(t, c)
    BY <2>0
  <2>2. ~cleared => Agrees(c)
    BY <1>2, <2>0, <2>1, Merged
  <2> QED BY <1>3, <2>0, <2>1, <2>2 DEF C!Run
<1>6. ASSUME NEW t \in C!Runs, C!RunWithExecutionLogContext(t)
      PROVE  DOMAIN frames' = C!Runs /\ SpanInv'
  <2>1. PICK p \in Patches :
          /\ C!Run(t, C!ToStoredContext(C!MergeExecutionLogContexts(C!Active, p))) /\ C!Clears(p)
    BY <1>6 DEF C!RunWithExecutionLogContext
  <2> DEFINE c == C!ToStoredContext(C!MergeExecutionLogContexts(C!Active, p))
  <2>2. ~cleared' => ~cleared /\ Agrees(c)
    BY <1>2, <1>4, <2>1, Merged
  <2>3. frames' = [frames EXCEPT ![t] = c] /\ snapshot' = snapshot
    BY <2>1 DEF C!Run
  <2> HIDE DEF c
  <2> QED BY <1>3, <2>2, <2>3
<1>7. ASSUME NEW t \in C!Runs, C!RunWithCapturedLogContext(t)
      PROVE  DOMAIN frames' = C!Runs /\ SpanInv'
  <2>1. snapshot # <<>> /\ C!Run(t, snapshot[1]) /\ cleared' = cleared
    BY <1>7 DEF C!RunWithCapturedLogContext
  <2>2. ~cleared => Agrees(snapshot[1])
    BY <2>1 DEF SpanInv
  <2> QED BY <1>3, <2>1, <2>2 DEF C!Run
<1>8. CASE C!CaptureLogContext
  <2>1. C!Store # 0 /\ snapshot' = <<frames[C!Store]>> /\ frames' = frames /\ cleared' = cleared
    BY <1>8 DEF C!CaptureLogContext, C!Outside
  <2> QED BY <1>2, <2>1 DEF SpanInv
<1>9. CASE C!UpdateLogContext
  <2>1. PICK p \in Patches : C!Rewrite(C!MergeLogContext(C!Active, p)) /\ cleared' = cleared
    BY <1>9 DEF C!UpdateLogContext
  <2> DEFINE c == C!MergeLogContext(C!Active, p)
  <2>2. C!Store \in C!Runs /\ frames' = [frames EXCEPT ![C!Store] = c] /\ snapshot' = snapshot
    BY <1>1, <2>1 DEF C!Rewrite, C!Outside
  <2>3. ~cleared => Agrees(c)
    BY <1>2, Merged
  <2> HIDE DEF c
  <2> QED BY <1>3, <2>1, <2>2, <2>3
<1>10. CASE C!UpdateExecutionLogContext
  <2>1. PICK p \in Patches :
          C!Rewrite(C!ToStoredContext(C!MergeExecutionLogContexts(C!Active, p))) /\ C!Clears(p)
    BY <1>10 DEF C!UpdateExecutionLogContext
  <2> DEFINE c == C!ToStoredContext(C!MergeExecutionLogContexts(C!Active, p))
  <2>2. C!Store \in C!Runs /\ frames' = [frames EXCEPT ![C!Store] = c] /\ snapshot' = snapshot
    BY <1>1, <2>1 DEF C!Rewrite, C!Outside
  <2>3. ~cleared' => ~cleared /\ Agrees(c)
    BY <1>2, <1>4, <2>1, Merged
  <2> HIDE DEF c
  <2> QED BY <1>3, <2>2, <2>3
<1>11. ASSUME UNCHANGED <<frames, snapshot, cleared>>
       PROVE  DOMAIN frames' = C!Runs /\ SpanInv'
  BY <1>11 DEF SpanInv
<1>12. ASSUME NEW t \in C!Runs, C!Resume(t) \/ C!Finally(t) PROVE UNCHANGED <<frames, snapshot, cleared>>
  BY <1>12 DEF C!Resume, C!Finally
<1>13. C!Await \/ C!Return \/ C!Settle => UNCHANGED <<frames, snapshot, cleared>>
  BY DEF C!Await, C!Return, C!Settle
<1> QED BY <1>5, <1>6, <1>7, <1>8, <1>9, <1>10, <1>11, <1>12, <1>13, FramesStep DEF C!NextFrame

LEMMA SpanAgrees == SpanInv => C!SpanFieldsAgree
BY DEF SpanInv, Agrees, C!SpanFieldsAgree, C!SpanKey, C!None

(* 64-143 of src/execution-context-shared.ts: a frame's span and the field  *)
(* records take it from stay one through any sequence of merges, updates,   *)
(* captures and re-entries of any patches, until a patch clears a span.     *)
THEOREM SpanFieldsAlwaysAgree == Spec => []SpanFieldsAgree
<1> DEFINE Inv == FrameInv /\ DOMAIN frames = C!Runs /\ SpanInv
<1>1. Inv => SpanFieldsAgree
  BY SpanAgrees DEF SpanFieldsAgree
<1>2. Init => Inv
  BY FrameInit, SpanInit
<1>3. Inv /\ [Next]_vars => Inv'
  BY FrameNext, SpanNext
<1> QED BY <1>1, <1>2, <1>3, PTL DEF Spec

-----------------------------------------------------------------------------
(* LogRecords' loggers take a step of their own, or stay as they are.       *)
LEMMA LoggersStep ==
  ASSUME [Next]_vars
  PROVE  R!NextLogger \/ UNCHANGED <<options, optionsOf, tracker, asked, sharing>>
<1>1. CASE UNCHANGED vars
  BY <1>1 DEF vars, recordVars, loggerVars
<1>2. CASE R!NextEvent
  BY <1>2 DEF R!NextEvent, R!AddFields, R!EnrichEvent, R!ToJSON, R!ContextChanges, R!AddTrace,
              R!AddsTrace, R!loggerVars
<1> QED BY <1>1, <1>2 DEF Next, recordVars, loggerVars

Settled == [provider : {"als", "none"}, otel : BOOLEAN, errorTracking : Trackers \cup {"none"}]

LoggerTypes ==
  /\ options \in [R!Loggers -> Settled] /\ asked \in [R!Loggers -> Settled]
  /\ optionsOf \in [R!Loggers -> R!Loggers \cup {0}]
  /\ tracker \in [R!Loggers -> Trackers \cup {"none"}]
  /\ sharing \subseteq R!Loggers

(* An options object is one logger's, but for those that share it, and it   *)
(* is not the place of a logger that is still to come.                      *)
ObjectsApart ==
  /\ \A l, m \in R!Loggers :
       l # m /\ optionsOf[l] # 0 /\ optionsOf[l] = optionsOf[m] => l \in sharing /\ m \in sharing
  /\ \A l \in R!Loggers : optionsOf[l] # 0 => optionsOf[optionsOf[l]] # 0

LoggerInv == LoggerTypes /\ ObjectsApart /\ R!SettingsAreOwn

LEMMA LoggerInit == Init => LoggerInv
<1> SUFFICES ASSUME Init PROVE LoggerInv
  OBVIOUS
<1>1. R!Defaults \in Settled
  BY DEF R!Defaults, R!None, Settled
<1>2. LoggerTypes
  BY <1>1 DEF Init, R!Init, LoggerTypes, R!None
<1>3. ObjectsApart /\ R!SettingsAreOwn
  BY DEF Init, R!Init, ObjectsApart, R!SettingsAreOwn, R!Exists
<1> QED BY <1>2, <1>3 DEF LoggerInv

LEMMA NoLogger == 0 \notin R!Loggers
BY DEF R!Loggers

(* The constructor, with an object that is the logger's own or a shared one. *)
LEMMA ConstructStep ==
  ASSUME LoggerInv, NEW l \in R!Loggers, NEW o \in R!Loggers, NEW s \in Settled,
         R!Construct(l, o, s), sharing' \subseteq R!Loggers,
         \/ o = l /\ sharing' = sharing
         \/ \E m \in R!Loggers : /\ optionsOf[m] = o /\ m # l /\ s = options[o]
                                 /\ sharing' = sharing \cup {l, m}
  PROVE  LoggerInv'
<1>1. /\ optionsOf[l] = 0
      /\ options' = [options EXCEPT ![o] = s] /\ optionsOf' = [optionsOf EXCEPT ![l] = o]
      /\ tracker' = [tracker EXCEPT ![l] = s.errorTracking] /\ asked' = [asked EXCEPT ![l] = s]
  BY DEF R!Construct, R!Exists
<1>2. s.errorTracking \in Trackers \cup {"none"}
  BY DEF Settled
<1>3. LoggerTypes'
  BY <1>1, <1>2 DEF LoggerInv, LoggerTypes
<1>4. ObjectsApart'
  BY <1>1, NoLogger DEF LoggerInv, LoggerTypes, ObjectsApart
<1>5. ASSUME NEW k \in R!Loggers, optionsOf'[k] # 0, k \notin sharing'
      PROVE  options'[optionsOf'[k]] = asked'[k] /\ tracker'[k] = asked'[k].errorTracking
  <2>1. CASE k = l
    BY <1>1, <2>1 DEF LoggerInv, LoggerTypes
  <2>2. CASE k # l
    <3>1. /\ optionsOf'[k] = optionsOf[k] /\ asked'[k] = asked[k] /\ tracker'[k] = tracker[k]
          /\ optionsOf[k] # 0 /\ k \notin sharing
      BY <1>1, <1>5, <2>2 DEF LoggerInv, LoggerTypes
    <3>2. options[optionsOf[k]] = asked[k] /\ tracker[k] = asked[k].errorTracking
      BY <3>1 DEF LoggerInv, R!SettingsAreOwn, R!Exists, R!Settings
    <3>3. optionsOf[k] # o
      BY <1>1, <1>5, <3>1 DEF LoggerInv, ObjectsApart, LoggerTypes
    <3> QED BY <1>1, <3>1, <3>2, <3>3 DEF LoggerInv, LoggerTypes
  <2> QED BY <2>1, <2>2
<1>6. R!SettingsAreOwn'
  BY <1>5 DEF R!SettingsAreOwn, R!Exists, R!Settings
<1> QED BY <1>3, <1>4, <1>6 DEF LoggerInv

(* A setter writes through to the options object, which is nobody else's.   *)
LEMMA WriteStep ==
  ASSUME LoggerInv, NEW l \in R!Loggers, optionsOf[l] # 0,
         NEW s \in Settled, NEW a \in Settled,
         options' = [options EXCEPT ![optionsOf[l]] = s], asked' = [asked EXCEPT ![l] = a],
         optionsOf' = optionsOf, sharing' = sharing,
         tracker' \in [R!Loggers -> Trackers \cup {"none"}],
         \A k \in R!Loggers \ {l} : tracker'[k] = tracker[k],
         l \notin sharing => s = a /\ tracker'[l] = a.errorTracking
  PROVE  LoggerInv'
<1>1. LoggerTypes' /\ ObjectsApart'
  BY DEF LoggerInv, LoggerTypes, ObjectsApart
<1>2. ASSUME NEW k \in R!Loggers, optionsOf[k] # 0, k \notin sharing
      PROVE  options'[optionsOf[k]] = asked'[k] /\ tracker'[k] = asked'[k].errorTracking
  <2>1. CASE k = l
    BY <1>2, <2>1 DEF LoggerInv, LoggerTypes
  <2>2. CASE k # l
    <3>1. optionsOf[k] # optionsOf[l]
      BY <1>2, <2>2 DEF LoggerInv, ObjectsApart
    <3>2. options[optionsOf[k]] = asked[k] /\ tracker[k] = asked[k].errorTracking
      BY <1>2 DEF LoggerInv, R!SettingsAreOwn, R!Exists, R!Settings
    <3> QED BY <2>2, <3>1, <3>2 DEF LoggerInv, LoggerTypes
  <2> QED BY <2>1, <2>2
<1>3. R!SettingsAreOwn'
  BY <1>2 DEF R!SettingsAreOwn, R!Exists, R!Settings
<1> QED BY <1>1, <1>3 DEF LoggerInv

LEMMA LoggerNext == ASSUME LoggerInv, [Next]_vars PROVE LoggerInv'
<1> USE DEF R!None
<1>0. ASSUME NEW m \in R!Loggers, optionsOf[m] # 0
      PROVE  optionsOf[m] \in R!Loggers /\ options[optionsOf[m]] \in Settled
  BY <1>0 DEF LoggerInv, LoggerTypes
<1>1. ASSUME NEW l \in R!Loggers, R!New(l) PROVE LoggerInv'
  <2>1. CASE R!Construct(l, l, R!Defaults) /\ UNCHANGED sharing
    <3>1. R!Defaults \in Settled
      BY DEF R!Defaults, Settled
    <3> QED BY <2>1, <3>1, ConstructStep DEF LoggerInv, LoggerTypes
  <2>2. ASSUME NEW m \in R!Loggers, R!Exists(m), R!Construct(l, optionsOf[m], R!Settings(m)),
               sharing' = sharing \cup {l, m}
        PROVE  LoggerInv'
    <3>1. m # l /\ sharing' \subseteq R!Loggers
      BY <2>2 DEF R!Construct, R!Exists, LoggerInv, LoggerTypes
    <3>2. R!Settings(m) = options[optionsOf[m]] /\ optionsOf[m] # 0
      BY <2>2 DEF R!Settings, R!Exists
    <3> QED BY <1>0, <2>2, <3>1, <3>2, ConstructStep
  <2> QED BY <1>1, <2>1, <2>2 DEF R!New
<1>2. ASSUME NEW l \in R!Loggers, NEW m \in R!Loggers, R!Anew(l, m) PROVE LoggerInv'
  <2>1. R!Settings(m) \in Settled
    BY <1>0, <1>2 DEF R!Anew, R!Exists, R!Settings
  <2>2. \A t \in Trackers : [R!Settings(m) EXCEPT !.errorTracking = t] \in Settled
    BY <2>1 DEF Settled
  <2>3. PICK s \in Settled : R!Construct(l, l, s) /\ sharing' = sharing
    BY <1>2, <2>1, <2>2 DEF R!Anew
  <2> QED BY <2>3, ConstructStep DEF LoggerInv, LoggerTypes
<1>3. ASSUME NEW l \in R!Loggers,
             R!SetContextProvider(l) \/ R!SetOtelEnabled(l) \/ R!SetErrorTracking(l)
      PROVE  LoggerInv'
  <2>1. optionsOf[l] # 0
    BY <1>3 DEF R!SetContextProvider, R!SetOtelEnabled, R!SetErrorTracking, R!WriteThrough, R!Exists
  <2>2. /\ optionsOf[l] \in R!Loggers /\ options[optionsOf[l]] \in Settled /\ asked[l] \in Settled
        /\ l \notin sharing => options[optionsOf[l]] = asked[l] /\ tracker[l] = asked[l].errorTracking
    BY <1>0, <2>1 DEF LoggerInv, LoggerTypes, R!SettingsAreOwn, R!Exists, R!Settings
  <2>3. CASE R!SetContextProvider(l)
    <3>1. PICK p \in {"als", "none"} : R!WriteThrough(l, "provider", p) /\ tracker' = tracker
      BY <2>3 DEF R!SetContextProvider
    <3>2. /\ options' = [options EXCEPT ![optionsOf[l]] = [options[optionsOf[l]] EXCEPT !.provider = p]]
          /\ asked' = [asked EXCEPT ![l] = [asked[l] EXCEPT !.provider = p]]
          /\ optionsOf' = optionsOf /\ sharing' = sharing
      BY <3>1, <2>2 DEF R!WriteThrough, LoggerInv, LoggerTypes
    <3>3. /\ [options[optionsOf[l]] EXCEPT !.provider = p] \in Settled
          /\ [asked[l] EXCEPT !.provider = p] \in Settled
          /\ [asked[l] EXCEPT !.provider = p].errorTracking = asked[l].errorTracking
      BY <2>2 DEF Settled
    <3> QED BY <2>1, <2>2, <3>1, <3>2, <3>3, WriteStep DEF LoggerInv, LoggerTypes
  <2>4. CASE R!SetOtelEnabled(l)
    <3>1. PICK p \in BOOLEAN : R!WriteThrough(l, "otel", p) /\ tracker' = tracker
      BY <2>4 DEF R!SetOtelEnabled
    <3>2. /\ options' = [options EXCEPT ![optionsOf[l]] = [options[optionsOf[l]] EXCEPT !.otel = p]]
          /\ asked' = [asked EXCEPT ![l] = [asked[l] EXCEPT !.otel = p]]
          /\ optionsOf' = optionsOf /\ sharing' = sharing
      BY <3>1, <2>2 DEF R!WriteThrough, LoggerInv, LoggerTypes
    <3>3. /\ [options[optionsOf[l]] EXCEPT !.otel = p] \in Settled
          /\ [asked[l] EXCEPT !.otel = p] \in Settled
          /\ [asked[l] EXCEPT !.otel = p].errorTracking = asked[l].errorTracking
      BY <2>2 DEF Settled
    <3> QED BY <2>1, <2>2, <3>1, <3>2, <3>3, WriteStep DEF LoggerInv, LoggerTypes
  <2>5. CASE R!SetErrorTracking(l)
    <3>1. PICK p \in Trackers : /\ R!WriteThrough(l, "errorTracking", p)
                                /\ tracker' = [tracker EXCEPT ![l] = p]
      BY <2>5 DEF R!SetErrorTracking
    <3>2. /\ options' = [options EXCEPT ![optionsOf[l]] = [options[optionsOf[l]] EXCEPT !.errorTracking = p]]
          /\ asked' = [asked EXCEPT ![l] = [asked[l] EXCEPT !.errorTracking = p]]
          /\ optionsOf' = optionsOf /\ sharing' = sharing
      BY <3>1, <2>2 DEF R!WriteThrough, LoggerInv, LoggerTypes
    <3>3. /\ [options[optionsOf[l]] EXCEPT !.errorTracking = p] \in Settled
          /\ [asked[l] EXCEPT !.errorTracking = p] \in Settled
          /\ [asked[l] EXCEPT !.errorTracking = p].errorTracking = p
      BY <2>2 DEF Settled
    <3>4. /\ tracker' \in [R!Loggers -> Trackers \cup {"none"}] /\ tracker'[l] = p
          /\ \A k \in R!Loggers \ {l} : tracker'[k] = tracker[k]
      BY <3>1 DEF LoggerInv, LoggerTypes
    <3> QED BY <2>1, <2>2, <3>2, <3>3, <3>4, WriteStep
  <2> QED BY <1>3, <2>3, <2>4, <2>5
<1>4. CASE UNCHANGED <<options, optionsOf, tracker, asked, sharing>>
  BY <1>4 DEF LoggerInv, LoggerTypes, ObjectsApart, R!SettingsAreOwn, R!Exists, R!Settings
<1> QED BY <1>1, <1>2, <1>3, <1>4, LoggersStep DEF R!NextLogger

(* 1339-1375, 1449-1460: a logger has its own settings, and those it was    *)
(* derived from, for any number of loggers and calls.                       *)
THEOREM SettingsAlwaysOwn == Spec => []SettingsAreOwn
<1>1. LoggerInv => SettingsAreOwn
  BY DEF LoggerInv, SettingsAreOwn
<1>2. LoggerInv /\ [Next]_vars => LoggerInv'
  BY LoggerNext
<1> QED BY <1>1, <1>2, LoggerInit, PTL DEF Spec

-----------------------------------------------------------------------------
LEMMA WorkersStep ==
  ASSUME [Next]_vars
  PROVE  W!Next \/ UNCHANGED <<buffered, running, responded, over, made, emitted>>
<1>1. CASE UNCHANGED vars
  BY <1>1 DEF vars, recordVars, workerVars
<1> QED BY <1>1 DEF Next, recordVars, workerVars

Bound == [request : W!Invocations \cup {"none"}, cron : W!Invocations \cup {"none"},
          context : W!Invocations \cup {"none"}, given : BOOLEAN]
Emission == [logger : Bound, in : W!Invocations, waited : W!Invocations \cup {"none"},
             state : {"pending", "queued", "written", "cut"}]

WorkerTypes ==
  /\ buffered \in BOOLEAN
  /\ running \subseteq W!Invocations /\ responded \subseteq W!Invocations /\ over \subseteq responded
  /\ running \cap responded = {}
  /\ made \in Seq(Bound) /\ emitted \in Seq(Emission)

(* A record on its way is waited for by the context of its handler, which   *)
(* therefore lives, and only a buffered one is queued.                      *)
Awaited(r) ==
  /\ r.in \in running \cup responded
  /\ r.state = "pending" /\ r.logger.context = r.in => r.waited = r.in
  /\ r.state = "pending" => r.waited \notin over
  /\ r.state = "queued" => buffered
  /\ r.state = "cut" /\ r.logger.context = r.in => buffered

OneTrigger(l) ==
  /\ "none" \in {l.request, l.cron}
  /\ l.given => l.context \in {l.request, l.cron}

WorkerInv ==
  /\ WorkerTypes
  /\ \A d \in DOMAIN emitted : Awaited(emitted[d])
  /\ \A n \in DOMAIN made : OneTrigger(made[n])

LEMMA WorkerInit == Init => WorkerInv
<1> SUFFICES ASSUME Init PROVE WorkerInv
  OBVIOUS
<1>1. W!Unbound \in Bound /\ OneTrigger(W!Unbound)
  BY DEF W!Unbound, Bound, W!None, OneTrigger
<1>2. made = <<W!Unbound>> /\ emitted = <<>> /\ running = {} /\ responded = {} /\ over = {}
  BY DEF Init, W!Init
<1>3. buffered \in BOOLEAN
  BY DEF Init, W!Init
<1> QED BY <1>1, <1>2, <1>3 DEF WorkerInv, WorkerTypes

LEMMA AppendAll ==
  ASSUME NEW S, NEW s \in Seq(S), NEW x \in S
  PROVE  /\ Append(s, x) \in Seq(S)
         /\ \A d \in DOMAIN Append(s, x) :
              (d \in DOMAIN s /\ Append(s, x)[d] = s[d]) \/ Append(s, x)[d] = x
OBVIOUS

LEMMA ForInvocationStep ==
  ASSUME WorkerInv, NEW n \in DOMAIN made, NEW i \in W!Invocations, NEW withContext \in BOOLEAN
  PROVE  LET l == W!ChildWithout(made[n], IF i \in Requests THEN "cron" ELSE "request",
                                W!Binding(made[n], i, withContext))
         IN l \in Bound /\ OneTrigger(l)
<1> DEFINE o == made[n]
           drop == IF i \in Requests THEN "cron" ELSE "request"
           b == W!Binding(o, i, withContext)
           l == W!ChildWithout(o, drop, b)
<1>1. o \in Bound /\ OneTrigger(o)
  BY DEF WorkerInv, WorkerTypes
<1> HIDE DEF o
<1>2. DOMAIN b = {"given"} \cup {IF i \in Requests THEN "request" ELSE "cron"}
                 \cup (IF withContext THEN {"context"} ELSE {})
  BY DEF W!Binding, W!Spread
<1>3. /\ b["given"] = (o.given /\ withContext)
      /\ b[IF i \in Requests THEN "request" ELSE "cron"] = i
      /\ withContext => b["context"] = i
  BY DEF W!Binding, W!Spread
<1> HIDE DEF b
<1>4. /\ DOMAIN o = {"request", "cron", "context", "given"}
      /\ \A k \in DOMAIN o : [o EXCEPT ![drop] = "none"][k] = IF k = drop THEN "none" ELSE o[k]
      /\ DOMAIN [o EXCEPT ![drop] = "none"] = DOMAIN o
  BY <1>1 DEF Bound
<1>5. l = [k \in {"request", "cron", "context", "given"} |->
             IF k \in DOMAIN b THEN b[k] ELSE IF k = drop THEN "none" ELSE o[k]]
  BY <1>2, <1>4 DEF W!ChildWithout, W!Spread, W!None
<1>6. /\ l.given = (o.given /\ withContext)
      /\ l.context = (IF withContext THEN i ELSE o.context)
      /\ l.request = (IF i \in Requests THEN i ELSE "none")
      /\ l.cron = (IF i \in Requests THEN "none" ELSE i)
  BY <1>2, <1>3, <1>5
<1>7. l \in Bound
  BY <1>1, <1>5, <1>6 DEF Bound
<1>8. OneTrigger(l)
  BY <1>1, <1>6 DEF OneTrigger
<1> QED BY <1>7, <1>8 DEF o, b

LEMMA WorkerNext == ASSUME WorkerInv, [Next]_vars PROVE WorkerInv'
<1>1. ASSUME NEW l \in Bound, OneTrigger(l), W!Make(l) PROVE WorkerInv'
  <2>1. /\ made' = Append(made, l) /\ UNCHANGED <<buffered, running, responded, over, emitted>>
    BY <1>1 DEF W!Make
  <2>2. made' \in Seq(Bound) /\ \A d \in DOMAIN made' : OneTrigger(made'[d])
    BY <1>1, <2>1, AppendAll DEF WorkerInv, WorkerTypes
  <2> QED BY <2>1, <2>2 DEF WorkerInv, WorkerTypes, Awaited
<1>2. ASSUME NEW n \in DOMAIN made, NEW i \in W!Invocations, NEW withContext \in BOOLEAN,
             W!ForInvocation(n, i, withContext)
      PROVE  WorkerInv'
  BY <1>1, <1>2, ForInvocationStep DEF W!ForInvocation
<1>3. ASSUME NEW n \in DOMAIN made, W!Anew(n) PROVE WorkerInv'
  <2>1. made[n] \in Bound /\ OneTrigger(made[n])
    BY DEF WorkerInv, WorkerTypes
  <2> QED BY <1>1, <1>3, <2>1 DEF W!Anew
<1>4. ASSUME NEW n \in DOMAIN made, NEW i \in W!Invocations, W!Emit(n, i) PROVE WorkerInv'
  <2> DEFINE c == made[n].context
             r == [logger |-> made[n], in |-> i, waited |-> IF W!Alive(c) THEN c ELSE "none",
                   state |-> "pending"]
  <2>1. /\ i \in running /\ emitted' = Append(emitted, r)
        /\ UNCHANGED <<buffered, running, responded, over, made>>
    BY <1>4 DEF W!Emit, W!None
  <2>0. made[n] \in Bound
    BY DEF WorkerInv, WorkerTypes
  <2>2. made[n] \in Bound /\ c \in W!Invocations \cup {"none"}
    BY <2>0 DEF Bound
  <2>3. r \in Emission
    BY <2>2 DEF Emission, W!Alive
  <2>4. Awaited(r)
    <3>1. i \notin over
      BY <2>1 DEF WorkerInv, WorkerTypes
    <3>2. c = i => r.waited = i
      BY <3>1 DEF W!Alive
    <3>3. r.waited \notin over
      BY LoggingAssumption DEF W!Alive, WorkerInv, WorkerTypes, W!Invocations
    <3> QED BY <2>1, <3>2, <3>3 DEF Awaited
  <2> HIDE DEF r
  <2>5. emitted' \in Seq(Emission) /\ \A d \in DOMAIN emitted' : Awaited(emitted'[d])
    BY <2>1, <2>3, <2>4, AppendAll DEF WorkerInv, WorkerTypes
  <2> QED BY <2>1, <2>5 DEF WorkerInv, WorkerTypes, Awaited
<1>5. ASSUME NEW d \in DOMAIN emitted, W!Progress(d) PROVE WorkerInv'
  <2> DEFINE r == emitted[d]
             s == IF r.state = "pending" /\ buffered THEN "queued" ELSE "written"
  <2>1. /\ r.state \in {"pending", "queued"}
        /\ emitted' = [emitted EXCEPT ![d] = [r EXCEPT !.state = s]]
        /\ UNCHANGED <<buffered, running, responded, over, made>>
    BY <1>5 DEF W!Progress
  <2>2. r \in Emission /\ Awaited(r)
    BY DEF WorkerInv, WorkerTypes
  <2>3. [r EXCEPT !.state = s] \in Emission /\ Awaited([r EXCEPT !.state = s])
    BY <2>2 DEF Emission, Awaited
  <2> HIDE DEF r, s
  <2> DEFINE q == [r EXCEPT !.state = s]
  <2>5. emitted' = [emitted EXCEPT ![d] = q] /\ q \in Emission /\ Awaited(q)
    BY <2>1, <2>3
  <2>6. emitted \in Seq(Emission) /\ \A e \in DOMAIN emitted : Awaited(emitted[e])
    BY DEF WorkerInv, WorkerTypes
  <2> HIDE DEF q
  <2>7. emitted' \in Seq(Emission)
    BY <2>5, <2>6
  <2>8. DOMAIN emitted' = DOMAIN emitted
    BY <2>5
  <2>9. \A e \in DOMAIN emitted' : Awaited(emitted'[e])
    BY <2>5, <2>6, <2>8
  <2>4. emitted' \in Seq(Emission) /\ \A e \in DOMAIN emitted' : Awaited(emitted'[e])
    BY <2>7, <2>9
  <2> QED BY <2>1, <2>4 DEF WorkerInv, WorkerTypes, Awaited
<1>6. ASSUME NEW i \in W!Invocations, W!Begin(i) \/ W!Respond(i) PROVE WorkerInv'
  <2>1. /\ UNCHANGED <<buffered, over, made, emitted>>
        /\ running \cup responded \subseteq running' \cup responded'
        /\ running' \subseteq W!Invocations /\ responded' \subseteq W!Invocations
        /\ responded \subseteq responded' /\ running' \cap responded' = {}
    BY <1>6 DEF W!Begin, W!Respond, WorkerInv, WorkerTypes
  <2> QED BY <2>1 DEF WorkerInv, WorkerTypes, Awaited
<1>7. ASSUME NEW i \in W!Invocations, W!End(i) PROVE WorkerInv'
  <2>1. /\ i \in responded /\ over' = over \cup {i}
        /\ \A d \in DOMAIN emitted : emitted[d].waited = i => emitted[d].state # "pending"
        /\ UNCHANGED <<buffered, running, responded, made, emitted>>
    BY <1>7 DEF W!End
  <2> QED BY <2>1 DEF WorkerInv, WorkerTypes, Awaited
<1>8. CASE W!Stop
  <2>1. /\ running = {} /\ responded = over
        /\ emitted' = [d \in DOMAIN emitted |->
             IF d \in W!Unwritten THEN [emitted[d] EXCEPT !.state = "cut"] ELSE emitted[d]]
        /\ UNCHANGED <<buffered, running, responded, over, made>>
    BY <1>8 DEF W!Stop
  <2>2. ASSUME NEW d \in DOMAIN emitted
        PROVE  emitted'[d] \in Emission /\ Awaited(emitted'[d])
    <3>1. emitted[d] \in Emission /\ Awaited(emitted[d])
      BY DEF WorkerInv, WorkerTypes
    <3>2. CASE d \in W!Unwritten
      <4>1. emitted'[d] = [emitted[d] EXCEPT !.state = "cut"]
        BY <2>1, <3>2
      <4>2. emitted[d].logger.context = emitted[d].in => emitted[d].state # "pending"
        BY <2>1, <3>1 DEF Awaited
      <4>3. emitted[d].state \in {"pending", "queued"}
        BY <3>2 DEF W!Unwritten
      <4> QED BY <3>1, <4>1, <4>2, <4>3 DEF Emission, Awaited
    <3>3. CASE d \notin W!Unwritten
      BY <2>1, <3>1, <3>3
    <3> QED BY <3>2, <3>3
  <2>3. emitted' \in Seq(Emission) /\ DOMAIN emitted' = DOMAIN emitted
    BY <2>1, <2>2 DEF WorkerInv, WorkerTypes
  <2> QED BY <2>1, <2>2, <2>3 DEF WorkerInv, WorkerTypes, Awaited
<1>9. CASE UNCHANGED <<buffered, running, responded, over, made, emitted>>
  BY <1>9 DEF WorkerInv, WorkerTypes, Awaited
<1> QED BY <1>2, <1>3, <1>4, <1>5, <1>6, <1>7, <1>8, <1>9, WorkersStep DEF W!Next

-----------------------------------------------------------------------------
LEMMA WasmStep ==
  ASSUME [Next]_vars
  PROVE  H!Next \/ UNCHANGED <<answers, sent, left, pending, settled, flushes>>
<1>1. CASE UNCHANGED vars
  BY <1>1 DEF vars, deliveryVars, wasmVars
<1> QED BY <1>1 DEF Next, deliveryVars, wasmVars

Payloads == [call : Nat, error : BOOLEAN]
Flushing == [phase : {"host", "logger", "over"}, awaits : SUBSET Payloads, before : SUBSET Payloads]

(* The calls so far are 1, 2, 3, ..., and each was answered for what it sent *)
(* or left behind.                                                          *)
Answered ==
  /\ \E k \in Nat : H!Calls = 1..k
  /\ \A r \in sent : r.call \in H!Calls
  /\ left \subseteq H!Calls
  /\ \A n \in H!Calls : answers[n] = "0" <=> [call |-> n, error |-> FALSE] \in sent
  /\ \A n \in left : answers[n] = "-1"

(* What was sent before a flush and has not settled is what it waits for.   *)
FlushOK(f) ==
  /\ f \in Flushing
  /\ f.phase = "host" => f.before \subseteq f.awaits \cup settled
  /\ f.phase # "host" => f.before \subseteq settled

WasmInv ==
  /\ sent \subseteq Payloads /\ pending \subseteq sent /\ sent \ settled \subseteq pending
  /\ Answered
  /\ \A n \in DOMAIN flushes : FlushOK(flushes[n])

LEMMA WasmInit == Init => WasmInv
<1> SUFFICES ASSUME Init PROVE WasmInv
  OBVIOUS
<1>1. H!Calls = 1..0 /\ sent = {} /\ left = {} /\ pending = {} /\ flushes = <<>>
  BY DEF Init, H!Init, H!Calls
<1>2. DOMAIN flushes = {} /\ 1..0 = {}
  BY <1>1
<1> QED BY <1>1, <1>2 DEF WasmInv, Answered

(* The number of the next call.                                             *)
LEMMA NextCall ==
  ASSUME Answered
  PROVE  \E k \in Nat : H!Calls = 1..k /\ H!Call = k + 1 /\ H!Calls \cup {k + 1} = 1..(k + 1)
<1>1. PICK k \in Nat : H!Calls = 1..k
  BY DEF Answered
<1>2. CASE k = 0
  BY <1>1, <1>2 DEF H!Call
<1>3. CASE k # 0
  <2>1. k \in H!Calls /\ \A m \in H!Calls : m <= k
    BY <1>1, <1>3
  <2>2. \A n \in H!Calls : (\A m \in H!Calls : m <= n) => n = k
    BY <1>1, <2>1
  <2>3. (CHOOSE n \in H!Calls : \A m \in H!Calls : m <= n) = k
    BY <2>1, <2>2
  <2> QED BY <1>1, <2>1, <2>3 DEF H!Call
<1> QED BY <1>2, <1>3

LEMMA SendsStep ==
  ASSUME WasmInv, NEW records \in SUBSET {[call |-> H!Call, error |-> FALSE], [call |-> H!Call, error |-> TRUE]},
         NEW reply \in {"0", "-1"}, H!Sends(records, reply),
         reply = "0" <=> [call |-> H!Call, error |-> FALSE] \in records,
         left' = left \/ (left' = left \cup {H!Call} /\ reply = "-1")
  PROVE  WasmInv'
<1>1. PICK k \in Nat : H!Calls = 1..k /\ H!Call = k + 1 /\ H!Calls \cup {k + 1} = 1..(k + 1)
  BY NextCall DEF WasmInv
<1>2. /\ sent' = sent \cup records /\ pending' = pending \cup records
      /\ answers' = [z \in DOMAIN answers \cup {k + 1} |-> IF z = k + 1 THEN reply ELSE answers[z]]
      /\ settled' = settled /\ flushes' = flushes
  BY <1>1 DEF H!Sends, H!Track, H!Extend
<1>3. H!Calls' = 1..(k + 1) /\ k + 1 \notin H!Calls
  BY <1>1, <1>2 DEF H!Calls
<1>4. records \subseteq Payloads /\ \A r \in records : r.call = k + 1
  <2>1. \A r \in records : r = [call |-> k + 1, error |-> FALSE] \/ r = [call |-> k + 1, error |-> TRUE]
    BY <1>1
  <2>2. k + 1 \in Nat
    OBVIOUS
  <2>3. /\ [call |-> k + 1, error |-> FALSE] \in Payloads
        /\ [call |-> k + 1, error |-> TRUE] \in Payloads
    BY <2>2 DEF Payloads
  <2>4. \A r \in records : r \in Payloads /\ r.call = k + 1
    <3> SUFFICES ASSUME NEW r \in records PROVE r \in Payloads /\ r.call = k + 1
      OBVIOUS
    <3>1. CASE r = [call |-> k + 1, error |-> FALSE]
      BY <2>3, <3>1
    <3>2. CASE r = [call |-> k + 1, error |-> TRUE]
      BY <2>3, <3>2
    <3> QED BY <2>1, <3>1, <3>2
  <2> QED BY <2>4
<1>5. \A n \in H!Calls : /\ answers'[n] = answers[n]
                         /\ [call |-> n, error |-> FALSE] \in sent' <=> [call |-> n, error |-> FALSE] \in sent
  BY <1>1, <1>2, <1>3, <1>4 DEF H!Calls
<1>6. answers'[k + 1] = reply /\ [call |-> k + 1, error |-> FALSE] \notin sent
  BY <1>2, <1>3 DEF WasmInv, Answered
<1>7. Answered'
  <2>1. \A r \in sent' : r.call \in H!Calls'
    BY <1>1, <1>2, <1>3, <1>4 DEF WasmInv, Answered
  <2>2. left' \subseteq H!Calls' /\ \A n \in left' : answers'[n] = "-1"
    BY <1>1, <1>3, <1>5, <1>6 DEF WasmInv, Answered
  <2>3. \A n \in H!Calls' : answers'[n] = "0" <=> [call |-> n, error |-> FALSE] \in sent'
    BY <1>1, <1>2, <1>3, <1>5, <1>6 DEF WasmInv, Answered
  <2> QED BY <1>3, <2>1, <2>2, <2>3 DEF Answered
<1> QED BY <1>2, <1>4, <1>7 DEF WasmInv, FlushOK

LEMMA WasmNext == ASSUME WasmInv, [Next]_vars PROVE WasmInv'
<1>0. "0" # "-1"
  OBVIOUS
<1>1. CASE H!Emit
  BY <1>0, <1>1, SendsStep DEF H!Emit, H!Payload
<1>2. ASSUME NEW hurts \in BOOLEAN, NEW breaks \in BOOLEAN, H!Refuse(hurts, breaks) PROVE WasmInv'
  BY <1>0, <1>2, SendsStep DEF H!Refuse, H!Payload
<1>3. ASSUME NEW r \in sent, H!Settle(r) \/ H!Cleanup(r) PROVE WasmInv'
  BY <1>3 DEF H!Settle, H!Cleanup, WasmInv, FlushOK, Answered, H!Calls
<1>4. CASE H!Flush
  <2>1. PICK n : flushes' = H!Extend(flushes, n, [phase |-> "host", awaits |-> pending, before |-> sent])
    BY <1>4 DEF H!Flush
  <2>2. UNCHANGED <<answers, sent, left, pending, settled>>
    BY <1>4 DEF H!Flush
  <2>3. FlushOK([phase |-> "host", awaits |-> pending, before |-> sent])
    BY DEF WasmInv, FlushOK, Flushing
  <2>4. \A m \in DOMAIN flushes' : FlushOK(flushes'[m])
    BY <2>1, <2>3 DEF WasmInv, H!Extend
  <2> QED BY <2>2, <2>4 DEF WasmInv, FlushOK, Answered, H!Calls
<1>5. ASSUME NEW n \in DOMAIN flushes,
             H!LoggerFlush(n) \/ \E timeout \in BOOLEAN : H!FlushResolves(n, timeout)
      PROVE  WasmInv'
  <2>1. UNCHANGED <<answers, sent, left, pending, settled>>
    BY <1>5 DEF H!LoggerFlush, H!FlushResolves
  <2>2. PICK f : flushes' = [flushes EXCEPT ![n] = f] /\ FlushOK(f)
    <3>1. FlushOK(flushes[n])
      BY DEF WasmInv
    <3>2. CASE H!LoggerFlush(n)
      <4> DEFINE f == [flushes[n] EXCEPT !.phase = "logger", !.awaits = sent \ settled]
      <4>1. flushes' = [flushes EXCEPT ![n] = f]
        BY <3>2 DEF H!LoggerFlush
      <4>2. FlushOK(f)
        BY <3>1, <3>2 DEF H!LoggerFlush, FlushOK, Flushing, WasmInv
      <4> QED BY <4>1, <4>2
    <3>3. CASE \E timeout \in BOOLEAN : H!FlushResolves(n, timeout)
      <4> DEFINE f == [flushes[n] EXCEPT !.phase = "over"]
      <4>1. flushes' = [flushes EXCEPT ![n] = f] /\ flushes[n].phase = "logger"
        BY <3>3 DEF H!FlushResolves
      <4>2. FlushOK(f)
        BY <3>1, <4>1 DEF FlushOK, Flushing
      <4> QED BY <4>1, <4>2
    <3> QED BY <1>5, <3>2, <3>3
  <2>3. \A m \in DOMAIN flushes' : FlushOK(flushes'[m])
    BY <2>2 DEF WasmInv
  <2> QED BY <2>1, <2>3 DEF WasmInv, FlushOK, Answered, H!Calls
<1>6. CASE UNCHANGED <<answers, sent, left, pending, settled, flushes>>
  BY <1>6 DEF WasmInv, FlushOK, Answered, H!Calls
<1> QED BY <1>1, <1>2, <1>3, <1>4, <1>5, <1>6, WasmStep DEF H!Next

LEMMA Waited == WorkerInv /\ WasmInv => WaitedFor
<1> SUFFICES ASSUME WorkerInv, WasmInv PROVE WaitedFor
  OBVIOUS
<1>1. W!WaitedFor
  BY DEF W!WaitedFor, WorkerInv, Awaited
<1>2. W!OneInvocation
  BY DEF W!OneInvocation, WorkerInv, OneTrigger, W!None
<1>3. H!FlushWaits
  <2>1. ASSUME NEW n \in DOMAIN flushes, flushes[n].phase = "over" PROVE flushes[n].before \subseteq settled
    BY <2>1 DEF WasmInv, FlushOK
  <2> QED BY <2>1 DEF H!FlushWaits, WasmInv, Answered
<1> QED BY <1>1, <1>2, <1>3 DEF WaitedFor

(* What a handler logs through a logger of its invocation is written before *)
(* the isolate stops, one trigger to a logger, and a WebAssembly host's     *)
(* flush() waits for what was sent before it                                *)
(* (src/cloudflare-worker-logger.ts:174-241, src/wasm-logger.ts:168-231),   *)
(* for any number of invocations, loggers, records and flushes.             *)
THEOREM AlwaysWaitedFor == Spec => []WaitedFor
<1>1. Init => WorkerInv /\ WasmInv
  BY WorkerInit, WasmInit
<1>2. WorkerInv /\ WasmInv /\ [Next]_vars => (WorkerInv /\ WasmInv)'
  BY WorkerNext, WasmNext
<1> QED BY <1>1, <1>2, Waited, PTL DEF Spec

-----------------------------------------------------------------------------
(* OtelSpan: where withOpenTelemetrySpan is, against what it has done.      *)
LEMMA SpansStep == ASSUME [Next]_vars PROVE O!Next \/ UNCHANGED spanVars
<1>1. CASE UNCHANGED vars
  BY <1>1 DEF vars, deliveryVars
<1> QED BY <1>1 DEF Next, deliveryVars

(* What is true wherever withOpenTelemetrySpan may be.                      *)
WrapTypes ==
  /\ at \in {"start", "startLog", "startFailed", "call", "fallback", "okStatus", "okLog",
             "recordException", "errorStatus", "errorLog", "end", "settle", "done"}
  /\ tracer \in {"calls", "fails", "failsLate"}
  /\ logging # "none" => logging = at /\ at \in failing /\ at \in O!Operations

WorkInv ==
  /\ work \in {"idle", "running", "resolved", "rejected"}
  /\ runs = IF work = "idle" THEN 0 ELSE 1
  /\ at \in {"start", "startLog", "startFailed"} => work = "idle"
  /\ at \in {"call", "fallback"} => work \in {"idle", "running"}
  /\ at \in {"okStatus", "okLog"} => work = "resolved"
  /\ at \in {"recordException", "errorStatus", "errorLog"} => work = "rejected"
  /\ at \in {"end", "settle"} => work \in {"resolved", "rejected"}
  /\ result # "none" => at = "done"
  /\ at = "done" => \/ work \in {"resolved", "rejected"} /\ result = work
                    \/ result = "tracer error" /\ work # "running"
                         /\ (tracer = "failsLate" \/ (failOnStartError /\ work = "idle"))

EndInv ==
  /\ at \in {"startFailed", "fallback"} => tracer = "fails"
  /\ at \notin {"start", "startFailed", "fallback", "done"} => tracer # "fails"
  /\ tracer # "fails" =>
       /\ at = "done" => work \in {"resolved", "rejected"}
       /\ "end" \notin failing => ended = IF at \in {"settle", "done"} THEN 1 ELSE 0
       /\ "okStatus" \notin failing /\ work = "resolved" /\ at \in {"okLog", "end", "settle", "done"}
            => spanStatus = "ok"
       /\ "errorStatus" \notin failing /\ work = "rejected" /\ at \in {"errorLog", "end", "settle", "done"}
            => spanStatus = "error"

WrapInv == WrapTypes /\ WorkInv /\ EndInv

LEMMA WrapInit == Init => WrapInv
<1> SUFFICES ASSUME Init PROVE WrapInv
  OBVIOUS
<1>1. /\ at = "start" /\ work = "idle" /\ runs = 0 /\ logging = "none" /\ ended = 0 /\ result = "none"
      /\ tracer \in {"calls", "fails", "failsLate"}
  BY DEF Init, O!Init
<1> QED BY <1>1 DEF WrapInv, WrapTypes, WorkInv, EndInv

LEMMA WrapNext == ASSUME WrapInv, [Next]_vars PROVE WrapInv'
<1> USE DEF WrapInv, O!Stay, O!options, O!Go
<1>1. CASE O!StartSpan
  <2>1. WrapTypes'
    BY <1>1 DEF O!StartSpan, WrapTypes, O!Operations
  <2>2. WorkInv'
    BY <1>1 DEF O!StartSpan, WrapTypes, WorkInv, EndInv, O!Operations
  <2>3. EndInv'
    BY <1>1 DEF O!StartSpan, WrapTypes, WorkInv, EndInv, O!Operations
  <2> QED BY <2>1, <2>2, <2>3
<1>2. CASE O!LogSettles
  <2>1. WrapTypes'
    BY <1>2 DEF O!LogSettles, O!After, WrapTypes, O!Operations
  <2>2. WorkInv'
    BY <1>2 DEF O!LogSettles, O!After, WrapTypes, WorkInv, EndInv, O!Operations
  <2>3. EndInv'
    BY <1>2 DEF O!LogSettles, O!After, WrapTypes, WorkInv, EndInv, O!Operations
  <2> QED BY <2>1, <2>2, <2>3
<1>3. CASE O!StartRethrown
  <2>1. WrapTypes'
    BY <1>3 DEF O!StartRethrown, WrapTypes, O!Operations
  <2>2. WorkInv'
    BY <1>3 DEF O!StartRethrown, WrapTypes, WorkInv, EndInv, O!Operations
  <2>3. EndInv'
    BY <1>3 DEF O!StartRethrown, WrapTypes, WorkInv, EndInv, O!Operations
  <2> QED BY <2>1, <2>2, <2>3
<1>4. CASE O!Call
  <2>1. WrapTypes'
    BY <1>4 DEF O!Call, WrapTypes, O!Operations
  <2>2. WorkInv'
    <3>1. /\ at \in {"call", "fallback"} /\ work = "idle" /\ work' = "running" /\ runs' = runs + 1
          /\ UNCHANGED <<at, result>> /\ runs = 0
      BY <1>4 DEF O!Call, WorkInv
    <3>2. runs' = 1
      BY <3>1
    <3> QED BY <3>1, <3>2 DEF WorkInv
  <2>3. EndInv'
    BY <1>4 DEF O!Call, WrapTypes, WorkInv, EndInv, O!Operations
  <2> QED BY <2>1, <2>2, <2>3
<1>5. ASSUME NEW outcome \in {"resolved", "rejected"}, O!WorkSettles(outcome) PROVE WrapInv'
  <2>1. WrapTypes'
    BY <1>5 DEF O!WorkSettles, WrapTypes, WorkInv, O!Operations
  <2>2. WorkInv'
    BY <1>5 DEF O!WorkSettles, WrapTypes, WorkInv, EndInv, O!Operations
  <2>3. EndInv'
    BY <1>5 DEF O!WorkSettles, WrapTypes, WorkInv, EndInv, O!Operations
  <2> QED BY <2>1, <2>2, <2>3
<1>6. CASE O!Invoke
  <2>1. CASE at \in failing
    BY <1>6, <2>1 DEF O!Invoke, WrapTypes, WorkInv, EndInv
  <2>2. CASE at \notin failing
    <3>1. /\ at \in O!Operations /\ logging = "none" /\ logging' = "none"
          /\ spanStatus' = CASE at = "okStatus" -> "ok" [] at = "errorStatus" -> "error" [] OTHER -> spanStatus
          /\ ended' = IF at = "end" THEN ended + 1 ELSE ended
          /\ at' = O!Next1(at)
          /\ UNCHANGED <<logs, failOnStartError, failing, sinks, tracer, work, runs, result>>
      BY <1>6, <2>2 DEF O!Invoke, O!Effect
    <3>2. CASE at = "okStatus"
      BY <3>1, <3>2 DEF O!Next1, WrapTypes, WorkInv, EndInv
    <3>3. CASE at = "recordException"
      BY <3>1, <3>3 DEF O!Next1, WrapTypes, WorkInv, EndInv
    <3>4. CASE at = "errorStatus"
      BY <3>1, <3>4 DEF O!Next1, WrapTypes, WorkInv, EndInv
    <3>5. CASE at = "end"
      BY <3>1, <3>5 DEF O!Next1, WrapTypes, WorkInv, EndInv
    <3> QED BY <3>1, <3>2, <3>3, <3>4, <3>5 DEF O!Operations
  <2> QED BY <2>1, <2>2
<1>7. CASE O!FailureLogged
  <2>1. WrapTypes'
    BY <1>7 DEF O!FailureLogged, O!Next1, WrapTypes, O!Operations
  <2>2. WorkInv'
    BY <1>7 DEF O!FailureLogged, O!Next1, WrapTypes, WorkInv, EndInv, O!Operations
  <2>3. EndInv'
    BY <1>7 DEF O!FailureLogged, O!Next1, WrapTypes, WorkInv, EndInv, O!Operations
  <2> QED BY <2>1, <2>2, <2>3
<1>8. CASE O!Settle
  <2>1. WrapTypes'
    BY <1>8 DEF O!Settle, WrapTypes, O!Operations
  <2>2. WorkInv'
    BY <1>8 DEF O!Settle, WrapTypes, WorkInv, EndInv, O!Operations
  <2>3. EndInv'
    BY <1>8 DEF O!Settle, WrapTypes, WorkInv, EndInv, O!Operations
  <2> QED BY <2>1, <2>2, <2>3
<1>9. CASE UNCHANGED spanVars
  BY <1>9 DEF spanVars, WrapTypes, WorkInv, EndInv
<1> QED BY <1>1, <1>2, <1>3, <1>4, <1>5, <1>6, <1>7, <1>8, <1>9, SpansStep DEF O!Next, O!Advance

LEMMA Wrapped == WrapInv => SpanWrapsOneRun
<1> SUFFICES ASSUME WrapInv PROVE SpanWrapsOneRun
  OBVIOUS
<1>1. O!WorkRunsOnce
  <2>1. runs <= 1
    <3>1. runs = 0 \/ runs = 1
      BY DEF WrapInv, WorkInv
    <3> QED BY <3>1
  <2>2. ASSUME result # "none"
        PROVE  \/ runs = 1 /\ result = work
               \/ result = "tracer error" /\ (tracer = "failsLate" \/ (failOnStartError /\ runs = 0))
    <3>1. at = "done"
      BY <2>2 DEF WrapInv, WorkInv
    <3> QED BY <2>2, <3>1 DEF WrapInv, WorkInv
  <2> QED BY <2>1, <2>2 DEF O!WorkRunsOnce
<1>2. O!SpanIsEnded
  BY DEF WrapInv, WrapTypes, WorkInv, EndInv, O!SpanIsEnded
<1> QED BY <1>1, <1>2 DEF SpanWrapsOneRun

(* Work in a span runs once, its span is ended once with the work's status, *)
(* and its result is the caller's, whatever tracer, span and sinks do, but  *)
(* for a tracer that fails after the work (src/otel.ts:850-988).            *)
THEOREM SpanAlwaysWraps == Spec => []SpanWrapsOneRun
<1>1. Init => WrapInv
  BY WrapInit
<1>2. WrapInv /\ [Next]_vars => WrapInv'
  BY WrapNext
<1> QED BY <1>1, <1>2, Wrapped, PTL DEF Spec

-----------------------------------------------------------------------------
(* HostLoggers: who is registered, against the handlers the host has.       *)
LEMMA HostsStep ==
  ASSUME [Next]_vars
  PROVE  P!Next \/ UNCHANGED hostVars
<1>1. CASE UNCHANGED vars
  BY <1>1 DEF vars, deliveryVars
<1> QED BY <1>1 DEF Next, deliveryVars

HostTypes ==
  /\ registered \subseteq HostedLoggers /\ capturing \subseteq loggers
  /\ globals \in [HostedLoggers -> SUBSET Nat] /\ remover \in [HostedLoggers -> Nat] /\ installs \in Nat

(* The handlers are there while a logger is registered, Deno's one each.    *)
Heard ==
  hostable /\ shutdown # "raised" =>
    CASE runtime = "deno" -> handlers = registered
      [] runtime = "bun" -> (hooked <=> registered # {}) /\ ("signals" \in handlers <=> hooked)
      [] OTHER -> (hooked <=> registered # {}) /\ handlers = IF hooked THEN {"exit"} ELSE {}

(* A logger that is not made yet has no handlers.                           *)
Captured ==
  /\ \A l \in HostedLoggers \ loggers : remover[l] = 0
  /\ P!ReportedOnce

HostInv == HostTypes /\ hooked \in BOOLEAN /\ Heard /\ Captured

LEMMA HostInit == Init => HostInv
<1> SUFFICES ASSUME Init PROVE HostInv
  OBVIOUS
<1>1. /\ loggers = {} /\ registered = {} /\ hooked = FALSE /\ handlers = {} /\ capturing = {}
      /\ globals = [l \in HostedLoggers |-> {}] /\ remover = [l \in HostedLoggers |-> 0] /\ installs = 0
  BY DEF Init, P!Init
<1>2. HostTypes /\ Captured
  BY <1>1 DEF HostTypes, Captured, P!ReportedOnce
<1>3. Heard
  BY <1>1 DEF Heard
<1> QED BY <1>1, <1>2, <1>3 DEF HostInv

LEMMA Registers ==
  ASSUME HostInv, NEW l \in HostedLoggers, P!Register(l),
         UNCHANGED <<runtime, hostable, shutdown>>
  PROVE  registered' \subseteq HostedLoggers /\ hooked' \in BOOLEAN /\ Heard'
<1> USE DEF P!Register, P!Deno, P!Bun, P!HostHandlers, HostInv, HostTypes
<1>1. registered' \subseteq HostedLoggers /\ hooked' \in BOOLEAN
  OBVIOUS
<1>2. Heard'
  <2>1. CASE runtime = "deno"
    BY <2>1 DEF Heard
  <2>2. CASE runtime = "bun"
    BY <2>2 DEF Heard
  <2>3. CASE runtime \notin {"deno", "bun"}
    BY <2>3 DEF Heard
  <2> QED BY <2>1, <2>2, <2>3
<1> QED BY <1>1, <1>2

LEMMA Unregisters ==
  ASSUME HostInv, NEW l \in registered, P!Unregister(l),
         UNCHANGED <<runtime, hostable, shutdown>>
  PROVE  registered' \subseteq HostedLoggers /\ hooked' \in BOOLEAN /\ Heard'
<1> USE DEF P!Unregister, P!RemoveHandlers, P!Deno, P!Bun, P!HostHandlers, HostInv, HostTypes
<1>1. registered' \subseteq HostedLoggers /\ hooked' \in BOOLEAN
  OBVIOUS
<1>2. Heard'
  <2>1. CASE runtime = "deno"
    BY <2>1 DEF Heard
  <2>2. CASE runtime = "bun"
    BY <2>2 DEF Heard
  <2>3. CASE runtime \notin {"deno", "bun"}
    BY <2>3 DEF Heard
  <2> QED BY <2>1, <2>2, <2>3
<1> QED BY <1>1, <1>2

(* A logger's error handlers are installed unless they are there.           *)
LEMMA Installs ==
  ASSUME HostInv, NEW l \in HostedLoggers, NEW capture \in BOOLEAN, P!Install(l, capture),
         UNCHANGED repeated, loggers' = loggers \cup {l},
         capturing' = IF capture THEN capturing \cup {l} ELSE capturing,
         l \in loggers => (capture <=> l \in capturing)
  PROVE  Captured' /\ capturing' \subseteq loggers'
         /\ globals' \in [HostedLoggers -> SUBSET Nat] /\ remover' \in [HostedLoggers -> Nat] /\ installs' \in Nat
<1>1. HostTypes /\ Captured
  BY DEF HostInv
<1>2. l \notin loggers => l \notin capturing /\ remover[l] = 0
  BY <1>1 DEF HostTypes, Captured
<1>3. CASE remover[l] # 0 \/ ~hostable
  <2>1. UNCHANGED <<globals, remover, installs>>
    BY <1>3 DEF P!Install
  <2>2. ASSUME ~repeated, NEW k \in HostedLoggers
        PROVE  globals[k] = IF remover[k] # 0 /\ k \in capturing' THEN {remover[k]} ELSE {}
    BY <1>1, <1>2, <2>2 DEF Captured, P!ReportedOnce
  <2>3. capturing' \subseteq loggers'
    BY <1>1 DEF HostTypes
  <2> QED BY <1>1, <2>1, <2>2, <2>3 DEF HostTypes, Captured, P!ReportedOnce
<1>4. CASE remover[l] = 0 /\ hostable
  <2>1. /\ installs' = installs + 1
        /\ globals' = [globals EXCEPT ![l] = IF capture THEN globals[l] \cup {installs'} ELSE globals[l]]
        /\ remover' = [remover EXCEPT ![l] = installs']
    BY <1>4 DEF P!Install
  <2>2. installs' \in Nat /\ installs' # 0
    BY <1>1, <2>1 DEF HostTypes
  <2>3. globals' \in [HostedLoggers -> SUBSET Nat] /\ remover' \in [HostedLoggers -> Nat]
    BY <1>1, <2>1, <2>2 DEF HostTypes
  <2>4. \A k \in HostedLoggers :
          /\ remover'[k] = IF k = l THEN installs' ELSE remover[k]
          /\ globals'[k] = IF k = l /\ capture THEN globals[k] \cup {installs'} ELSE globals[k]
    BY <1>1, <2>1 DEF HostTypes
  <2>5. ASSUME ~repeated, NEW k \in HostedLoggers
        PROVE  globals'[k] = IF remover'[k] # 0 /\ k \in capturing' THEN {remover'[k]} ELSE {}
    <3>1. globals[k] = IF remover[k] # 0 /\ k \in capturing THEN {remover[k]} ELSE {}
      BY <1>1, <2>5 DEF Captured, P!ReportedOnce
    <3>2. k \in capturing' <=> k \in capturing \/ (k = l /\ capture)
      OBVIOUS
    <3>3. CASE k = l
      BY <1>2, <1>4, <2>2, <2>4, <3>1, <3>2, <3>3
    <3>4. CASE k # l
      BY <2>4, <3>1, <3>2, <3>4
    <3> QED BY <3>3, <3>4
  <2>6. capturing' \subseteq loggers'
    BY <1>1 DEF HostTypes
  <2>7. \A k \in HostedLoggers \ loggers' : remover'[k] = 0
    BY <1>1, <2>4 DEF Captured
  <2> QED BY <2>2, <2>3, <2>5, <2>6, <2>7 DEF Captured, P!ReportedOnce
<1> QED BY <1>3, <1>4

LEMMA Constructs ==
  ASSUME HostInv, NEW l \in HostedLoggers, NEW flush \in BOOLEAN, NEW capture \in BOOLEAN,
         P!Construct(l, flush, capture)
  PROVE  HostInv'
<1>1. /\ l \notin loggers /\ loggers' = loggers \cup {l}
      /\ capturing' = IF capture THEN capturing \cup {l} ELSE capturing
      /\ IF capture THEN P!Install(l, TRUE) ELSE UNCHANGED <<globals, remover, installs>>
      /\ IF flush THEN P!Register(l) ELSE UNCHANGED <<registered, hooked, handlers>>
      /\ UNCHANGED <<runtime, hostable, shutdown, repeated>>
  BY DEF P!Construct, P!registration, P!host, P!process
<1>2. registered' \subseteq HostedLoggers /\ hooked' \in BOOLEAN /\ Heard'
  BY <1>1, Registers DEF HostInv, HostTypes, Heard
<1>3. /\ Captured' /\ capturing' \subseteq loggers'
      /\ globals' \in [HostedLoggers -> SUBSET Nat] /\ remover' \in [HostedLoggers -> Nat] /\ installs' \in Nat
  <2>1. CASE capture
    BY <1>1, <2>1, Installs
  <2>2. CASE ~capture
    BY <1>1, <2>2 DEF HostInv, HostTypes, Captured, P!ReportedOnce
  <2> QED BY <2>1, <2>2
<1> QED BY <1>2, <1>3 DEF HostInv, HostTypes

LEMMA HostNext == ASSUME HostInv, [Next]_vars PROVE HostInv'
<1>1. ASSUME NEW l \in HostedLoggers, NEW flush \in BOOLEAN, NEW capture \in BOOLEAN,
             P!Construct(l, flush, capture)
      PROVE  HostInv'
  BY <1>1, Constructs
<1>2. ASSUME NEW m \in HostedLoggers, NEW l \in HostedLoggers, P!Anew(m, l) PROVE HostInv'
  <2>1. (m \in registered) \in BOOLEAN /\ (m \in capturing) \in BOOLEAN
    OBVIOUS
  <2> QED BY <1>2, <2>1, Constructs DEF P!Anew
<1>3. ASSUME NEW l \in HostedLoggers, P!InstallGlobalHandlers(l) PROVE HostInv'
  <2>1. /\ l \in loggers /\ P!Install(l, l \in capturing)
        /\ UNCHANGED <<runtime, hostable, shutdown, loggers, registered, hooked, handlers, capturing, repeated>>
    BY <1>3 DEF P!InstallGlobalHandlers, P!host, P!process, P!registration
  <2>2. /\ Captured' /\ capturing' \subseteq loggers'
        /\ globals' \in [HostedLoggers -> SUBSET Nat] /\ remover' \in [HostedLoggers -> Nat] /\ installs' \in Nat
    <3>1. (l \in capturing) \in BOOLEAN /\ loggers' = loggers \cup {l}
          /\ capturing' = IF l \in capturing THEN capturing \cup {l} ELSE capturing
      BY <2>1
    <3> QED BY <2>1, <3>1, Installs
  <2> QED BY <2>1, <2>2 DEF HostInv, HostTypes, Heard
<1>4. ASSUME NEW l \in HostedLoggers, NEW i \in 1..MaxInstalls, P!CallRemover(l, i) PROVE HostInv'
  <2>1. /\ globals' = [globals EXCEPT ![l] = globals[l] \ {i}] /\ remover' = [remover EXCEPT ![l] = 0]
        /\ repeated' = (repeated \/ remover[l] \notin {0, i})
        /\ UNCHANGED <<runtime, hostable, shutdown, loggers, registered, hooked, handlers, capturing, installs>>
    BY <1>4 DEF P!CallRemover, P!host, P!process, P!registration
  <2>2. /\ globals' \in [HostedLoggers -> SUBSET Nat] /\ remover' \in [HostedLoggers -> Nat]
        /\ \A k \in HostedLoggers : /\ remover'[k] = IF k = l THEN 0 ELSE remover[k]
                              /\ globals'[k] = IF k = l THEN globals[k] \ {i} ELSE globals[k]
    BY <2>1 DEF HostInv, HostTypes
  <2>3. ASSUME ~repeated', NEW k \in HostedLoggers
        PROVE  globals'[k] = IF remover'[k] # 0 /\ k \in capturing THEN {remover'[k]} ELSE {}
    <3>1. globals[k] = IF remover[k] # 0 /\ k \in capturing THEN {remover[k]} ELSE {}
      BY <2>1, <2>3 DEF HostInv, Captured, P!ReportedOnce
    <3> QED BY <2>1, <2>2, <2>3, <3>1
  <2>4. Captured'
    BY <2>1, <2>2, <2>3 DEF HostInv, Captured, P!ReportedOnce
  <2> QED BY <2>1, <2>2, <2>4 DEF HostInv, HostTypes, Heard
<1>5. ASSUME NEW l \in HostedLoggers, P!InstallUnloadHandlers(l) PROVE HostInv'
  <2>1. P!Register(l) /\ UNCHANGED <<runtime, hostable, shutdown, loggers, capturing, globals, remover,
                                     repeated, installs>>
    BY <1>5 DEF P!InstallUnloadHandlers, P!host, P!process, P!errors
  <2> QED BY <2>1, Registers DEF HostInv, HostTypes, Captured, P!ReportedOnce
<1>6. ASSUME NEW l \in HostedLoggers, P!RemoveUnloadHandlers(l) PROVE HostInv'
  <2>1. l \in registered /\ P!Unregister(l)
        /\ UNCHANGED <<runtime, hostable, shutdown, loggers, capturing, globals, remover, repeated, installs>>
    BY <1>6 DEF P!RemoveUnloadHandlers, P!host, P!process, P!errors
  <2> QED BY <2>1, Unregisters DEF HostInv, HostTypes, Captured, P!ReportedOnce
<1>7. ASSUME NEW l \in HostedLoggers, P!Close(l) PROVE HostInv'
  <2>1. /\ IF l \in registered THEN P!Unregister(l) ELSE UNCHANGED <<registered, hooked, handlers>>
        /\ UNCHANGED <<runtime, hostable, shutdown, loggers, capturing, globals, remover, repeated, installs>>
    BY <1>7 DEF P!Close, P!host, P!process, P!errors, P!registration
  <2>2. registered' \subseteq HostedLoggers /\ hooked' \in BOOLEAN /\ Heard'
    BY <2>1, Unregisters DEF HostInv, HostTypes, Heard
  <2> QED BY <2>1, <2>2 DEF HostInv, HostTypes, Captured, P!ReportedOnce
<1>8. ASSUME UNCHANGED <<runtime, hostable, loggers, registered, hooked, capturing, globals, remover,
                         repeated, installs>>,
             \/ UNCHANGED <<handlers, shutdown>>
             \/ UNCHANGED shutdown /\ runtime = "bun" /\ handlers' = handlers \ {"exit"}
             \/ UNCHANGED handlers /\ shutdown # "raised"
      PROVE  HostInv'
  BY <1>8 DEF HostInv, HostTypes, Heard, Captured, P!ReportedOnce
<1>9. ASSUME NEW l \in HostedLoggers, P!Log(l) \/ P!FlushEnds(l) PROVE HostInv'
  BY <1>8, <1>9 DEF P!Log, P!FlushEnds, P!host, P!process, P!errors, P!registration
<1>10. CASE P!PageError \/ P!Unload
  BY <1>8, <1>10 DEF P!PageError, P!Unload, P!host, P!process, P!errors, P!registration
<1>11. CASE P!BeforeExit
  BY <1>8, <1>11 DEF P!BeforeExit, P!Bun, P!host, P!process, P!errors
<1>12. CASE P!Signal
  <2>1. shutdown' = shutdown \/ shutdown # "raised"
    BY <1>12 DEF P!Signal
  <2> QED BY <1>8, <1>12, <2>1 DEF P!Signal, P!host, P!errors, P!registration
<1>13. CASE P!Raise
  <2>1. /\ shutdown' = "raised" /\ P!RemoveHandlers
        /\ UNCHANGED <<runtime, hostable, loggers, registered, capturing, globals, remover, repeated, installs>>
    BY <1>13 DEF P!Raise, P!host, P!errors
  <2> QED BY <2>1 DEF P!RemoveHandlers, HostInv, HostTypes, Heard, Captured, P!ReportedOnce
<1>14. CASE UNCHANGED hostVars
  BY <1>8, <1>14 DEF hostVars
<1> QED BY <1>1, <1>2, <1>3, <1>4, <1>5, <1>6, <1>7, <1>9, <1>10, <1>11, <1>12, <1>13, <1>14, HostsStep
        DEF P!Next

LEMMA Matched == HostInv => HandlersMatch
<1> SUFFICES ASSUME HostInv PROVE P!HandlersMatch
  BY DEF HandlersMatch, HostInv, Captured
<1> QED BY DEF HostInv, Heard, P!HandlersMatch, P!Bun

(* The host calls back exactly as long as a logger is registered, and an    *)
(* error of the page is one record of each capturing logger, unless a stale *)
(* remover was called (src/browser-logger.ts:44-83, 240-252,                *)
(* src/bun-logger.ts:93-103, src/deno-logger.ts:34-42), for any number of   *)
(* loggers.                                                                 *)
THEOREM HandlersAlwaysMatch == Spec => []HandlersMatch
<1>1. Init => HostInv
  BY HostInit
<1>2. HostInv /\ [Next]_vars => HostInv'
  BY HostNext
<1> QED BY <1>1, <1>2, Matched, PTL DEF Spec

-----------------------------------------------------------------------------
(* ErrorTracking: the hashes in the set, against the records they come from.*)
LEMMA TrackingStep == ASSUME [Next]_vars PROVE E!Next \/ UNCHANGED trackingVars
<1>1. CASE UNCHANGED vars
  BY <1>1 DEF vars, deliveryVars
<1> QED BY <1>1 DEF Next, deliveryVars

TrackingTypes ==
  /\ transport \in Nat
  /\ hash \in [E!Records -> Nat] /\ by \in [E!Records -> Nat]
  /\ write \in [E!Records -> {"new", "below", "skipped", "posting", "posted", "failed"}]
  /\ seenHashes \in Seq(Nat) /\ Len(seenHashes) <= MaxHashes
  /\ \A i, j \in 1..Len(seenHashes) : seenHashes[i] = seenHashes[j] => i = j
  /\ \A r \in E!Records : by[r] <= transport

Active(r) == write[r] \in {"posting", "posted"}

(* A hash in the set is that of a record posted, or being posted, by the    *)
(* transport installed; until one is evicted such a record has its hash in  *)
(* the set, and a hash has one such record.                                 *)
Vouched ==
  \A i \in 1..Len(seenHashes) : \E r \in E!Records :
    hash[r] = seenHashes[i] /\ by[r] = transport /\ Active(r)
Remembered ==
  dedupe /\ ~evicted =>
    \A r \in E!Records :
      Active(r) /\ by[r] = transport => \E i \in 1..Len(seenHashes) : seenHashes[i] = hash[r]
Once ==
  dedupe /\ ~evicted =>
    \A r, s \in E!Records :
      r # s /\ hash[r] = hash[s] /\ by[r] = by[s] => ~(Active(r) /\ Active(s))

TrackingInv == TrackingTypes /\ Vouched /\ Remembered /\ Once

LEMMA TrackingInit == Init => TrackingInv
<1> SUFFICES ASSUME Init PROVE TrackingInv
  OBVIOUS
<1>1. /\ transport = 1 /\ hash = [r \in E!Records |-> 0] /\ by = [r \in E!Records |-> 1]
      /\ write = [r \in E!Records |-> "new"] /\ seenHashes = <<>>
  BY DEF Init, E!Init
<1>2. seenHashes \in Seq(Nat) /\ Len(seenHashes) = 0 /\ 1..Len(seenHashes) = {}
  BY <1>1
<1>3. TrackingTypes
  BY <1>1, <1>2, LoggingAssumption DEF TrackingTypes
<1>4. Vouched /\ Remembered /\ Once
  BY <1>1, <1>2 DEF Vouched, Remembered, Once, Active
<1> QED BY <1>3, <1>4 DEF TrackingInv

(* A full set gives up its older half, so that there is room again.         *)
LEMMA Evicts ==
  ASSUME TrackingTypes
  PROVE  LET s == E!Evict IN
         /\ s \in Seq(Nat) /\ Len(s) < MaxHashes
         /\ \A i \in 1..Len(s) : \E j \in 1..Len(seenHashes) : s[i] = seenHashes[j]
         /\ \A i, j \in 1..Len(s) : s[i] = s[j] => i = j
         /\ ~E!Full => s = seenHashes
<1> DEFINE n == (MaxHashes + 1) \div 2
<1>1. seenHashes \in Seq(Nat) /\ Len(seenHashes) \in Nat /\ Len(seenHashes) <= MaxHashes
  BY DEF TrackingTypes
<1>2. CASE ~E!Full
  BY <1>1, <1>2, LoggingAssumption DEF E!Evict, E!Full, TrackingTypes
<1>3. CASE E!Full
  <2>1. Len(seenHashes) = MaxHashes
    BY <1>1, <1>3, LoggingAssumption DEF E!Full
  <2>2. n \in Nat /\ n >= 1 /\ n <= MaxHashes
    BY LoggingAssumption
  <2> HIDE DEF n
  <2>3. n + 1 \in 1..(Len(seenHashes) + 1) /\ Len(seenHashes) \in ((n + 1) - 1)..Len(seenHashes)
        /\ Len(seenHashes) - (n + 1) + 1 = Len(seenHashes) - n
    BY <2>1, <2>2
  <2> DEFINE s == SubSeq(seenHashes, n + 1, Len(seenHashes))
  <2>4. s \in Seq(Nat) /\ Len(s) = Len(seenHashes) - (n + 1) + 1
        /\ \A i \in 1..(Len(seenHashes) - (n + 1) + 1) : s[i] = seenHashes[(n + 1) + i - 1]
    BY ONLY <1>1, <2>3, Pieces
  <2>5. Len(s) = MaxHashes - n /\ \A i \in 1..Len(s) : n + i \in 1..Len(seenHashes) /\ s[i] = seenHashes[n + i]
    <3>1. \A i \in 1..Len(s) : (n + 1) + i - 1 = n + i /\ n + i \in 1..Len(seenHashes)
      BY <2>1, <2>2, <2>3, <2>4
    <3> QED BY <2>1, <2>3, <2>4, <3>1
  <2>6. s = E!Evict
    BY <1>3 DEF E!Evict, n
  <2> HIDE DEF s
  <2>7. \A i, j \in 1..Len(s) : s[i] = s[j] => i = j
    <3> SUFFICES ASSUME NEW i \in 1..Len(s), NEW j \in 1..Len(s), s[i] = s[j] PROVE i = j
      OBVIOUS
    <3>1. n + i = n + j
      BY <2>5 DEF TrackingTypes
    <3> QED BY <2>2, <2>4, <3>1
  <2>8. Len(s) < MaxHashes
    BY <2>2, <2>5, LoggingAssumption
  <2>9. \A i \in 1..Len(s) : \E j \in 1..Len(seenHashes) : s[i] = seenHashes[j]
    BY <2>5
  <2> QED BY <1>3, <2>4, <2>6, <2>7, <2>8, <2>9
<1> QED BY <1>2, <1>3

LEMMA Appends ==
  ASSUME NEW s \in Seq(Nat), NEW h \in Nat, \A i \in 1..Len(s) : s[i] # h,
         \A i, j \in 1..Len(s) : s[i] = s[j] => i = j
  PROVE  LET t == Append(s, h) IN
         /\ t \in Seq(Nat) /\ Len(t) = Len(s) + 1 /\ t[Len(s) + 1] = h
         /\ \A i \in 1..Len(s) : t[i] = s[i]
         /\ 1..Len(t) = 1..Len(s) \cup {Len(s) + 1}
         /\ \A i, j \in 1..Len(t) : t[i] = t[j] => i = j
<1> DEFINE t == Append(s, h)
<1>1. /\ t \in Seq(Nat) /\ Len(t) = Len(s) + 1 /\ t[Len(s) + 1] = h
      /\ \A i \in 1..Len(s) : t[i] = s[i]
      /\ 1..Len(t) = 1..Len(s) \cup {Len(s) + 1}
  OBVIOUS
<1> HIDE DEF t
<1>2. \A i, j \in 1..Len(t) : t[i] = t[j] => i = j
  BY <1>1
<1> QED BY <1>1, <1>2 DEF t

(* What Set.delete leaves.                                                  *)
LEMMA Deletes ==
  ASSUME TrackingTypes, NEW h
  PROVE  LET s == E!Without(seenHashes, h) IN
         /\ s \in Seq(Nat) /\ Len(s) <= MaxHashes
         /\ \A i \in 1..Len(s) : s[i] # h /\ \E j \in 1..Len(seenHashes) : s[i] = seenHashes[j]
         /\ \A j \in 1..Len(seenHashes) : seenHashes[j] # h => \E i \in 1..Len(s) : s[i] = seenHashes[j]
         /\ \A i, j \in 1..Len(s) : s[i] = s[j] => i = j
<1>1. /\ seenHashes \in Seq(Nat) /\ Len(seenHashes) \in Nat /\ Len(seenHashes) <= MaxHashes
      /\ \A i, j \in 1..Len(seenHashes) : seenHashes[i] = seenHashes[j] => i = j
  BY DEF TrackingTypes
<1>2. CASE ~E!Contains(seenHashes, h)
  BY <1>1, <1>2 DEF E!Without, E!Contains
<1>3. CASE E!Contains(seenHashes, h)
  <2> DEFINE k == CHOOSE i \in DOMAIN seenHashes : seenHashes[i] = h
             s == C!RemoveAt(seenHashes, k)
  <2>1. k \in 1..Len(seenHashes) /\ seenHashes[k] = h
    BY <1>1, <1>3 DEF E!Contains
  <2>2. E!Without(seenHashes, h) = s
    BY <1>3 DEF E!Without, E!RemoveAt, C!RemoveAt
  <2> HIDE DEF k
  <2>3. /\ s \in Seq(Nat) /\ Len(s) = Len(seenHashes) - 1
        /\ \A j \in 1..Len(s) : s[j] = IF j < k THEN seenHashes[j] ELSE seenHashes[j + 1]
        /\ \A i, j \in 1..Len(s) : s[i] = s[j] => i = j
    BY <1>1, <2>1, Without
  <2> HIDE DEF s
  <2>4. ASSUME NEW i \in 1..Len(s)
        PROVE  s[i] # h /\ \E j \in 1..Len(seenHashes) : s[i] = seenHashes[j]
    <3> DEFINE j == IF i < k THEN i ELSE i + 1
    <3>1. s[i] = seenHashes[j]
      BY <2>3
    <3>2. i \in Nat /\ i >= 1 /\ i <= Len(seenHashes) - 1
      BY <1>1, <2>3
    <3>3. j \in 1..Len(seenHashes) /\ j # k
      BY ONLY <1>1, <2>1, <3>2
    <3> QED BY <1>1, <2>1, <3>1, <3>3
  <2>5. ASSUME NEW j \in 1..Len(seenHashes), seenHashes[j] # h
        PROVE  \E i \in 1..Len(s) : s[i] = seenHashes[j]
    <3>1. j # k
      BY <2>1, <2>5
    <3>2. CASE j < k
      <4>1. j \in 1..Len(s) /\ s[j] = seenHashes[j]
        BY <1>1, <2>1, <2>3, <3>2
      <4> QED BY <4>1
    <3>3. CASE j > k
      <4>1. j - 1 \in 1..Len(s) /\ ~(j - 1 < k) /\ (j - 1) + 1 = j
        BY <1>1, <2>1, <2>3, <3>3
      <4>2. s[j - 1] = seenHashes[j]
        BY <2>3, <4>1
      <4> QED BY <4>1, <4>2
    <3> QED BY <1>1, <2>1, <3>1, <3>2, <3>3
  <2>6. Len(s) <= MaxHashes
    BY <1>1, <2>3, LoggingAssumption
  <2> QED BY <2>2, <2>3, <2>4, <2>5, <2>6
<1> QED BY <1>2, <1>3

(* A record comes: the others keep their place, and it was none's witness.  *)
LEMMA ComesStep ==
  ASSUME TrackingTypes, NEW r \in E!Records, NEW h \in Nat,
         NEW outcome \in {"below", "skipped", "posting"}, E!Comes(r, h, outcome)
  PROVE  /\ hash' \in [E!Records -> Nat] /\ by' \in [E!Records -> Nat]
         /\ write' \in [E!Records -> {"new", "below", "skipped", "posting", "posted", "failed"}]
         /\ \A s \in E!Records : by'[s] <= transport
         /\ ~Active(r) /\ hash'[r] = h /\ by'[r] = transport /\ write'[r] = outcome
         /\ \A s \in E!Records \ {r} : hash'[s] = hash[s] /\ by'[s] = by[s] /\ write'[s] = write[s]
         /\ UNCHANGED <<dedupe, transport>>
<1>1. /\ write[r] = "new" /\ hash' = [hash EXCEPT ![r] = h] /\ write' = [write EXCEPT ![r] = outcome]
      /\ by' = [by EXCEPT ![r] = transport] /\ UNCHANGED <<dedupe, transport>>
  BY DEF E!Comes, E!options
<1>2. /\ hash'[r] = h /\ by'[r] = transport /\ write'[r] = outcome
      /\ \A s \in E!Records \ {r} : hash'[s] = hash[s] /\ by'[s] = by[s] /\ write'[s] = write[s]
  BY <1>1 DEF TrackingTypes
<1>3. hash' \in [E!Records -> Nat] /\ by' \in [E!Records -> Nat]
  BY <1>1 DEF TrackingTypes
<1>4. write' \in [E!Records -> {"new", "below", "skipped", "posting", "posted", "failed"}]
  BY <1>1 DEF TrackingTypes
<1>5. ASSUME NEW s \in E!Records PROVE by'[s] <= transport
  <2>1. transport \in Nat /\ by[s] <= transport
    BY DEF TrackingTypes
  <2>2. CASE s = r
    BY <1>2, <2>1, <2>2
  <2>3. CASE s # r
    <3>1. by'[s] = by[s]
      BY <1>2, <2>3
    <3> QED BY <2>1, <3>1
  <2> QED BY <2>2, <2>3
<1> QED BY <1>1, <1>2, <1>3, <1>4, <1>5 DEF Active

LEMMA WriteTracked ==
  ASSUME TrackingInv, NEW r \in E!Records, NEW h \in Nat, E!Write(r, h)
  PROVE  TrackingInv'
<1>0. TrackingTypes /\ Vouched /\ Remembered /\ Once
  BY DEF TrackingInv
<1> DEFINE outcome == IF E!Seen(h) THEN "skipped" ELSE "posting"
<1>1. /\ E!Comes(r, h, outcome) /\ outcome \in {"below", "skipped", "posting"}
      /\ IF dedupe /\ ~E!Seen(h)
         THEN seenHashes' = Append(E!Evict, h) /\ evicted' = (evicted \/ E!Full)
         ELSE UNCHANGED <<seenHashes, evicted>>
  BY DEF E!Write
<1>2. /\ hash' \in [E!Records -> Nat] /\ by' \in [E!Records -> Nat]
      /\ write' \in [E!Records -> {"new", "below", "skipped", "posting", "posted", "failed"}]
      /\ \A s \in E!Records : by'[s] <= transport
      /\ ~Active(r) /\ hash'[r] = h /\ by'[r] = transport /\ write'[r] = outcome
      /\ \A s \in E!Records \ {r} : hash'[s] = hash[s] /\ by'[s] = by[s] /\ write'[s] = write[s]
      /\ UNCHANGED <<dedupe, transport>>
  BY <1>0, <1>1, ComesStep
<1>3. \A s \in E!Records : s # r => (Active(s)' <=> Active(s))
  BY <1>2 DEF Active
<1>4. CASE dedupe /\ ~E!Seen(h)
  <2> DEFINE e == E!Evict
  <2>1. /\ e \in Seq(Nat) /\ Len(e) < MaxHashes
        /\ \A i \in 1..Len(e) : \E j \in 1..Len(seenHashes) : e[i] = seenHashes[j]
        /\ \A i, j \in 1..Len(e) : e[i] = e[j] => i = j
        /\ ~E!Full => e = seenHashes
    BY <1>0, Evicts
  <2>2. \A j \in 1..Len(seenHashes) : seenHashes[j] # h
    BY <1>4 DEF E!Seen, E!Contains
  <2>3. seenHashes' = Append(e, h) /\ evicted' = (evicted \/ E!Full)
    BY <1>1, <1>4
  <2> HIDE DEF e
  <2>4. \A i \in 1..Len(e) : e[i] # h
    BY <2>1, <2>2
  <2>5. /\ seenHashes' \in Seq(Nat) /\ Len(seenHashes') = Len(e) + 1 /\ seenHashes'[Len(e) + 1] = h
        /\ \A i \in 1..Len(e) : seenHashes'[i] = e[i]
        /\ 1..Len(seenHashes') = 1..Len(e) \cup {Len(e) + 1}
        /\ \A i, j \in 1..Len(seenHashes') : seenHashes'[i] = seenHashes'[j] => i = j
    BY <2>1, <2>3, <2>4, Appends
  <2>6. Active(r)'
    BY <1>2, <1>4 DEF Active
  <2>7. TrackingTypes'
    <3>1. Len(seenHashes') <= MaxHashes
      BY <2>1, <2>5, LoggingAssumption
    <3> QED BY <1>0, <1>2, <2>5, <3>1 DEF TrackingTypes
  <2>8. Vouched'
    <3> SUFFICES ASSUME NEW i \in 1..Len(seenHashes')
                 PROVE  \E s \in E!Records : hash'[s] = seenHashes'[i] /\ by'[s] = transport' /\ Active(s)'
      BY DEF Vouched
    <3>1. CASE i = Len(e) + 1
      BY <1>2, <2>5, <2>6, <3>1
    <3>2. CASE i \in 1..Len(e)
      <4>1. PICK j \in 1..Len(seenHashes) : e[i] = seenHashes[j]
        BY <2>1, <3>2
      <4>2. PICK s \in E!Records : hash[s] = seenHashes[j] /\ by[s] = transport /\ Active(s)
        BY <1>0 DEF Vouched
      <4>3. s # r
        BY <1>2, <4>2
      <4>4. hash'[s] = hash[s] /\ by'[s] = by[s] /\ Active(s)' /\ transport' = transport
        BY <1>2, <1>3, <4>2, <4>3
      <4>5. seenHashes'[i] = e[i]
        BY <2>5, <3>2
      <4> QED BY <4>1, <4>2, <4>4, <4>5
    <3> QED BY <2>5, <3>1, <3>2
  <2>9. Remembered'
    <3> SUFFICES ASSUME ~evicted, ~E!Full, NEW s \in E!Records, Active(s)', by'[s] = transport
                 PROVE  \E i \in 1..Len(seenHashes') : seenHashes'[i] = hash'[s]
      BY <1>2, <2>3 DEF Remembered
    <3>1. CASE s = r
      BY <1>2, <2>5, <3>1
    <3>2. CASE s # r
      <4>1. PICK i \in 1..Len(seenHashes) : seenHashes[i] = hash[s]
        BY <1>0, <1>2, <1>3, <1>4, <3>2 DEF Remembered
      <4>2. e = seenHashes /\ hash'[s] = hash[s]
        BY <1>2, <2>1, <3>2
      <4>3. i \in 1..Len(seenHashes') /\ seenHashes'[i] = e[i]
        BY <2>5, <4>2
      <4> QED BY <4>1, <4>2, <4>3
    <3> QED BY <3>1, <3>2
  <2>10. Once'
    <3> SUFFICES ASSUME ~evicted, NEW s \in E!Records, NEW t \in E!Records, s # t,
                        hash'[s] = hash'[t], by'[s] = by'[t], Active(s)', Active(t)'
                 PROVE  FALSE
      BY <1>2, <2>3 DEF Once
    <3>1. ASSUME NEW u \in E!Records, u # r, Active(u)', by'[u] = transport PROVE hash'[u] # h
      BY <1>0, <1>2, <1>3, <1>4, <2>2, <3>1 DEF Remembered
    <3>2. s # r /\ t # r
      BY <1>2, <3>1
    <3> QED BY <1>0, <1>2, <1>3, <1>4, <3>2 DEF Once
  <2> QED BY <2>7, <2>8, <2>9, <2>10 DEF TrackingInv
<1>5. CASE ~dedupe \/ E!Seen(h)
  <2>1. UNCHANGED <<seenHashes, evicted>>
    BY <1>1, <1>5
  <2>2. TrackingTypes'
    BY <1>0, <1>2, <2>1 DEF TrackingTypes
  <2>3. Vouched'
    BY <1>0, <1>2, <1>3, <2>1 DEF Vouched
  <2>4. dedupe => ~Active(r)'
    BY <1>2, <1>5 DEF Active
  <2>5. Remembered' /\ Once'
    BY <1>0, <1>2, <1>3, <2>1, <2>4 DEF Remembered, Once
  <2> QED BY <2>2, <2>3, <2>5 DEF TrackingInv
<1> QED BY <1>4, <1>5

LEMMA TrackingNext == ASSUME TrackingInv, [Next]_vars PROVE TrackingInv'
<1>0. TrackingTypes /\ Vouched /\ Remembered /\ Once
  BY DEF TrackingInv
<1>1. ASSUME NEW r \in E!Records, NEW h \in E!Hashes, E!Write(r, h) PROVE TrackingInv'
  <2>1. h \in Nat
    BY DEF E!Hashes
  <2> QED BY <1>1, <2>1, WriteTracked
<1>2. ASSUME NEW r \in E!Records, E!WriteBelow(r) PROVE TrackingInv'
  <2>1. /\ hash' \in [E!Records -> Nat] /\ by' \in [E!Records -> Nat]
        /\ write' \in [E!Records -> {"new", "below", "skipped", "posting", "posted", "failed"}]
        /\ \A s \in E!Records : by'[s] <= transport
        /\ ~Active(r) /\ hash'[r] = 0 /\ by'[r] = transport /\ write'[r] = "below"
        /\ \A s \in E!Records \ {r} : hash'[s] = hash[s] /\ by'[s] = by[s] /\ write'[s] = write[s]
        /\ UNCHANGED <<dedupe, transport>>
    BY <1>0, <1>2, ComesStep DEF E!WriteBelow
  <2>2. UNCHANGED <<seenHashes, evicted>>
    BY <1>2 DEF E!WriteBelow
  <2>3. ~Active(r)' /\ \A s \in E!Records : s # r => (Active(s)' <=> Active(s))
    BY <2>1 DEF Active
  <2>4. TrackingTypes'
    BY <1>0, <2>1, <2>2 DEF TrackingTypes
  <2>5. Vouched'
    <3> SUFFICES ASSUME NEW i \in 1..Len(seenHashes)
                 PROVE  \E s \in E!Records : hash'[s] = seenHashes[i] /\ by'[s] = transport /\ Active(s)'
      BY <2>1, <2>2 DEF Vouched
    <3>1. PICK s \in E!Records : hash[s] = seenHashes[i] /\ by[s] = transport /\ Active(s)
      BY <1>0 DEF Vouched
    <3>2. s # r
      BY <2>1, <3>1
    <3>3. hash'[s] = hash[s] /\ by'[s] = by[s] /\ Active(s)'
      BY <2>1, <2>3, <3>1, <3>2
    <3> QED BY <3>1, <3>3
  <2>6. \A s \in E!Records : Active(s)' => Active(s) /\ hash'[s] = hash[s] /\ by'[s] = by[s]
    BY <2>1, <2>3
  <2>7. Remembered'
    BY <1>0, <2>1, <2>2, <2>6 DEF Remembered
  <2>8. Once'
    BY <1>0, <2>1, <2>2, <2>6 DEF Once
  <2> QED BY <2>4, <2>5, <2>7, <2>8 DEF TrackingInv
<1>3. ASSUME NEW r \in E!Records, E!Acknowledged(r) PROVE TrackingInv'
  <2>1. /\ write[r] = "posting" /\ write' = [write EXCEPT ![r] = "posted"]
        /\ UNCHANGED <<dedupe, transport, hash, by, seenHashes, evicted>>
    BY <1>3 DEF E!Acknowledged, E!options
  <2>2. \A s \in E!Records : Active(s)' <=> Active(s)
    BY <1>0, <2>1 DEF Active, TrackingTypes
  <2>3. TrackingTypes'
    BY <1>0, <2>1 DEF TrackingTypes
  <2>4. Vouched' /\ Remembered' /\ Once'
    BY <1>0, <2>1, <2>2 DEF Vouched, Remembered, Once
  <2> QED BY <2>3, <2>4 DEF TrackingInv
<1>4. ASSUME NEW r \in E!Records, E!AttemptFails(r) PROVE TrackingInv'
  <2>1. write[r] = "posting" /\ UNCHANGED <<dedupe, transport, hash, by, evicted>>
    BY <1>4 DEF E!AttemptFails, E!options
  <2>2. CASE fallback /\ endpoint[r] = 1
    <3>1. UNCHANGED <<write, seenHashes>>
      BY <1>4, <2>2 DEF E!AttemptFails
    <3> QED BY <1>0, <2>1, <3>1 DEF TrackingInv, TrackingTypes, Vouched, Remembered, Once, Active
  <2>3. CASE ~(fallback /\ endpoint[r] = 1)
    <3>1. /\ write' = [write EXCEPT ![r] = "failed"]
          /\ seenHashes' = IF by[r] = transport THEN E!Without(seenHashes, hash[r]) ELSE seenHashes
      BY <1>4, <2>3 DEF E!AttemptFails
    <3>2. Active(r) /\ ~Active(r)' /\ \A s \in E!Records : s # r => (Active(s)' <=> Active(s))
      BY <1>0, <2>1, <3>1 DEF Active, TrackingTypes
    <3>3. write' \in [E!Records -> {"new", "below", "skipped", "posting", "posted", "failed"}]
      BY <1>0, <3>1 DEF TrackingTypes
    <3>4. CASE by[r] = transport
      <4>1. /\ seenHashes' \in Seq(Nat) /\ Len(seenHashes') <= MaxHashes
            /\ \A i \in 1..Len(seenHashes') :
                 seenHashes'[i] # hash[r] /\ \E j \in 1..Len(seenHashes) : seenHashes'[i] = seenHashes[j]
            /\ \A j \in 1..Len(seenHashes) :
                 seenHashes[j] # hash[r] => \E i \in 1..Len(seenHashes') : seenHashes'[i] = seenHashes[j]
            /\ \A i, j \in 1..Len(seenHashes') : seenHashes'[i] = seenHashes'[j] => i = j
        <5>1. seenHashes' = E!Without(seenHashes, hash[r])
          BY <3>1, <3>4
        <5> DEFINE h == hash[r]
                   w == E!Without(seenHashes, h)
        <5>2. /\ w \in Seq(Nat) /\ Len(w) <= MaxHashes
              /\ \A i \in 1..Len(w) : w[i] # h /\ \E j \in 1..Len(seenHashes) : w[i] = seenHashes[j]
              /\ \A j \in 1..Len(seenHashes) : seenHashes[j] # h => \E i \in 1..Len(w) : w[i] = seenHashes[j]
              /\ \A i, j \in 1..Len(w) : w[i] = w[j] => i = j
          <6> HIDE DEF h
          <6> QED BY <1>0, Deletes
        <5>3. seenHashes' = w
          BY <5>1
        <5> HIDE DEF w
        <5> QED BY ONLY <5>2, <5>3
      <4>2. TrackingTypes'
        BY <1>0, <2>1, <3>3, <4>1 DEF TrackingTypes
      <4>3. Vouched'
        <5> SUFFICES ASSUME NEW i \in 1..Len(seenHashes')
                     PROVE  \E s \in E!Records :
                              hash'[s] = seenHashes'[i] /\ by'[s] = transport' /\ Active(s)'
          BY DEF Vouched
        <5>1. PICK j \in 1..Len(seenHashes) : seenHashes'[i] = seenHashes[j]
          BY <4>1
        <5>2. PICK s \in E!Records : hash[s] = seenHashes[j] /\ by[s] = transport /\ Active(s)
          BY <1>0 DEF Vouched
        <5>3. s # r
          BY <4>1, <5>1, <5>2
        <5> QED BY <2>1, <3>2, <5>1, <5>2, <5>3
      <4>4. Remembered'
        <5> SUFFICES ASSUME dedupe, ~evicted, NEW s \in E!Records, Active(s)', by[s] = transport
                     PROVE  \E i \in 1..Len(seenHashes') : seenHashes'[i] = hash[s]
          BY <2>1 DEF Remembered
        <5>1. s # r /\ Active(s)
          BY <3>2
        <5>2. hash[s] # hash[r]
          BY <1>0, <3>2, <3>4, <5>1 DEF Once
        <5>3. PICK j \in 1..Len(seenHashes) : seenHashes[j] = hash[s]
          BY <1>0, <5>1 DEF Remembered
        <5> QED BY <4>1, <5>2, <5>3
      <4>5. Once'
        BY <1>0, <2>1, <3>2 DEF Once
      <4> QED BY <4>2, <4>3, <4>4, <4>5 DEF TrackingInv
    <3>5. CASE by[r] # transport
      <4>1. seenHashes' = seenHashes
        BY <3>1, <3>5
      <4>2. TrackingTypes'
        BY <1>0, <2>1, <3>3, <4>1 DEF TrackingTypes
      <4>3. Vouched'
        BY <1>0, <2>1, <3>2, <3>5, <4>1 DEF Vouched
      <4>4. Remembered' /\ Once'
        BY <1>0, <2>1, <3>2, <4>1 DEF Remembered, Once
      <4> QED BY <4>2, <4>3, <4>4 DEF TrackingInv
    <3> QED BY <3>4, <3>5
  <2> QED BY <2>2, <2>3
<1>5. CASE E!SetErrorTracking
  <2>1. /\ transport' = transport + 1 /\ seenHashes' = <<>>
        /\ UNCHANGED <<dedupe, hash, by, write, evicted>>
    BY <1>5 DEF E!SetErrorTracking, E!options
  <2>2. seenHashes' \in Seq(Nat) /\ Len(seenHashes') = 0 /\ 1..Len(seenHashes') = {}
    BY <2>1
  <2>3. transport' \in Nat /\ \A s \in E!Records : by'[s] <= transport' /\ by'[s] # transport'
    BY <1>0, <2>1 DEF TrackingTypes
  <2>4. TrackingTypes'
    BY <1>0, <2>1, <2>2, <2>3, LoggingAssumption DEF TrackingTypes
  <2>5. Vouched' /\ Remembered' /\ Once'
    BY <1>0, <2>1, <2>2, <2>3 DEF Vouched, Remembered, Once, Active
  <2> QED BY <2>4, <2>5 DEF TrackingInv
<1>6. CASE UNCHANGED trackingVars
  BY <1>0, <1>6 DEF trackingVars, TrackingInv, TrackingTypes, Vouched, Remembered, Once, Active
<1> QED BY <1>1, <1>2, <1>3, <1>4, <1>5, <1>6, TrackingStep DEF E!Next, E!Fails, E!Aborts

LEMMA Deduped == TrackingInv => DedupeIsExact
<1> SUFFICES ASSUME TrackingInv PROVE E!OncePerHash /\ E!SkipsOnlyTheSent
  BY DEF DedupeIsExact
<1>1. E!OncePerHash
  BY DEF TrackingInv, Once, Active, E!OncePerHash
<1>2. DOMAIN seenHashes = 1..Len(seenHashes)
  BY DEF TrackingInv, TrackingTypes
<1>3. E!SkipsOnlyTheSent
  BY <1>2 DEF TrackingInv, TrackingTypes, Vouched, Active, E!SkipsOnlyTheSent
<1> QED BY <1>1, <1>3

(* A transport posts no two records of one hash at once or after one was    *)
(* acknowledged, and skips a record only for one that it posts or has       *)
(* posted, also after evictions (src/base-logger.ts:690-711), for any       *)
(* number of records, hashes and transports and any limit that is not zero. *)
THEOREM DedupeAlwaysExact == Spec => []DedupeIsExact
<1>1. Init => TrackingInv
  BY TrackingInit
<1>2. TrackingInv /\ [Next]_vars => TrackingInv'
  BY TrackingNext
<1> QED BY <1>1, <1>2, Deduped, PTL DEF Spec

-----------------------------------------------------------------------------
(* Induction on the natural numbers, from the least element that a set of   *)
(* them has.                                                                *)
LEMMA NatBelow == \E order : IsWellFoundedOn(order, Nat) /\ \A x, y \in Nat : <<y, x>> \in order <=> y < x
<1>1. IsWellFoundedOn(OpToRel(<, Nat), Nat)
  BY NatLessThanWellFounded
<1> DEFINE order == {p \in Nat \X Nat : p[1] < p[2]}
<1>2. IsWellFoundedOn(order, Nat)
  BY <1>1 DEF OpToRel
<1>3. \A x, y \in Nat : <<y, x>> \in order <=> y < x
  OBVIOUS
<1> HIDE DEF order
<1> QED BY ONLY <1>2, <1>3

LEMMA Least == ASSUME NEW T \in SUBSET Nat, T # {} PROVE \E n \in T : \A m \in T : n <= m
<1>1. PICK order : IsWellFoundedOn(order, Nat) /\ \A x, y \in Nat : <<y, x>> \in order <=> y < x
  BY NatBelow
<1>2. PICK n \in T : \A m \in T : ~(<<m, n>> \in order)
  BY <1>1, WFMin
<1>3. ASSUME NEW m \in T PROVE n <= m
  <2>1. n \in Nat /\ m \in Nat
    OBVIOUS
  <2>2. ~(<<m, n>> \in order)
    BY <1>2
  <2>3. ~(m < n)
    BY <1>1, <2>1, <2>2, Zenon
  <2> QED BY ONLY <2>1, <2>3
<1> QED BY <1>3

LEMMA Induct == ASSUME NEW T \in SUBSET Nat, 0 \in T, \A n \in T : n + 1 \in T PROVE T = Nat
<1> SUFFICES ASSUME T # Nat PROVE FALSE
  OBVIOUS
<1> DEFINE U == Nat \ T
<1>1. PICK n \in U : \A m \in U : n <= m
  <2> U # {} OBVIOUS
  <2> QED BY Least
<1>2. n # 0 /\ n - 1 \in Nat /\ n - 1 \notin U
  BY <1>1
<1> QED BY <1>2

(* So a function that is defined by recursion on the numbers up to n exists, *)
(* and has the values of its equation.                                      *)
Recurs(f, n, D, base, Step) ==
  /\ f \in [0..n -> D]
  /\ f[0] = base
  /\ \A i \in 1..n : f[i] = Step[<<f[i - 1], i>>]

LEMMA Recursion ==
  ASSUME NEW n \in Nat, NEW D, NEW base \in D, NEW Step \in [D \X (1..n) -> D]
  PROVE  \E f : Recurs(f, n, D, base, Step)
<1> DEFINE Good(m, f) == /\ f \in [0..m -> D]
                         /\ \A i \in 0..m : f[i] = IF i = 0 THEN base ELSE Step[<<f[i - 1], i>>]
           T == {m \in Nat : m <= n => \E f : Good(m, f)}
<1>1. 0 \in T
  <2> Good(0, [i \in 0..0 |-> base])
    OBVIOUS
  <2> HIDE DEF Good
  <2> QED OBVIOUS
<1>2. ASSUME NEW m \in T PROVE m + 1 \in T
  <2> SUFFICES ASSUME m + 1 <= n PROVE \E f : Good(m + 1, f)
    OBVIOUS
  <2>1. PICK f : Good(m, f)
    <3> HIDE DEF Good
    <3> QED OBVIOUS
  <2> DEFINE g == [i \in 0..(m + 1) |-> IF i = m + 1 THEN Step[<<f[m], m + 1>>] ELSE f[i]]
  <2>2. f[m] \in D /\ m \in Nat /\ m + 1 \in 1..n
    BY <2>1
  <2>3. Step[<<f[m], m + 1>>] \in D
    BY <2>2
  <2>4. g \in [0..(m + 1) -> D]
    BY <2>1, <2>2, <2>3
  <2>5. ASSUME NEW i \in 0..(m + 1) PROVE g[i] = IF i = 0 THEN base ELSE Step[<<g[i - 1], i>>]
    <3>1. CASE i = m + 1
      <4>1. i # 0 /\ i - 1 = m /\ m \in 0..(m + 1) /\ m # m + 1
        BY <2>2, <3>1
      <4>2. g[i - 1] = f[m]
        BY <4>1
      <4> QED BY <3>1, <4>1, <4>2
    <3>2. CASE i # m + 1
      <4>1. i \in 0..m /\ g[i] = f[i]
        BY <2>2, <3>2
      <4>2. CASE i = 0
        BY <2>1, <4>1, <4>2
      <4>3. CASE i # 0
        <5>1. i - 1 \in 0..(m + 1) /\ i - 1 # m + 1
          BY <2>2, <4>1, <4>3
        <5>2. g[i - 1] = f[i - 1]
          BY <5>1
        <5> QED BY <2>1, <4>1, <4>3, <5>2
      <4> QED BY <4>2, <4>3
    <3> QED BY <3>1, <3>2
  <2> HIDE DEF g
  <2>6. Good(m + 1, g)
    BY <2>4, <2>5
  <2> HIDE DEF Good
  <2> QED BY <2>6
<1>3. T = Nat
  <2> T \in SUBSET Nat OBVIOUS
  <2> HIDE DEF T
  <2> QED BY <1>1, <1>2, Induct
<1>4. PICK f : Good(n, f)
  <2> HIDE DEF Good
  <2> QED BY <1>3
<1>5. ASSUME NEW i \in 1..n PROVE f[i] = Step[<<f[i - 1], i>>]
  <2> i \in 0..n /\ i # 0
    OBVIOUS
  <2> QED BY <1>4
<1>6. 0 \in 0..n
  OBVIOUS
<1> QED BY <1>4, <1>5, <1>6 DEF Recurs

-----------------------------------------------------------------------------
LEMMA AddToIs ==
  ASSUME NEW V, NEW u \in Seq(V), NEW x \in V
  PROVE  R!AddTo(u, x) \in Seq(V) /\ R!ToSet(R!AddTo(u, x)) = R!ToSet(u) \cup {x}
<1>1. CASE R!Contains(u, x)
  BY <1>1 DEF R!AddTo, R!Contains, R!ToSet
<1>2. CASE ~R!Contains(u, x)
  <2> DEFINE t == Append(u, x)
  <2>1. t \in Seq(V) /\ Len(t) = Len(u) + 1 /\ t[Len(u) + 1] = x /\ Len(u) \in Nat
        /\ \A i \in 1..Len(u) : t[i] = u[i]
    OBVIOUS
  <2>2. R!AddTo(u, x) = t
    BY <1>2 DEF R!AddTo
  <2> HIDE DEF t
  <2>3. DOMAIN t = 1..(Len(u) + 1) /\ DOMAIN u = 1..Len(u)
    BY <2>1
  <2>4. {t[i] : i \in DOMAIN t} = {u[i] : i \in DOMAIN u} \cup {x}
    <3>1. 1..(Len(u) + 1) = 1..Len(u) \cup {Len(u) + 1}
      BY <2>1
    <3> QED BY <2>1, <2>3, <3>1
  <2> QED BY <2>1, <2>2, <2>4 DEF R!ToSet
<1> QED BY <1>1, <1>2

LEMMA AddAllIs ==
  ASSUME NEW V, NEW s \in Seq(V), NEW list \in Seq(V)
  PROVE  R!AddAll(s, list) \in Seq(V) /\ R!ToSet(R!AddAll(s, list)) = R!ToSet(s) \cup R!ToSet(list)
<1> DEFINE n == Len(list)
           r == CHOOSE f : f = [i \in 0..n |-> IF i = 0 THEN s ELSE R!AddTo(f[i - 1], list[i])]
<1>1. \A u \in Seq(V), x \in V : R!AddTo(u, x) \in Seq(V) /\ R!ToSet(R!AddTo(u, x)) = R!ToSet(u) \cup {x}
  BY AddToIs
<1>2. n \in Nat /\ \A i \in 1..n : list[i] \in V
  OBVIOUS
<1> DEFINE Step == [p \in Seq(V) \X (1..n) |-> R!AddTo(p[1], list[p[2]])]
<1>3. PICK f : Recurs(f, n, Seq(V), s, Step)
  <2> Step \in [Seq(V) \X (1..n) -> Seq(V)]
    BY <1>1, <1>2
  <2> HIDE DEF Step, n
  <2> QED BY <1>2, Recursion
<1>4. ASSUME NEW i \in 1..n PROVE i - 1 \in 0..n /\ f[i] = R!AddTo(f[i - 1], list[i])
  <2>1. i \in 0..n /\ i # 0 /\ i - 1 \in 0..n
    BY <1>2
  <2>2. f[i - 1] \in Seq(V)
    BY <1>3, <2>1 DEF Recurs
  <2> QED BY <1>3, <2>1, <2>2 DEF Recurs
<1>5. f = [i \in 0..n |-> IF i = 0 THEN s ELSE R!AddTo(f[i - 1], list[i])]
  <2> HIDE DEF n, Step
  <2>1. \A i \in 0..n : f[i] = IF i = 0 THEN s ELSE R!AddTo(f[i - 1], list[i])
    <3> SUFFICES ASSUME NEW i \in 0..n PROVE f[i] = IF i = 0 THEN s ELSE R!AddTo(f[i - 1], list[i])
      OBVIOUS
    <3>1. CASE i = 0
      BY <1>3, <3>1 DEF Recurs
    <3>2. CASE i # 0
      <4>1. i \in 1..n
        BY <1>2, <3>2
      <4> QED BY <1>4, <3>2, <4>1
    <3> QED BY <3>1, <3>2
  <2> QED BY <1>3, <2>1 DEF Recurs
<1>6. r = [i \in 0..n |-> IF i = 0 THEN s ELSE R!AddTo(r[i - 1], list[i])]
  BY ONLY <1>5
<1>7. R!AddAll(s, list) = r[n]
  BY DEF R!AddAll
<1> HIDE DEF r, Step
<1>8. r[0] = s /\ \A i \in 0..n : i # 0 => r[i] = R!AddTo(r[i - 1], list[i])
  <2> HIDE DEF n
  <2>1. \A i \in 0..n : r[i] = IF i = 0 THEN s ELSE R!AddTo(r[i - 1], list[i])
    BY <1>6, Zenon
  <2>2. 0 \in 0..n
    BY <1>2
  <2> QED BY <2>1, <2>2, Zenon
<1> HIDE DEF n
<1> DEFINE Told(i) == {list[j] : j \in 1..i}
           T == {i \in Nat : i <= n => r[i] \in Seq(V) /\ R!ToSet(r[i]) = R!ToSet(s) \cup Told(i)}
<1>9. 0 \in T
  BY <1>8
<1>10. ASSUME NEW i \in T PROVE i + 1 \in T
  <2> SUFFICES ASSUME i + 1 <= n PROVE r[i + 1] \in Seq(V) /\ R!ToSet(r[i + 1]) = R!ToSet(s) \cup Told(i + 1)
    OBVIOUS
  <2>1. i \in Nat /\ i + 1 \in 0..n /\ i + 1 # 0 /\ i + 1 - 1 = i /\ i + 1 \in 1..n /\ i <= n
    BY <1>2
  <2>2. r[i + 1] = R!AddTo(r[i], list[i + 1]) /\ list[i + 1] \in V
    BY <1>2, <1>8, <2>1
  <2>3. r[i] \in Seq(V) /\ R!ToSet(r[i]) = R!ToSet(s) \cup Told(i)
    BY <2>1
  <2>4. r[i + 1] \in Seq(V) /\ R!ToSet(r[i + 1]) = R!ToSet(r[i]) \cup {list[i + 1]}
    BY <1>1, <2>2, <2>3
  <2>5. Told(i + 1) = Told(i) \cup {list[i + 1]}
    <3>1. 1..(i + 1) = 1..i \cup {i + 1}
      BY <2>1
    <3> QED BY <3>1
  <2> QED BY <2>3, <2>4, <2>5
<1>11. n \in T
  <2> T \in SUBSET Nat OBVIOUS
  <2> HIDE DEF T
  <2> QED BY <1>2, <1>9, <1>10, Induct
<1>12. Told(n) = R!ToSet(list)
  BY DEF n, R!ToSet
<1> QED BY <1>2, <1>7, <1>11, <1>12

-----------------------------------------------------------------------------
(* LogRecords' event takes a step of its own, or stays as it is.            *)
LEMMA EventsStep == ASSUME [Next]_vars PROVE R!NextEvent \/ UNCHANGED eventVars
<1>1. CASE UNCHANGED vars
  BY <1>1 DEF vars, recordVars
<1>2. ASSUME NEW l \in R!Loggers, R!New(l) \/ \E m \in R!Loggers : R!Anew(l, m) PROVE UNCHANGED eventVars
  <2>1. \A o, s : R!Construct(l, o, s) => UNCHANGED eventVars
    BY DEF R!Construct, R!eventVars, eventVars
  <2> QED BY <1>2, <2>1 DEF R!New, R!Anew
<1>3. ASSUME NEW l \in R!Loggers,
             R!SetContextProvider(l) \/ R!SetOtelEnabled(l) \/ R!SetErrorTracking(l)
      PROVE  UNCHANGED eventVars
  BY <1>3 DEF R!SetContextProvider, R!SetOtelEnabled, R!SetErrorTracking, R!WriteThrough,
              R!eventVars, eventVars
<1>4. CASE R!NextLogger
  BY <1>2, <1>3, <1>4 DEF R!NextLogger
<1> QED BY <1>1, <1>4 DEF Next, recordVars

Ids == STRING \cup {"none", "t1", "t2"}
Read == {<<>>} \cup {<<c>> : c \in Contexts}

EventTypes ==
  /\ traceId \in Ids /\ traceIds \in Seq(Ids)
  /\ ambient \in Read /\ enriched \in Read

(* The traces that were given are in the list, and so is the first.         *)
Correlated ==
  /\ record = <<>> => given \subseteq R!ToSet(traceIds)
  /\ traceId # "none" => traceId \in R!ToSet(traceIds)

(* What the event was enriched with is on it.                               *)
Carried ==
  enriched # <<>> =>
    /\ enriched[1].traceId # "none" => traceId = enriched[1].traceId
    /\ \A k \in DOMAIN enriched[1].fields : k \in DOMAIN fields /\ fields[k] = enriched[1].fields[k]

EventInv == EventTypes /\ Correlated /\ Carried /\ R!RecordCorrelates

LEMMA EventInit == Init => EventInv
<1> SUFFICES ASSUME Init PROVE EventInv
  OBVIOUS
<1>1. /\ traceId = "none" /\ traceIds = <<>> /\ ambient = <<>> /\ record = <<>> /\ given = {}
      /\ enriched = <<>>
  BY DEF Init, R!Init, R!None
<1>2. EventTypes
  BY <1>1 DEF EventTypes, Ids, Read
<1>3. Correlated /\ Carried /\ R!RecordCorrelates
  BY <1>1 DEF Correlated, Carried, R!RecordCorrelates
<1> QED BY <1>2, <1>3 DEF EventInv

(* A context's traces: its own and the list, as they are added.             *)
LEMMA ContextTraces ==
  ASSUME NEW c \in Contexts
  PROVE  /\ c.traceId \in Ids /\ c.traceIds \in Seq(Ids)
         /\ R!OneOf(c.traceId) \o c.traceIds \in Seq(Ids)
         /\ c.traceId # "none" => c.traceId \in R!ToSet(R!OneOf(c.traceId) \o c.traceIds)
         /\ c.traceIds # <<>> => /\ c.traceIds[1] \in Ids
                                 /\ c.traceIds[1] \in R!ToSet(R!OneOf(c.traceId) \o c.traceIds)
<1>1. c.traceId \in Ids /\ c.traceIds \in Seq(Ids)
  BY ContextAssumption DEF Ids
<1> DEFINE u == c.traceIds
           t == R!OneOf(c.traceId) \o u
<1>2. CASE c.traceId = "none"
  <2>1. t = u
    BY <1>1, <1>2 DEF R!OneOf, R!None
  <2>2. u # <<>> => 1 \in DOMAIN u /\ u[1] \in Ids
    BY <1>1
  <2> QED BY <1>1, <1>2, <2>1, <2>2 DEF R!ToSet
<1>3. CASE c.traceId # "none"
  <2> DEFINE i == c.traceId
  <2> HIDE DEF i, u
  <2>1. t = <<i>> \o u
    BY <1>3 DEF R!OneOf, R!None, i
  <2>2. i \in Ids /\ u \in Seq(Ids)
    BY <1>1 DEF i, u
  <2>3. t \in Seq(Ids) /\ 1 \in DOMAIN t /\ t[1] = i
    BY <2>1, <2>2
  <2>4. u # <<>> => u[1] \in Ids /\ 2 \in DOMAIN t /\ t[2] = u[1]
    BY <2>1, <2>2
  <2> HIDE DEF t
  <2>5. i \in R!ToSet(t) /\ (u # <<>> => u[1] \in R!ToSet(t))
    BY <2>3, <2>4 DEF R!ToSet
  <2> QED BY <2>2, <2>3, <2>4, <2>5 DEF i, u, t
<1> QED BY <1>2, <1>3

LEMMA RecordIs ==
  ASSUME EventInv, record = <<>>, NEW r, r = R!RecordOf(fields, traceId, traceIds, ambient)
  PROVE  /\ given \subseteq R!ToSet(r.traceIds)
         /\ r.traceId # "none" => R!Contains(r.traceIds, r.traceId)
<1>1. traceId \in Ids /\ traceIds \in Seq(Ids) /\ given \subseteq R!ToSet(traceIds)
      /\ (traceId # "none" => traceId \in R!ToSet(traceIds))
  BY DEF EventInv, EventTypes, Correlated
<1> DEFINE c == IF ambient = <<>> THEN [fields |-> <<>>, traceId |-> "none", traceIds |-> <<>>]
                ELSE ambient[1]
           l == R!OneOf(c.traceId) \o c.traceIds
<1>2. l \in Seq(Ids) /\ c.traceId \in Ids /\ (c.traceId # "none" => c.traceId \in R!ToSet(l))
  <2>1. CASE ambient = <<>>
    <3>1. c = [fields |-> <<>>, traceId |-> "none", traceIds |-> <<>>]
      BY <2>1
    <3>2. c.traceId = "none" /\ c.traceIds = <<>>
      BY <3>1
    <3> HIDE DEF c
    <3>3. R!OneOf(c.traceId) = <<>>
      BY <3>2 DEF R!OneOf, R!None
    <3>4. l = <<>>
      BY <3>2, <3>3
    <3> HIDE DEF l
    <3> QED BY <3>2, <3>4 DEF Ids
  <2>2. CASE ambient # <<>>
    <3>1. c \in Contexts
      BY <2>2 DEF EventInv, EventTypes, Read
    <3> HIDE DEF c
    <3> QED BY <3>1, ContextTraces
  <2> QED BY <2>1, <2>2
<1>3. r.traceId = (IF traceId # "none" THEN traceId ELSE c.traceId) /\ r.traceIds = R!AddAll(traceIds, l)
  BY DEF R!RecordOf, R!None
<1> HIDE DEF c, l
<1>4. R!ToSet(r.traceIds) = R!ToSet(traceIds) \cup R!ToSet(l)
  BY <1>1, <1>2, <1>3, AddAllIs
<1>5. r.traceId # "none" => r.traceId \in R!ToSet(r.traceIds)
  BY <1>1, <1>2, <1>3, <1>4
<1>6. r.traceId # "none" => R!Contains(r.traceIds, r.traceId)
  BY <1>5 DEF R!Contains, R!ToSet
<1> QED BY <1>1, <1>4, <1>6

LEMMA EventNext == ASSUME EventInv, [Next]_vars PROVE EventInv'
<1> USE DEF R!None
<1>0. /\ traceId \in Ids /\ traceIds \in Seq(Ids) /\ ambient \in Read /\ enriched \in Read
      /\ (traceId # "none" => traceId \in R!ToSet(traceIds))
      /\ (record = <<>> => given \subseteq R!ToSet(traceIds))
  BY DEF EventInv, EventTypes, Correlated
<1>1. CASE R!AddFields
  <2>1. /\ enriched' = <<>> /\ record' = record /\ given' = given
        /\ traceId' = traceId /\ traceIds' = traceIds /\ ambient' = ambient
    BY <1>1 DEF R!AddFields
  <2> QED BY <2>1 DEF EventInv, EventTypes, Correlated, Carried, R!RecordCorrelates, Read
<1>2. ASSUME NEW c \in Contexts, R!ContextChanges(c) PROVE EventInv'
  <2>1. /\ enriched' = enriched /\ record' = record /\ given' = given /\ fields' = fields
        /\ traceId' = traceId /\ traceIds' = traceIds /\ ambient' = <<c>>
    BY <1>2 DEF R!ContextChanges
  <2> QED BY <2>1 DEF EventInv, EventTypes, Correlated, Carried, R!RecordCorrelates, Read
<1>3. ASSUME NEW id \in {"t1", "t2"}, NEW makeFirst \in BOOLEAN, R!AddTrace(id, makeFirst) PROVE EventInv'
  <2>1. /\ traceId' = IF traceId = "none" \/ makeFirst THEN id ELSE traceId
        /\ traceIds' = R!AddTo(traceIds, id)
        /\ given' = IF record = <<>> THEN given \cup {id} ELSE given
        /\ enriched' = IF makeFirst THEN <<>> ELSE enriched
        /\ fields' = fields /\ ambient' = ambient /\ record' = record
    BY <1>3 DEF R!AddTrace, R!AddsTrace, R!Give
  <2>2. id \in Ids
    BY DEF Ids
  <2>3. traceIds' \in Seq(Ids) /\ R!ToSet(traceIds') = R!ToSet(traceIds) \cup {id}
    <3>1. \A V : \A u \in Seq(V), x \in V : R!AddTo(u, x) \in Seq(V) /\ R!ToSet(R!AddTo(u, x)) = R!ToSet(u) \cup {x}
      BY AddToIs
    <3>2. R!AddTo(traceIds, id) \in Seq(Ids) /\ R!ToSet(R!AddTo(traceIds, id)) = R!ToSet(traceIds) \cup {id}
      BY ONLY <1>0, <2>2, <3>1
    <3> QED BY ONLY <2>1, <3>2
  <2>4. EventTypes'
    BY <1>0, <2>1, <2>2, <2>3 DEF EventTypes, Read
  <2>5. Correlated'
    BY <1>0, <2>1, <2>3 DEF Correlated, R!ToSet
  <2>6. Carried'
    BY <2>1 DEF EventInv, Carried
  <2>7. R!RecordCorrelates'
    BY <2>1 DEF EventInv, R!RecordCorrelates
  <2> QED BY <2>4, <2>5, <2>6, <2>7 DEF EventInv
<1>4. CASE R!EnrichEvent
  <2>1. PICK c \in Contexts : ambient = <<c>>
    BY <1>0, <1>4 DEF R!EnrichEvent, Read
  <2> DEFINE l == R!OneOf(c.traceId) \o c.traceIds
  <2>2. /\ traceId' = IF c.traceId # "none" THEN c.traceId
                      ELSE IF traceId = "none" /\ c.traceIds # <<>> THEN c.traceIds[1] ELSE traceId
        /\ traceIds' = R!AddAll(traceIds, l)
        /\ given' = IF record = <<>> THEN given \cup R!ToSet(l) ELSE given
        /\ enriched' = <<c>> /\ ambient' = ambient /\ record' = record
        /\ fields' = R!Spread(fields, c.fields)
    BY <1>4, <2>1 DEF R!EnrichEvent, R!Enrich, R!Give
  <2>3. /\ l \in Seq(Ids) /\ c.traceId \in Ids
        /\ (c.traceId # "none" => c.traceId \in R!ToSet(l))
        /\ (c.traceIds # <<>> => c.traceIds[1] \in Ids /\ c.traceIds[1] \in R!ToSet(l))
    BY ContextTraces
  <2> HIDE DEF l
  <2>4. traceIds' \in Seq(Ids) /\ R!ToSet(traceIds') = R!ToSet(traceIds) \cup R!ToSet(l)
    BY <1>0, <2>2, <2>3, AddAllIs
  <2>5. EventTypes'
    BY <1>0, <2>2, <2>3, <2>4 DEF EventTypes, Read
  <2>6. given' \subseteq R!ToSet(traceIds') \/ record' # <<>>
    BY <1>0, <2>2, <2>4
  <2>7. traceId' # "none" => traceId' \in R!ToSet(traceIds')
    BY <1>0, <2>2, <2>3, <2>4
  <2>8. Correlated'
    BY <2>6, <2>7 DEF Correlated, R!ToSet
  <2>9. Carried'
    BY <2>2 DEF Carried, R!Spread
  <2>10. R!RecordCorrelates'
    BY <2>2, <2>6 DEF EventInv, R!RecordCorrelates
  <2> QED BY <2>5, <2>8, <2>9, <2>10 DEF EventInv
<1>5. CASE R!ToJSON
  <2> DEFINE r == R!RecordOf(fields, traceId, traceIds, ambient)
  <2>1. /\ record = <<>> /\ record' = <<r>> /\ enriched' = enriched /\ given' = given /\ fields' = fields
        /\ traceId' = traceId /\ traceIds' = traceIds /\ ambient' = ambient
    BY <1>5 DEF R!ToJSON
  <2>2. /\ given \subseteq R!ToSet(r.traceIds)
        /\ r.traceId # "none" => R!Contains(r.traceIds, r.traceId)
    BY <2>1, RecordIs
  <2> HIDE DEF r
  <2>3. R!RecordCorrelates'
    BY <2>1, <2>2 DEF R!RecordCorrelates, R!ToSet, R!Contains
  <2>4. EventTypes' /\ Correlated' /\ Carried'
    BY <2>1 DEF EventInv, EventTypes, Correlated, Carried
  <2> QED BY <2>3, <2>4 DEF EventInv
<1>6. CASE UNCHANGED eventVars
  BY <1>6 DEF EventInv, EventTypes, Correlated, Carried, R!RecordCorrelates, eventVars
<1> QED BY <1>1, <1>2, <1>3, <1>4, <1>5, <1>6, EventsStep DEF R!NextEvent

LEMMA Travelled == EventInv => R!EnrichedTravels
<1> SUFFICES ASSUME EventInv, enriched # <<>> PROVE
      LET r == R!RecordOf(fields, traceId, traceIds, ambient)
          c == enriched[1]
      IN /\ c.traceId # "none" => r.traceId = c.traceId
         /\ \A k \in DOMAIN c.fields \ RuntimeKeys : r.fields[k] = c.fields[k]
  BY DEF R!EnrichedTravels, R!None
<1> DEFINE r == R!RecordOf(fields, traceId, traceIds, ambient)
           d == IF ambient = <<>> THEN [fields |-> <<>>, traceId |-> "none", traceIds |-> <<>>]
                ELSE ambient[1]
           g == R!Spread(R!LoggerFields, d.fields)
<1>1. /\ r.traceId = (IF traceId # "none" THEN traceId ELSE d.traceId)
      /\ r.fields = R!Spread(R!Spread(g, fields), R!RuntimeFields)
  BY DEF R!RecordOf, R!None
<1> HIDE DEF r, g
<1>2. ASSUME NEW k \in DOMAIN fields \ RuntimeKeys PROVE r.fields[k] = fields[k]
  BY <1>1 DEF R!Spread, R!RuntimeFields
<1>3. /\ enriched[1].traceId # "none" => traceId = enriched[1].traceId
      /\ \A k \in DOMAIN enriched[1].fields : k \in DOMAIN fields /\ fields[k] = enriched[1].fields[k]
  BY DEF EventInv, Carried
<1>4. enriched[1].traceId # "none" => r.traceId = enriched[1].traceId
  BY <1>1, <1>3
<1>5. \A k \in DOMAIN enriched[1].fields \ RuntimeKeys : r.fields[k] = enriched[1].fields[k]
  BY <1>2, <1>3
<1> QED BY <1>4, <1>5 DEF r

(* A record has every trace its event was given, and an event that a        *)
(* context enriched keeps the context's identifiers and its fields but for  *)
(* those of the runtime, wherever and however often its record is made, for *)
(* any fields, traces and contexts (src/base-logger.ts:1084-1094,           *)
(* 1189-1196, src/execution-context-shared.ts:190-204).                     *)
THEOREM RecordAlwaysKeeps == Spec => []RecordKeepsContext
<1>1. EventInv => RecordKeepsContext
  BY Travelled DEF EventInv, RecordKeepsContext
<1>2. EventInv /\ [Next]_vars => EventInv'
  BY EventNext
<1> QED BY <1>1, <1>2, EventInit, PTL DEF Spec

-----------------------------------------------------------------------------
(* The OpenTelemetry write takes a step, or stays as it is.                 *)
LEMMA BridgeStep == ASSUME [Next]_vars PROVE B!Next \/ UNCHANGED bridgeVars
BY DEF Next, vars, exportVars

(* The attributes there may be: names but span.id, with any values.         *)
Maps(N, V) == UNION {[X -> V] : X \in SUBSET N}

LEMMA PutIs ==
  ASSUME NEW N, NEW V, NEW f \in Maps(N, V), NEW k \in N, NEW v \in V
  PROVE  B!Add(f, k, v) \in Maps(N, V)
<1>1. PICK X \in SUBSET N : f \in [X -> V]
  BY DEF Maps
<1>2. B!Put(f, k, v) \in [X \cup {k} -> V] /\ X \cup {k} \in SUBSET N
  BY <1>1 DEF B!Put
<1>3. B!Put(f, k, v) \in Maps(N, V)
  BY <1>2 DEF Maps
<1> QED BY <1>3 DEF B!Add

LEMMA UsersAre ==
  ASSUME NEW N, NEW V, NEW f \in Maps(N, V), user \in Seq(N \X V)
  PROVE  B!AddUsers(f) \in Maps(N, V)
<1> DEFINE n == Len(user)
           D == Maps(N, V)
           Next1(g, i) == IF user[i][1] \in {"log.record.uid", "service.name"} THEN g
                          ELSE B!Add(g, user[i][1], user[i][2])
           Step == [p \in D \X (1..n) |-> Next1(p[1], p[2])]
           r == CHOOSE g : g = [i \in 0..n |-> IF i = 0 THEN f ELSE Next1(g[i - 1], i)]
<1>1. n \in Nat /\ \A i \in 1..n : user[i][1] \in N /\ user[i][2] \in V
  OBVIOUS
<1>2. \A g \in D, i \in 1..n : Next1(g, i) \in D
  BY <1>1, PutIs
<1> HIDE DEF n, D, Next1
<1>3. Step \in [D \X (1..n) -> D]
  BY <1>2
<1>4. f \in D
  BY DEF D
<1> HIDE DEF Step
<1>5. PICK g : Recurs(g, n, D, f, Step)
  BY <1>1, <1>3, <1>4, Recursion
<1>6. ASSUME NEW i \in 0..n PROVE g[i] = IF i = 0 THEN f ELSE Next1(g[i - 1], i)
  <2>1. CASE i = 0
    BY <1>5, <2>1 DEF Recurs
  <2>2. CASE i # 0
    <3>1. i \in 1..n /\ i - 1 \in 0..n
      BY <1>1, <2>2
    <3>2. g[i - 1] \in D /\ g[i] = Step[<<g[i - 1], i>>]
      BY <1>5, <3>1 DEF Recurs
    <3> QED BY <2>2, <3>1, <3>2 DEF Step
  <2> QED BY <2>1, <2>2
<1>7. g = [i \in 0..n |-> IF i = 0 THEN f ELSE Next1(g[i - 1], i)]
  BY <1>5, <1>6 DEF Recurs
<1>8. r = [i \in 0..n |-> IF i = 0 THEN f ELSE Next1(r[i - 1], i)]
  BY ONLY <1>7
<1> HIDE DEF r
<1>9. \A i \in 0..n : r[i] = IF i = 0 THEN f ELSE Next1(r[i - 1], i)
  BY <1>8, Zenon
<1> DEFINE T == {i \in Nat : i <= n => r[i] \in D}
<1>10. 0 \in T
  BY <1>1, <1>4, <1>9
<1>11. ASSUME NEW i \in T PROVE i + 1 \in T
  <2> SUFFICES ASSUME i + 1 <= n PROVE r[i + 1] \in D
    OBVIOUS
  <2>1. i \in Nat /\ i <= n /\ i + 1 \in 1..n /\ i + 1 \in 0..n /\ i + 1 # 0 /\ i + 1 - 1 = i
    BY <1>1
  <2> QED BY <1>2, <1>9, <2>1
<1>12. n \in T
  <2> T \in SUBSET Nat OBVIOUS
  <2> HIDE DEF T
  <2> QED BY <1>1, <1>10, <1>11, Induct
<1>13. B!AddUsers(f) = r[n]
  BY DEF B!AddUsers, r, n, Next1
<1> QED BY <1>1, <1>12, <1>13 DEF D

LEMMA IdsAre ==
  ASSUME NEW N, NEW V, "span.id" \notin N, NEW f \in Maps(N, V), NEW trace, NEW span,
         NEW g, g = B!AddIds(f, trace, span), "span.id" \in DOMAIN g
  PROVE  g["span.id"] = span /\ "trace.id" \in DOMAIN g /\ g["trace.id"] = trace
<1> DEFINE h == B!Add(f, "trace.id", trace)
<1>1. g = B!Add(h, "span.id", span)
  BY DEF B!AddIds
<1>2. "span.id" \notin DOMAIN f
  BY DEF Maps
<1>3. "span.id" \notin DOMAIN h
  BY <1>2 DEF B!Add, B!Put
<1>4. ~(B!Cardinality(DOMAIN h) >= maximum)
  <2> HIDE DEF h
  <2> QED BY <1>1, <1>3 DEF B!Add
<1>5. "trace.id" \in DOMAIN h /\ h["trace.id"] = trace
  <2>1. CASE h = f
    BY <1>4, <2>1 DEF B!Add, B!Put
  <2>2. CASE h # f
    BY <2>2 DEF B!Add, B!Put
  <2> QED BY <2>1, <2>2
<1> HIDE DEF h
<1> QED BY <1>1, <1>3, <1>4, <1>5 DEF B!Add, B!Put

LEMMA RecordsAre ==
  ASSUME user \in UserAttributes
  PROVE  \E N, V : "span.id" \notin N /\ B!RecordAttributes \in Maps(N, V)
<1> DEFINE N == (STRING \ {"span.id"})
                \cup {"log.record.uid", "service.name", "trace.id", "next_logger.field.otel.span_id"}
           V == STRING \cup {"id", "app", B!TraceOf, written.span}
<1>1. "span.id" \notin N
  OBVIOUS
<1>2. user \in Seq(N \X V)
  <2>1. user \in Seq((STRING \ {"span.id"}) \X STRING)
    BY ExportAssumption
  <2>2. (STRING \ {"span.id"}) \X STRING \subseteq N \X V
    OBVIOUS
  <2>3. \A S, T, s : S \subseteq T /\ s \in Seq(S) => s \in Seq(T)
    OBVIOUS
  <2> HIDE DEF N, V
  <2> QED BY ONLY <2>1, <2>2, <2>3
<1>3. /\ "log.record.uid" \in N /\ "service.name" \in N /\ "trace.id" \in N
      /\ "next_logger.field.otel.span_id" \in N
      /\ "id" \in V /\ "app" \in V /\ B!TraceOf \in V /\ written.span \in V
  OBVIOUS
<1> HIDE DEF N, V
<1>4. <<>> \in Maps(N, V)
  <2>1. <<>> \in [{} -> V]
    OBVIOUS
  <2> QED BY <2>1 DEF Maps
<1> DEFINE own == B!Add(B!Add(<<>>, "log.record.uid", "id"), "service.name", "app")
           base == IF written.w3c \/ ownTrace THEN B!Add(own, "trace.id", B!TraceOf) ELSE own
           all == B!AddUsers(base)
<1>5. own \in Maps(N, V)
  BY <1>3, <1>4, PutIs
<1> HIDE DEF own
<1>6. base \in Maps(N, V)
  BY <1>3, <1>5, PutIs
<1> HIDE DEF base
<1>7. all \in Maps(N, V)
  BY <1>2, <1>6, UsersAre
<1>8. B!RecordAttributes = IF includeFields /\ written # B!None
                           THEN B!Add(all, "next_logger.field.otel.span_id", written.span) ELSE all
  BY DEF B!RecordAttributes, all, base, own
<1> HIDE DEF all
<1>9. B!RecordAttributes \in Maps(N, V)
  BY <1>3, <1>7, <1>8, PutIs
<1> QED BY <1>1, <1>9

-----------------------------------------------------------------------------
(* The calls of a write in their order, and which of them are asked for.    *)
Stage(c) ==
  CASE c = "activeSpan" -> 1 [] c = "spanContext" -> 2 [] c = "build" -> 3 [] c = "activeContext" -> 4
    [] c = "emit" -> 5 [] c = "isRecording" -> 6 [] c = "addEvent" -> 7 [] c = "recordException" -> 8
    [] c = "setStatus" -> 9 [] c = "recordMetric" -> 10 [] c = "errorMetric" -> 11 [] OTHER -> 12

Asked(c) ==
  LET span == "activeSpan" \notin throwing /\ active # B!None
      events == span /\ emitSpanEvents /\ "isRecording" \notin throwing /\ active.recording
  IN /\ c = "spanContext" => span
     /\ c = "isRecording" => span /\ emitSpanEvents
     /\ c = "addEvent" => events
     /\ c = "setStatus" => events /\ error
     /\ c = "recordException" => events /\ error /\ recordExceptions
     /\ c = "errorMetric" => error /\ (onError \/ "recordMetric" \notin throwing)

BridgeTypes ==
  /\ user \in UserAttributes
  /\ written \in B!OrNone /\ active \in B!OrNone /\ spanContext \in B!OrNone
  /\ pc \in B!Calls \cup {"build", "returned"}
  /\ done \subseteq B!Calls

(* What was asked for before and did not throw, succeeded.                  *)
Progress ==
  /\ pc # "returned" => Asked(pc)
  /\ ~thrown => \A c \in B!Calls : c \in done <=> c \notin throwing /\ Asked(c) /\ Stage(c) < Stage(pc)
  /\ thrown => pc = "returned" /\ "emit" \in throwing /\ ~failOpen
  /\ ~thrown /\ "emit" \in throwing /\ ~failOpen => Stage(pc) <= Stage("emit")

(* The span was read before the attributes were built.                      *)
Built ==
  /\ Stage(pc) <= Stage("build") => attributes = <<>>
  /\ B!CorrelationPaired

BridgeInv == BridgeTypes /\ Progress /\ Built

LEMMA BridgeInit == Init => BridgeInv
<1> SUFFICES ASSUME Init PROVE BridgeInv
  OBVIOUS
<1>1. /\ user \in UserAttributes /\ written \in B!Provisions /\ active \in B!OrNone
      /\ pc = "activeSpan" /\ spanContext = B!None /\ attributes = <<>> /\ done = {} /\ thrown = FALSE
  BY DEF Init, B!Init
<1>2. written \in B!OrNone
  BY <1>1 DEF B!Provisions, B!Provided, B!OrNone
<1>3. BridgeTypes
  BY <1>1, <1>2 DEF BridgeTypes, B!Calls, B!OrNone
<1>4. Progress
  BY <1>1 DEF Progress, Asked, Stage, B!Calls
<1>5. Built
  BY <1>1 DEF Built, B!CorrelationPaired
<1> QED BY <1>3, <1>4, <1>5 DEF BridgeInv

LEMMA BuildStep ==
  ASSUME BridgeInv, B!BuildAttributes
  PROVE  B!CorrelationPaired'
<1>1. PICK N, V : "span.id" \notin N /\ B!RecordAttributes \in Maps(N, V)
  BY RecordsAre DEF BridgeInv, BridgeTypes
<1> DEFINE f == B!RecordAttributes
<1>2. attributes' = B!Correlation(f) /\ spanContext' = spanContext /\ ownTrace' = ownTrace
  BY DEF B!BuildAttributes
<1> HIDE DEF f
<1>3. "span.id" \notin DOMAIN f
  BY <1>1 DEF Maps, f
<1>4. ASSUME "span.id" \in DOMAIN attributes'
      PROVE  \E s \in Spans :
               /\ attributes'["span.id"] = s.span
               /\ "trace.id" \in DOMAIN attributes'
               /\ attributes'["trace.id"] = IF spanContext = B!None /\ ownTrace THEN "own" ELSE s.trace
  <2>1. CASE spanContext # B!None
    <3>1. attributes' = B!AddIds(f, spanContext.trace, spanContext.span)
      BY <1>2, <2>1 DEF B!Correlation
    <3>2. spanContext \in Spans
      BY <2>1 DEF BridgeInv, BridgeTypes, B!OrNone
    <3> QED BY <1>1, <1>4, <2>1, <3>1, <3>2, IdsAre DEF f
  <2>2. CASE spanContext = B!None /\ written.w3c
    <3>1. attributes' = B!AddIds(f, B!TraceOf, written.span)
      BY <1>2, <2>2 DEF B!Correlation
    <3>2. written \in Spans
      BY <2>2 DEF BridgeInv, BridgeTypes, B!OrNone, B!None
    <3> QED BY <1>1, <1>4, <2>2, <3>1, <3>2, IdsAre DEF f, B!TraceOf
  <2>3. CASE spanContext = B!None /\ ~written.w3c
    BY <1>2, <1>3, <1>4, <2>3 DEF B!Correlation
  <2> QED BY <2>1, <2>2, <2>3
<1> QED BY <1>2, <1>4 DEF B!CorrelationPaired

(* One call: what it leaves, and what is asked for between it and the next. *)
LEMMA AttemptStep ==
  ASSUME BridgeInv, NEW call \in B!Calls \ {"emit"}, NEW next \in B!Calls \cup {"build", "returned"},
         B!Attempt(call, next),
         Stage(call) < Stage(next), next # "returned" => Asked(next),
         \A c \in B!Calls : Asked(c) => Stage(c) <= Stage(call) \/ Stage(next) <= Stage(c)
  PROVE  Progress' /\ pc' = next /\ user' = user /\ written' = written /\ active' = active
         /\ ownTrace' = ownTrace /\ done' \subseteq B!Calls
<1>1. /\ pc = call /\ pc' = next /\ done' = IF call \in throwing THEN done ELSE done \cup {call}
      /\ thrown' = thrown /\ throwing' = throwing /\ active' = active /\ error' = error
      /\ failOpen' = failOpen /\ onError' = onError /\ emitSpanEvents' = emitSpanEvents
      /\ recordExceptions' = recordExceptions /\ user' = user /\ written' = written /\ ownTrace' = ownTrace
  BY DEF B!Attempt, B!options
<1>2. \A c : Asked(c)' <=> Asked(c)
  BY <1>1 DEF Asked
<1>3. call # "returned" /\ ~thrown /\ Asked(call)
  BY <1>1 DEF B!Calls, BridgeInv, Progress
<1>4. \A c \in B!Calls : Stage(c) \in Nat
  BY DEF Stage
<1>5. \A c \in B!Calls : c # call => Stage(c) # Stage(call)
  BY DEF Stage, B!Calls
<1>6. Stage(call) \in Nat /\ Stage(next) \in Nat
  BY DEF Stage
<1>7. \A c \in B!Calls : c \in done' <=> c \notin throwing /\ Asked(c) /\ Stage(c) < Stage(next)
  <2> SUFFICES ASSUME NEW c \in B!Calls
               PROVE  c \in done' <=> c \notin throwing /\ Asked(c) /\ Stage(c) < Stage(next)
    OBVIOUS
  <2>1. c \in done <=> c \notin throwing /\ Asked(c) /\ Stage(c) < Stage(call)
    BY <1>1, <1>3 DEF BridgeInv, Progress
  <2>2. CASE c = call
    BY <1>1, <1>3, <1>6, <2>1, <2>2
  <2>3. CASE c # call
    BY <1>1, <1>4, <1>5, <1>6, <2>1, <2>3
  <2> QED BY <2>2, <2>3
<1>8. "emit" \in throwing /\ ~failOpen => Stage(next) <= Stage("emit")
  <2> SUFFICES ASSUME "emit" \in throwing, ~failOpen PROVE Stage(next) <= Stage("emit")
    OBVIOUS
  <2>1. Stage(call) <= Stage("emit")
    BY <1>1, <1>3 DEF BridgeInv, Progress
  <2>2. "emit" \in B!Calls /\ Asked("emit")
    BY DEF B!Calls, Asked
  <2>3. Stage(call) # Stage("emit")
    BY <1>5, <2>2
  <2>4. Stage("emit") \in Nat
    BY <1>4, <2>2
  <2> QED BY <1>6, <2>1, <2>2, <2>3, <2>4
<1>9. done' \subseteq B!Calls
  BY <1>1 DEF BridgeInv, BridgeTypes
<1>10. Progress'
  BY <1>1, <1>2, <1>3, <1>7, <1>8 DEF Progress, Stage
<1> QED BY <1>1, <1>9, <1>10

LEMMA BridgeNext == ASSUME BridgeInv, [Next]_vars PROVE BridgeInv'
<1> DEFINE Kept == spanContext' = spanContext /\ attributes' = attributes
<1>0. /\ ~thrown => \A c \in B!Calls : c \in done <=> c \notin throwing /\ Asked(c) /\ Stage(c) < Stage(pc)
      /\ pc # "returned" => Asked(pc) /\ ~thrown
      /\ spanContext \in B!OrNone /\ active \in B!OrNone /\ user \in UserAttributes /\ written \in B!OrNone
  BY DEF BridgeInv, Progress, BridgeTypes
<1>1. ASSUME NEW call \in B!Calls \ {"emit"}, NEW next \in B!Calls \cup {"build", "returned"},
             B!Attempt(call, next), Kept,
             Stage(call) < Stage(next), next # "returned" => Asked(next),
             \A c \in B!Calls : Asked(c) => Stage(c) <= Stage(call) \/ Stage(next) <= Stage(c),
             Stage(next) <= Stage("build") => Stage(call) <= Stage("build")
      PROVE  BridgeInv'
  <2>1. /\ Progress' /\ pc = call /\ pc' = next /\ user' = user /\ written' = written /\ active' = active
        /\ ownTrace' = ownTrace /\ done' \subseteq B!Calls
    BY <1>1, AttemptStep DEF B!Attempt
  <2>2. Built'
    BY <1>1, <2>1 DEF BridgeInv, Built, B!CorrelationPaired, Stage
  <2> QED BY <1>0, <1>1, <2>1, <2>2 DEF BridgeInv, BridgeTypes
<1>2. CASE B!ReadActiveSpan
  <2> DEFINE next == IF "activeSpan" \in throwing \/ active = B!None THEN "build" ELSE "spanContext"
  <2>1. B!Attempt("activeSpan", next) /\ Kept
    BY <1>2 DEF B!ReadActiveSpan
  <2>2. /\ "activeSpan" \in B!Calls \ {"emit"} /\ next \in B!Calls \cup {"build", "returned"}
        /\ next # "returned" => Asked(next)
    BY DEF B!Calls, Asked
  <2>3. /\ Stage("activeSpan") < Stage(next) /\ Stage("activeSpan") <= Stage("build")
        /\ \A c \in B!Calls : Asked(c) => Stage(c) <= Stage("activeSpan") \/ Stage(next) <= Stage(c)
    BY DEF B!Calls, Asked, Stage
  <2> HIDE DEF next
  <2> QED BY <1>1, <2>1, <2>2, <2>3
<1>3. CASE B!ReadSpanContext
  <2>1. B!Attempt("spanContext", "build") /\ spanContext' \in B!OrNone /\ attributes' = attributes
    BY <1>0, <1>3 DEF B!ReadSpanContext, B!OrNone
  <2>2. /\ "spanContext" \in B!Calls \ {"emit"} /\ Asked("build")
        /\ Stage("spanContext") < Stage("build")
        /\ \A c \in B!Calls : Asked(c) => Stage(c) <= Stage("spanContext") \/ Stage("build") <= Stage(c)
    BY DEF B!Calls, Asked, Stage
  <2>3. /\ Progress' /\ pc' = "build" /\ user' = user /\ written' = written /\ active' = active
        /\ done' \subseteq B!Calls
    BY <2>1, <2>2, AttemptStep
  <2>4. attributes = <<>>
    BY <1>3 DEF B!ReadSpanContext, B!Attempt, BridgeInv, Built, Stage
  <2>5. Built'
    BY <2>1, <2>3, <2>4 DEF Built, B!CorrelationPaired
  <2> QED BY <1>0, <2>1, <2>3, <2>5 DEF BridgeInv, BridgeTypes
<1>4. CASE B!BuildAttributes
  <2>1. B!CorrelationPaired'
    BY <1>4, BuildStep
  <2>2. /\ pc = "build" /\ pc' = "activeContext" /\ UNCHANGED <<B!options, throwing, error, written, ownTrace,
           active, spanContext, done, thrown>>
    BY <1>4 DEF B!BuildAttributes
  <2>3. \A c : Asked(c)' <=> Asked(c)
    BY <2>2 DEF Asked, B!options
  <2>4. \A c \in B!Calls : Asked(c) => (Stage(c) < Stage("build") <=> Stage(c) < Stage("activeContext"))
    BY DEF B!Calls, Stage
  <2>5. Asked("activeContext")
    BY DEF Asked
  <2>6. Progress'
    <3>1. /\ ~thrown /\ ~thrown' /\ pc' = "activeContext" /\ Asked(pc')
      BY <1>0, <2>2, <2>5
    <3>2. \A c \in B!Calls : c \in done' <=> c \notin throwing' /\ Asked(c)' /\ Stage(c) < Stage(pc')
      BY <1>0, <2>2, <2>3, <2>4
    <3>3. Stage("activeContext") <= Stage("emit")
      BY DEF Stage
    <3>4. Asked(pc)'
      BY <2>3, <3>1
    <3> QED BY <3>1, <3>2, <3>3, <3>4 DEF Progress
  <2>7. Built'
    BY <2>1, <2>2 DEF Built, Stage
  <2> QED BY <1>0, <2>2, <2>6, <2>7 DEF BridgeInv, BridgeTypes, B!Calls, B!options
<1>5. CASE B!ReadActiveContext
  <2> DEFINE next == "emit"
  <2>1. B!Attempt("activeContext", next) /\ Kept /\ pc = "activeContext"
    BY <1>5 DEF B!ReadActiveContext, B!Attempt
  <2>2. /\ "activeContext" \in B!Calls \ {"emit"} /\ next \in B!Calls \cup {"build", "returned"}
        /\ next # "returned" => Asked(next)
    BY <1>0, <2>1 DEF B!Calls, Asked
  <2>3. /\ Stage("activeContext") < Stage(next) /\ (Stage(next) <= Stage("build") => Stage("activeContext") <= Stage("build"))
        /\ \A c \in B!Calls : Asked(c) => Stage(c) <= Stage("activeContext") \/ Stage(next) <= Stage(c)
    BY <1>0, <2>1 DEF B!Calls, Asked, Stage
  <2> HIDE DEF next
  <2> QED BY <1>1, <2>1, <2>2, <2>3
<1>6. CASE B!Emit
  <2> DEFINE next == IF thrown' THEN "returned"
                     ELSE IF B!HasSpan /\ emitSpanEvents THEN "isRecording" ELSE "recordMetric"
  <2>1. /\ pc = "emit" /\ done' = IF "emit" \in throwing THEN done ELSE done \cup {"emit"}
        /\ thrown' = ("emit" \in throwing /\ ~failOpen) /\ pc' = next
        /\ throwing' = throwing /\ active' = active /\ error' = error
        /\ failOpen' = failOpen /\ onError' = onError /\ emitSpanEvents' = emitSpanEvents
        /\ recordExceptions' = recordExceptions /\ user' = user /\ written' = written /\ ownTrace' = ownTrace
        /\ Kept
    BY <1>6 DEF B!Emit, B!options
  <2>2. \A c : Asked(c)' <=> Asked(c)
    BY <2>1 DEF Asked
  <2>3. \A c \in B!Calls : c \in done <=> c \notin throwing /\ Asked(c) /\ Stage(c) < Stage("emit")
    BY <1>0, <2>1
  <2>4. B!HasSpan <=> "activeSpan" \notin throwing /\ active # B!None
    BY <2>3 DEF B!HasSpan, B!Calls, Asked, Stage
  <2>5. ~thrown' => /\ next \in B!Calls /\ Asked(next) /\ Stage("emit") < Stage(next)
                    /\ \A c \in B!Calls : Asked(c) => Stage(c) <= Stage("emit") \/ Stage(next) <= Stage(c)
    BY <2>4 DEF B!Calls, Asked, Stage
  <2>6. thrown' => next = "returned"
    OBVIOUS
  <2> HIDE DEF next
  <2>7. ASSUME ~thrown', NEW c \in B!Calls
        PROVE  c \in done' <=> c \notin throwing /\ Asked(c) /\ Stage(c) < Stage(next)
    <3>1. Stage(c) \in Nat /\ Stage(next) \in Nat /\ Stage("emit") = 5 /\ (c # "emit" => Stage(c) # 5)
      BY DEF Stage, B!Calls
    <3>2. Asked("emit")
      BY DEF Asked
    <3>3. CASE c = "emit"
      BY <2>1, <2>3, <2>5, <2>7, <3>1, <3>2, <3>3
    <3>4. CASE c # "emit"
      BY <2>1, <2>3, <2>5, <2>7, <3>1, <3>4
    <3> QED BY <3>3, <3>4
  <2>8. Progress'
    BY <2>1, <2>2, <2>5, <2>6, <2>7 DEF Progress
  <2>9. Built'
    <3>1. Stage(next) > Stage("build")
      BY <2>5, <2>6 DEF Stage
    <3> QED BY <2>1, <3>1 DEF BridgeInv, Built, B!CorrelationPaired, Stage
  <2>10. pc' \in B!Calls \cup {"build", "returned"} /\ done' \subseteq B!Calls
    BY <2>1, <2>5, <2>6 DEF BridgeInv, BridgeTypes, B!Calls
  <2> QED BY <1>0, <2>1, <2>8, <2>9, <2>10 DEF BridgeInv, BridgeTypes
<1>7. CASE B!CheckRecording
  <2> DEFINE next == IF "isRecording" \notin throwing /\ active.recording THEN "addEvent" ELSE "recordMetric"
  <2>1. B!Attempt("isRecording", next) /\ Kept /\ pc = "isRecording"
    BY <1>7 DEF B!CheckRecording, B!Attempt
  <2>2. /\ "isRecording" \in B!Calls \ {"emit"} /\ next \in B!Calls \cup {"build", "returned"}
        /\ next # "returned" => Asked(next)
    BY <1>0, <2>1 DEF B!Calls, Asked
  <2>3. /\ Stage("isRecording") < Stage(next) /\ (Stage(next) <= Stage("build") => Stage("isRecording") <= Stage("build"))
        /\ \A c \in B!Calls : Asked(c) => Stage(c) <= Stage("isRecording") \/ Stage(next) <= Stage(c)
    BY <1>0, <2>1 DEF B!Calls, Asked, Stage
  <2> HIDE DEF next
  <2> QED BY <1>1, <2>1, <2>2, <2>3
<1>8. CASE B!AddEvent
  <2> DEFINE next == IF ~error THEN "recordMetric" ELSE IF recordExceptions THEN "recordException" ELSE "setStatus"
  <2>1. B!Attempt("addEvent", next) /\ Kept /\ pc = "addEvent"
    BY <1>8 DEF B!AddEvent, B!Attempt
  <2>2. /\ "addEvent" \in B!Calls \ {"emit"} /\ next \in B!Calls \cup {"build", "returned"}
        /\ next # "returned" => Asked(next)
    BY <1>0, <2>1 DEF B!Calls, Asked
  <2>3. /\ Stage("addEvent") < Stage(next) /\ (Stage(next) <= Stage("build") => Stage("addEvent") <= Stage("build"))
        /\ \A c \in B!Calls : Asked(c) => Stage(c) <= Stage("addEvent") \/ Stage(next) <= Stage(c)
    BY <1>0, <2>1 DEF B!Calls, Asked, Stage
  <2> HIDE DEF next
  <2> QED BY <1>1, <2>1, <2>2, <2>3
<1>9. CASE B!RecordException
  <2> DEFINE next == "setStatus"
  <2>1. B!Attempt("recordException", next) /\ Kept /\ pc = "recordException"
    BY <1>9 DEF B!RecordException, B!Attempt
  <2>2. /\ "recordException" \in B!Calls \ {"emit"} /\ next \in B!Calls \cup {"build", "returned"}
        /\ next # "returned" => Asked(next)
    BY <1>0, <2>1 DEF B!Calls, Asked
  <2>3. /\ Stage("recordException") < Stage(next) /\ (Stage(next) <= Stage("build") => Stage("recordException") <= Stage("build"))
        /\ \A c \in B!Calls : Asked(c) => Stage(c) <= Stage("recordException") \/ Stage(next) <= Stage(c)
    BY <1>0, <2>1 DEF B!Calls, Asked, Stage
  <2> HIDE DEF next
  <2> QED BY <1>1, <2>1, <2>2, <2>3
<1>10. CASE B!SetStatus
  <2> DEFINE next == "recordMetric"
  <2>1. B!Attempt("setStatus", next) /\ Kept /\ pc = "setStatus"
    BY <1>10 DEF B!SetStatus, B!Attempt
  <2>2. /\ "setStatus" \in B!Calls \ {"emit"} /\ next \in B!Calls \cup {"build", "returned"}
        /\ next # "returned" => Asked(next)
    BY <1>0, <2>1 DEF B!Calls, Asked
  <2>3. /\ Stage("setStatus") < Stage(next) /\ (Stage(next) <= Stage("build") => Stage("setStatus") <= Stage("build"))
        /\ \A c \in B!Calls : Asked(c) => Stage(c) <= Stage("setStatus") \/ Stage(next) <= Stage(c)
    BY <1>0, <2>1 DEF B!Calls, Asked, Stage
  <2> HIDE DEF next
  <2> QED BY <1>1, <2>1, <2>2, <2>3
<1>11. CASE B!RecordMetric
  <2> DEFINE next == IF error /\ (onError \/ "recordMetric" \notin throwing) THEN "errorMetric" ELSE "returned"
  <2>1. B!Attempt("recordMetric", next) /\ Kept /\ pc = "recordMetric"
    BY <1>11 DEF B!RecordMetric, B!Attempt
  <2>2. /\ "recordMetric" \in B!Calls \ {"emit"} /\ next \in B!Calls \cup {"build", "returned"}
        /\ next # "returned" => Asked(next)
    BY <1>0, <2>1 DEF B!Calls, Asked
  <2>3. /\ Stage("recordMetric") < Stage(next) /\ (Stage(next) <= Stage("build") => Stage("recordMetric") <= Stage("build"))
        /\ \A c \in B!Calls : Asked(c) => Stage(c) <= Stage("recordMetric") \/ Stage(next) <= Stage(c)
    BY <1>0, <2>1 DEF B!Calls, Asked, Stage
  <2> HIDE DEF next
  <2> QED BY <1>1, <2>1, <2>2, <2>3
<1>12. CASE B!RecordErrorMetric
  <2> DEFINE next == "returned"
  <2>1. B!Attempt("errorMetric", next) /\ Kept /\ pc = "errorMetric"
    BY <1>12 DEF B!RecordErrorMetric, B!Attempt
  <2>2. /\ "errorMetric" \in B!Calls \ {"emit"} /\ next \in B!Calls \cup {"build", "returned"}
        /\ next # "returned" => Asked(next)
    BY <1>0, <2>1 DEF B!Calls, Asked
  <2>3. /\ Stage("errorMetric") < Stage(next) /\ (Stage(next) <= Stage("build") => Stage("errorMetric") <= Stage("build"))
        /\ \A c \in B!Calls : Asked(c) => Stage(c) <= Stage("errorMetric") \/ Stage(next) <= Stage(c)
    BY <1>0, <2>1 DEF B!Calls, Asked, Stage
  <2> HIDE DEF next
  <2> QED BY <1>1, <2>1, <2>2, <2>3
<1>13. CASE UNCHANGED bridgeVars
  BY <1>13 DEF BridgeInv, BridgeTypes, Progress, Built, Asked, B!CorrelationPaired, bridgeVars
<1> QED BY <1>2, <1>3, <1>4, <1>5, <1>6, <1>7, <1>8, <1>9, <1>10, <1>11, <1>12, <1>13, BridgeStep
    DEF B!Next

LEMMA Isolated == BridgeInv => B!FailuresAreIsolated
<1> SUFFICES ASSUME BridgeInv, pc = "returned" PROVE B!FailuresAreIsolated
  BY DEF B!FailuresAreIsolated
<1>1. thrown <=> "emit" \in throwing /\ ~failOpen
  BY DEF BridgeInv, Progress, Stage
<1> DEFINE span == "activeSpan" \notin throwing /\ active # B!None
           events == span /\ emitSpanEvents /\ "isRecording" \notin throwing /\ active.recording
           all == {"activeSpan", "activeContext", "emit", "recordMetric"}
                  \cup (IF span THEN {"spanContext"} ELSE {})
                  \cup (IF span /\ emitSpanEvents THEN {"isRecording"} ELSE {})
                  \cup (IF events THEN {"addEvent"} ELSE {})
                  \cup (IF events /\ error THEN {"setStatus"} ELSE {})
                  \cup (IF events /\ error /\ recordExceptions THEN {"recordException"} ELSE {})
                  \cup (IF error /\ (onError \/ "recordMetric" \notin throwing) THEN {"errorMetric"} ELSE {})
<1>2. \A c \in B!Calls : c \in all <=> Asked(c)
  BY DEF B!Calls, Asked
<1>3. all \subseteq B!Calls
  BY DEF B!Calls
<1>4. \A c \in B!Calls : Stage(c) < Stage("returned")
  BY DEF B!Calls, Stage
<1>5. ~thrown => done \subseteq B!Calls /\ \A c \in B!Calls : c \in done <=> c \notin throwing /\ Asked(c)
  BY <1>4 DEF BridgeInv, BridgeTypes, Progress
<1> HIDE DEF all
<1>6. ~thrown => done = all \ throwing
  BY <1>2, <1>3, <1>5
<1> QED BY <1>1, <1>6 DEF B!FailuresAreIsolated, all

(* 152-169, 440-464, 592-714 of src/otel.ts: a span id the transport        *)
(* derives is emitted with its own span's trace, wherever the limit on      *)
(* attributes cuts the list and whatever attributes the application adds    *)
(* but a span.id; the write throws exactly if emit() does and it is not to  *)
(* fail open; and calls that throw, however many, leave the others as they  *)
(* are.                                                                     *)
THEOREM BridgeAlwaysFaithful == Spec => []BridgeIsFaithful
<1>1. BridgeInv => BridgeIsFaithful
  BY Isolated DEF BridgeInv, Built, BridgeIsFaithful
<1>2. BridgeInv /\ [Next]_vars => BridgeInv'
  BY BridgeNext
<1> QED BY <1>1, <1>2, BridgeInit, PTL DEF Spec

-----------------------------------------------------------------------------
(* The metrics take a step, or stay as they are; and so does the registry.  *)
LEMMA SeriesStep == ASSUME [Next]_vars PROVE I!Next \/ UNCHANGED seriesVars
BY DEF Next, vars, exportVars

(* The number of elements is the same operator in an instance.              *)
LEMMA CountIs == ASSUME NEW S PROVE I!Cardinality(S) = Cardinality(S)
BY DEF I!Cardinality, Cardinality

(* The writes of X in series k, when the series of the label sets own are   *)
(* the ordinary ones and lab is the label set of each write.                *)
Shares(own, lab, X, k) == {w \in X : IF k \in own THEN lab[w] = k ELSE lab[w] \notin own}

(* Every write of X has a series: if not its own, then the limit is reached *)
(* and no label set gets its own any more, or the overflow is its own.      *)
Placed(own, dom, spill, budget, lab, X) ==
  /\ IsFiniteSet(own) /\ spill \notin own /\ Cardinality(own) <= budget
  /\ dom \ {spill} = own
  /\ \A w \in X : lab[w] \notin own /\ lab[w] # spill => Cardinality(own) >= budget
  /\ spill \notin dom => \A w \in X : lab[w] \in own

KeyOf(own, spill, budget, l) == IF l \in own \/ Cardinality(own) < budget THEN l ELSE spill
Grown(own, spill, k) == (own \cup {k}) \ {spill}

(* What becomes of the series when the write w enters series k, or leaves it. *)
Entering(own, dom, spill, budget, lab, label, X, w, k) ==
  /\ Placed(Grown(own, spill, k), dom \cup {k}, spill, budget, label, X \cup {w})
  /\ \A j \in dom : j # k => Shares(Grown(own, spill, k), label, X \cup {w}, j) = Shares(own, lab, X, j)
  /\ Shares(Grown(own, spill, k), label, X \cup {w}, k)
       = (IF k \in dom THEN Shares(own, lab, X, k) ELSE {}) \cup {w}
Leaving(own, dom, spill, budget, lab, X, w, k) ==
  /\ k \in dom /\ Grown(own, spill, k) = own
  /\ Placed(own, dom, spill, budget, lab, X \ {w})
  /\ w \in Shares(own, lab, X, k)
  /\ \A j \in dom : Shares(own, lab, X \ {w}, j)
                      = IF j = k THEN Shares(own, lab, X, k) \ {w} ELSE Shares(own, lab, X, j)

LEMMA Enters ==
  ASSUME NEW own, NEW dom, NEW spill, NEW budget \in Nat, NEW lab, NEW label, NEW X, NEW w, w \notin X,
         Placed(own, dom, spill, budget, lab, X),
         \A x \in X : label[x] = lab[x],
         NEW k, k = KeyOf(own, spill, budget, label[w])
  PROVE  Entering(own, dom, spill, budget, lab, label, X, w, k)
<1> DEFINE after == Grown(own, spill, k)
<1>3. after = (own \cup {k}) \ {spill}
  BY DEF Grown
<1> HIDE DEF after
<1>0. Cardinality(own) \in Nat
  BY FS_CardinalityType DEF Placed
<1>1. CASE k = spill
  <2>1. after = own
    BY <1>3, <1>1 DEF Placed
  <2>2. label[w] \notin own /\ (label[w] # spill => Cardinality(own) >= budget)
    BY <1>0, <1>1 DEF Placed, KeyOf
  <2>3. Placed(after, dom \cup {k}, spill, budget, label, X \cup {w})
    BY <1>1, <2>1, <2>2 DEF Placed
  <2>4. \A j : j \in own => Shares(after, label, X \cup {w}, j) = Shares(own, lab, X, j)
    BY <2>1, <2>2 DEF Shares
  <2>5. Shares(after, label, X \cup {w}, k) = Shares(own, lab, X, k) \cup {w}
    BY <1>1, <2>1, <2>2 DEF Shares, Placed
  <2>6. k \notin dom => Shares(own, lab, X, k) = {}
    BY <1>1 DEF Shares, Placed
  <2>7. \A j \in dom : j # k => j \in own
    BY <1>1 DEF Placed
  <2> QED BY <2>3, <2>4, <2>5, <2>6, <2>7 DEF after, Entering
<1>2. CASE k # spill
  <2>1. k = label[w] /\ after = own \cup {k} /\ (k \in own \/ Cardinality(own) < budget)
    BY <1>3, <1>2 DEF KeyOf, Placed
  <2>2. k \notin own => \A x \in X : lab[x] \in own \/ lab[x] = spill
    BY <1>0, <2>1 DEF Placed
  <2>3. Cardinality(after) = IF k \in own THEN Cardinality(own) ELSE Cardinality(own) + 1
    BY <2>1, FS_AddElement DEF Placed
  <2>4. IsFiniteSet(after) /\ Cardinality(after) <= budget /\ spill \notin after
    BY <1>0, <1>2, <2>1, <2>3, FS_AddElement DEF Placed
  <2>5. (dom \cup {k}) \ {spill} = after
    BY <1>2, <2>1 DEF Placed
  <2>6. ASSUME NEW x \in X \cup {w}, label[x] \notin after, label[x] # spill
        PROVE  Cardinality(after) >= budget
    BY <1>0, <2>1, <2>2, <2>3, <2>6 DEF Placed
  <2>7. ASSUME spill \notin dom \cup {k}, NEW x \in X \cup {w} PROVE label[x] \in after
    BY <2>1, <2>7 DEF Placed
  <2>8. Placed(after, dom \cup {k}, spill, budget, label, X \cup {w})
    BY <2>4, <2>5, <2>6, <2>7 DEF Placed
  <2>9. ASSUME NEW j \in dom, j # k
        PROVE  Shares(after, label, X \cup {w}, j) = Shares(own, lab, X, j)
    <3>1. CASE j \in own
      BY <2>1, <2>9, <3>1 DEF Shares
    <3>2. CASE j \notin own
      <4>1. j \notin after
        BY <2>1, <2>9, <3>2
      <4>2. \A x \in X : lab[x] \in after <=> lab[x] \in own
        BY <1>2, <2>1, <2>2
      <4> QED BY <2>1, <3>2, <4>1, <4>2 DEF Shares
    <3> QED BY <3>1, <3>2
  <2>10. Shares(after, label, X \cup {w}, k) = {x \in X : lab[x] = k} \cup {w}
    BY <2>1 DEF Shares
  <2>11. {x \in X : lab[x] = k} = IF k \in dom THEN Shares(own, lab, X, k) ELSE {}
    <3>1. k \in dom <=> k \in own
      BY <1>2 DEF Placed
    <3>2. CASE k \in own
      BY <3>1, <3>2 DEF Shares
    <3>3. CASE k \notin own
      BY <1>2, <2>2, <3>1, <3>3
    <3> QED BY <3>2, <3>3
  <2> QED BY <2>8, <2>9, <2>10, <2>11 DEF after, Entering
<1> QED BY <1>1, <1>2

LEMMA Leaves ==
  ASSUME NEW own, NEW dom, NEW spill, NEW budget \in Nat, NEW lab, NEW X, NEW w \in X,
         Placed(own, dom, spill, budget, lab, X),
         NEW k, k = KeyOf(own, spill, budget, lab[w])
  PROVE  Leaving(own, dom, spill, budget, lab, X, w, k)
<1>0. Cardinality(own) \in Nat
  BY FS_CardinalityType DEF Placed
<1>1. k = IF lab[w] \in own THEN lab[w] ELSE spill
  BY <1>0 DEF Placed, KeyOf
<1>2. k \in dom /\ Grown(own, spill, k) = own
  BY <1>1 DEF Placed, Grown
<1>3. Placed(own, dom, spill, budget, lab, X \ {w})
  BY DEF Placed
<1>4. w \in Shares(own, lab, X, k)
  BY <1>1 DEF Shares, Placed
<1>5. ASSUME NEW j \in dom, j # k PROVE w \notin Shares(own, lab, X, j)
  BY <1>1, <1>5 DEF Shares, Placed
<1>6. \A j : Shares(own, lab, X \ {w}, j) = Shares(own, lab, X, j) \ {w}
  BY DEF Shares
<1>7. ASSUME NEW j \in dom
      PROVE  Shares(own, lab, X \ {w}, j)
               = IF j = k THEN Shares(own, lab, X, k) \ {w} ELSE Shares(own, lab, X, j)
  <2>1. j # k => Shares(own, lab, X, j) \ {w} = Shares(own, lab, X, j)
    BY <1>5
  <2> QED BY <1>6, <2>1
<1> QED BY <1>2, <1>3, <1>4, <1>7 DEF Leaving

-----------------------------------------------------------------------------
(* The sum of what the writes of S took, as the values of its recursion.    *)
Adding(S) == [p \in Int \X (1..MaxWrites) |-> p[1] + IF p[2] \in S THEN I!Elapsed(p[2]) ELSE 0]

LEMMA TotalIs ==
  ASSUME NEW S, \A w \in S : I!Elapsed(w) \in Int
  PROVE  \E r : Recurs(r, MaxWrites, Int, 0, Adding(S)) /\ I!Total(S) = r[MaxWrites]
<1> DEFINE n == MaxWrites
           Next1(x, w) == x + IF w \in S THEN I!Elapsed(w) ELSE 0
           r == CHOOSE g : g = [w \in 0..n |-> IF w = 0 THEN 0 ELSE g[w - 1] + IF w \in S THEN I!Elapsed(w) ELSE 0]
<1>1. n \in Nat
  BY ExportAssumption
<1>2. Adding(S) \in [Int \X (1..n) -> Int]
  BY DEF Adding
<1>3. PICK g : Recurs(g, n, Int, 0, Adding(S))
  <2> HIDE DEF n
  <2> QED BY <1>1, <1>2, Recursion
<1> HIDE DEF n
<1>4. ASSUME NEW w \in 0..n
      PROVE  g[w] = IF w = 0 THEN 0 ELSE g[w - 1] + IF w \in S THEN I!Elapsed(w) ELSE 0
  <2>1. CASE w = 0
    BY <1>3, <2>1 DEF Recurs
  <2>2. CASE w # 0
    <3>1. w \in 1..n /\ w - 1 \in 0..n
      BY <1>1, <2>2
    <3>2. g[w - 1] \in Int /\ g[w] = Adding(S)[<<g[w - 1], w>>]
      BY <1>3, <3>1 DEF Recurs
    <3> QED BY <2>2, <3>1, <3>2 DEF Adding, n
  <2> QED BY <2>1, <2>2
<1>5. g = [w \in 0..n |-> IF w = 0 THEN 0 ELSE g[w - 1] + IF w \in S THEN I!Elapsed(w) ELSE 0]
  BY <1>3, <1>4 DEF Recurs
<1>6. r = [w \in 0..n |-> IF w = 0 THEN 0 ELSE r[w - 1] + IF w \in S THEN I!Elapsed(w) ELSE 0]
  BY ONLY <1>5
<1>7. I!Total(S) = r[n]
  BY DEF I!Total, n
<1> HIDE DEF r
<1>8. \A w \in 0..n : r[w] = IF w = 0 THEN 0 ELSE r[w - 1] + IF w \in S THEN I!Elapsed(w) ELSE 0
  BY <1>6, Zenon
<1> DEFINE T == {w \in Nat : w <= n => r[w] \in Int}
<1>9. T = Nat
  <2>1. 0 \in T
    BY <1>1, <1>8
  <2>2. ASSUME NEW w \in T PROVE w + 1 \in T
    <3> SUFFICES ASSUME w + 1 <= n PROVE r[w + 1] \in Int
      OBVIOUS
    <3>1. w \in Nat /\ w + 1 \in 0..n /\ w + 1 # 0 /\ w + 1 - 1 = w /\ w <= n
      BY <1>1
    <3>2. r[w] \in Int
      BY <3>1
    <3>3. r[w + 1] = r[w] + IF w + 1 \in S THEN I!Elapsed(w + 1) ELSE 0
      BY <1>8, <3>1
    <3> QED BY <3>2, <3>3
  <2>3. T \in SUBSET Nat
    OBVIOUS
  <2> HIDE DEF T
  <2> QED BY <2>1, <2>2, <2>3, Induct
<1>10. \A w \in 0..n : r[w] \in Int
  BY <1>1, <1>9
<1>11. Recurs(r, n, Int, 0, Adding(S))
  <2>1. r \in [0..n -> Int]
    BY <1>6, <1>10
  <2>2. 0 \in 0..n
    BY <1>1
  <2>3. ASSUME NEW w \in 1..n PROVE r[w] = Adding(S)[<<r[w - 1], w>>]
    <3>1. w \in 0..n /\ w # 0 /\ w - 1 \in 0..n
      BY <1>1
    <3>2. r[w - 1] \in Int /\ r[w] = r[w - 1] + IF w \in S THEN I!Elapsed(w) ELSE 0
      BY <1>8, <1>10, <3>1
    <3> QED BY <3>2 DEF Adding, n
  <2> QED BY <1>8, <2>1, <2>2, <2>3 DEF Recurs
<1> QED BY <1>7, <1>11 DEF n

LEMMA TotalAdds ==
  ASSUME NEW S, NEW w \in 1..MaxWrites, w \notin S, \A x \in S \cup {w} : I!Elapsed(x) \in Int
  PROVE  I!Total(S \cup {w}) = I!Total(S) + I!Elapsed(w) /\ I!Total(S) \in Int
<1> DEFINE n == MaxWrites
<1>0. n \in Nat /\ w \in 1..n /\ I!Elapsed(w) \in Int
  BY ExportAssumption
<1>1. PICK r : Recurs(r, n, Int, 0, Adding(S)) /\ I!Total(S) = r[n]
  BY TotalIs
<1>2. PICK s : Recurs(s, n, Int, 0, Adding(S \cup {w})) /\ I!Total(S \cup {w}) = s[n]
  BY TotalIs
<1>3. /\ r[0] = 0 /\ s[0] = 0 /\ \A i \in 0..n : r[i] \in Int /\ s[i] \in Int
      /\ \A i \in 1..n : /\ r[i] = r[i - 1] + IF i \in S THEN I!Elapsed(i) ELSE 0
                         /\ s[i] = s[i - 1] + IF i \in S \cup {w} THEN I!Elapsed(i) ELSE 0
  <2>1. \A i \in 0..n : r[i] \in Int /\ s[i] \in Int
    BY <1>1, <1>2 DEF Recurs
  <2>2. ASSUME NEW i \in 1..n
        PROVE  /\ r[i] = r[i - 1] + IF i \in S THEN I!Elapsed(i) ELSE 0
               /\ s[i] = s[i - 1] + IF i \in S \cup {w} THEN I!Elapsed(i) ELSE 0
    <3>1. i - 1 \in 0..n
      BY <1>0
    <3>2. r[i - 1] \in Int /\ s[i - 1] \in Int
      BY <2>1, <3>1
    <3>3. r[i] = Adding(S)[<<r[i - 1], i>>] /\ s[i] = Adding(S \cup {w})[<<s[i - 1], i>>]
      BY <1>1, <1>2 DEF Recurs
    <3> QED BY <3>2, <3>3 DEF Adding
  <2> QED BY <1>1, <1>2, <2>1, <2>2 DEF Recurs
<1> HIDE DEF n
<1> DEFINE T == {i \in Nat : i <= n => s[i] = r[i] + IF w <= i THEN I!Elapsed(w) ELSE 0}
<1>4. 0 \in T
  BY <1>0, <1>3
<1>5. ASSUME NEW i \in T PROVE i + 1 \in T
  <2> SUFFICES ASSUME i + 1 <= n PROVE s[i + 1] = r[i + 1] + IF w <= i + 1 THEN I!Elapsed(w) ELSE 0
    OBVIOUS
  <2>1. i \in Nat /\ i + 1 \in 1..n /\ i + 1 - 1 = i /\ i \in 0..n
    BY <1>0
  <2>2. s[i] = r[i] + IF w <= i THEN I!Elapsed(w) ELSE 0
    BY <1>0, <2>1
  <2>3. /\ r[i + 1] = r[i] + IF i + 1 \in S THEN I!Elapsed(i + 1) ELSE 0
        /\ s[i + 1] = s[i] + IF i + 1 \in S \cup {w} THEN I!Elapsed(i + 1) ELSE 0
    BY <1>3, <2>1
  <2>4. r[i] \in Int /\ (i + 1 \in S => I!Elapsed(i + 1) \in Int)
    BY <1>3, <2>1
  <2>5. CASE i + 1 = w
    BY <1>0, <2>1, <2>2, <2>3, <2>4, <2>5
  <2>6. CASE i + 1 # w
    <3>1. w <= i + 1 <=> w <= i
      BY <1>0, <2>1, <2>6
    <3> QED BY <1>0, <2>1, <2>2, <2>3, <2>4, <2>6, <3>1
  <2> QED BY <2>5, <2>6
<1>6. n \in T
  <2> T \in SUBSET Nat OBVIOUS
  <2> HIDE DEF T
  <2> QED BY <1>0, <1>4, <1>5, Induct
<1>7. w <= n /\ n \in 0..n
  BY <1>0
<1> QED BY <1>1, <1>2, <1>3, <1>6, <1>7 DEF n

LEMMA TotalOfNone == I!Total({}) = 0
<1> DEFINE n == MaxWrites
<1>0. n \in Nat
  BY ExportAssumption
<1>1. PICK r : Recurs(r, n, Int, 0, Adding({})) /\ I!Total({}) = r[n]
  BY TotalIs
<1> HIDE DEF n
<1> DEFINE T == {i \in Nat : i <= n => r[i] = 0}
<1>2. 0 \in T
  BY <1>1 DEF Recurs
<1>3. ASSUME NEW i \in T PROVE i + 1 \in T
  <2> SUFFICES ASSUME i + 1 <= n PROVE r[i + 1] = 0
    OBVIOUS
  <2>1. i \in Nat /\ i + 1 \in 1..n /\ i + 1 - 1 = i /\ i <= n
    BY <1>0
  <2>2. r[i] = 0
    BY <2>1
  <2>3. r[i + 1] = Adding({})[<<r[i], i + 1>>]
    BY <1>1, <2>1 DEF Recurs
  <2> QED BY <2>1, <2>2, <2>3 DEF Adding, n
<1>4. n \in T
  <2> T \in SUBSET Nat OBVIOUS
  <2> HIDE DEF T
  <2> QED BY <1>0, <1>2, <1>3, Induct
<1> QED BY <1>0, <1>1, <1>4

(* It changes with the clocks only.                                         *)
LEMMA TotalStays == ASSUME clock' = clock, NEW S PROVE I!Total(S)' = I!Total(S)
BY DEF I!Total, I!Elapsed

-----------------------------------------------------------------------------
(* The writes that a metric counts, the label set of each, and what its     *)
(* series shows of a set of them.                                           *)
Entered(m) ==
  IF m = "inFlight" THEN I!InFlight ELSE IF m = "writes" THEN I!Ended ELSE {w \in I!Ended : I!Timed(w)}
Labels(m) == [w \in I!Writes |-> I!Label(m, w)]
Measure(m, S) ==
  IF m = "durations"
  THEN [buckets |-> [b \in Buckets |-> Cardinality({w \in S : I!Elapsed(w) <= b})],
        count |-> Cardinality(S), sum |-> I!Total(S)]
  ELSE Cardinality(S)

Exact(m, own, f, lab, X) ==
  /\ Placed(own, DOMAIN f, I!Overflow(m), I!Budget, lab, X)
  /\ \A k \in DOMAIN f : f[k] = Measure(m, Shares(own, lab, X, k))

SeriesTypes ==
  /\ clock \in Clocks /\ name \in [I!Writes -> Transports \cup {I!Word}]
  /\ answer \in [I!Writes -> {"new", "inFlight", "resolved", "rejected"}]
  /\ inner \in [I!Writes -> {"none", "resolved", "rejected"}]
  /\ \A w \in I!Writes : IF inner[w] = "none" THEN answer[w] \in {"new", "inFlight"} ELSE answer[w] = inner[w]

(* Each metric but the broken ones is exact.                                *)
MetricInv(m) ==
  IF m \in broken THEN values[m] = <<>> /\ labelText[m] = {}
  ELSE Exact(m, I!Ordinary(m), values[m], Labels(m), Entered(m))

SeriesInv == SeriesTypes /\ \A m \in I!Metrics : MetricInv(m)

LEMMA SeriesInit == Init => SeriesInv
<1> SUFFICES ASSUME Init PROVE SeriesInv
  OBVIOUS
<1>1. I!Init
  BY DEF Init
<1>2. SeriesTypes
  BY <1>1 DEF I!Init, SeriesTypes
<1>3. ASSUME NEW m \in I!Metrics PROVE MetricInv(m)
  <2>1. values[m] = <<>> /\ labelText[m] = {} /\ I!Ordinary(m) = {} /\ Entered(m) = {}
    BY <1>1, <1>3 DEF I!Init, Entered, I!InFlight, I!Ended, I!Ordinary
  <2>2. I!Budget >= 0
    BY ExportAssumption DEF I!Budget
  <2>3. Placed({}, {}, I!Overflow(m), I!Budget, Labels(m), {})
    BY <2>2, FS_EmptySet DEF Placed
  <2>4. DOMAIN <<>> = {}
    OBVIOUS
  <2> QED BY <2>1, <2>3, <2>4 DEF MetricInv, Exact
<1> QED BY <1>2, <1>3 DEF SeriesInv

LEMMA EnteredIs ==
  ASSUME SeriesInv, NEW m \in I!Metrics
  PROVE  /\ Entered(m) \subseteq 1..MaxWrites /\ IsFiniteSet(Entered(m))
         /\ m = "durations" => \A w \in Entered(m) : I!Elapsed(w) \in Int
<1>1. Entered(m) \subseteq 1..MaxWrites
  BY DEF Entered, I!InFlight, I!Ended, I!Writes
<1>2. IsFiniteSet(1..MaxWrites)
  BY ExportAssumption, FS_Interval
<1>3. ASSUME NEW w \in 1..MaxWrites, I!Timed(w) PROVE I!Elapsed(w) \in Int
  <2>1. clock[w] \in Seq(Int) /\ clock[w] # <<>>
    BY <1>3, ExportAssumption DEF SeriesInv, SeriesTypes, I!Timed
  <2>2. Head(clock[w]) \in Int
    BY <2>1
  <2> QED BY <2>2 DEF I!Elapsed
<1>4. m = "durations" => \A w \in Entered(m) : I!Timed(w)
  BY DEF Entered
<1> QED BY <1>1, <1>2, <1>3, <1>4, FS_Subset

(* What one write more does to what a series shows.                         *)
LEMMA MeasureAdds ==
  ASSUME NEW m \in I!Metrics, NEW S \in SUBSET (1..MaxWrites), NEW w \in 1..MaxWrites, w \notin S,
         m = "durations" => \A x \in S \cup {w} : I!Elapsed(x) \in Int
  PROVE  Measure(m, S \cup {w})
           = IF m = "durations" THEN I!Observe(Measure(m, S), I!Elapsed(w)) ELSE 1 + Measure(m, S)
<1>1. IsFiniteSet(S) /\ Cardinality(S) \in Nat /\ Cardinality(S \cup {w}) = Cardinality(S) + 1
  <2>1. IsFiniteSet(1..MaxWrites)
    BY ExportAssumption, FS_Interval
  <2>2. IsFiniteSet(S)
    BY <2>1, FS_Subset
  <2> QED BY <2>2, FS_AddElement, FS_CardinalityType
<1>2. CASE m # "durations"
  BY <1>1, <1>2 DEF Measure
<1>3. CASE m = "durations"
  <2>1. I!Total(S \cup {w}) = I!Total(S) + I!Elapsed(w)
    BY <1>3, TotalAdds
  <2>2. ASSUME NEW b \in Buckets
        PROVE  Cardinality({x \in S \cup {w} : I!Elapsed(x) <= b})
                 = Cardinality({x \in S : I!Elapsed(x) <= b}) + IF I!Elapsed(w) <= b THEN 1 ELSE 0
    <3> DEFINE few == {x \in S : I!Elapsed(x) <= b}
    <3>1. IsFiniteSet(few) /\ w \notin few /\ Cardinality(few) \in Nat
      <4>1. few \in SUBSET S
        OBVIOUS
      <4> QED BY <1>1, <4>1, FS_Subset, FS_CardinalityType
    <3>2. {x \in S \cup {w} : I!Elapsed(x) <= b} = IF I!Elapsed(w) <= b THEN few \cup {w} ELSE few
      OBVIOUS
    <3> HIDE DEF few
    <3>3. Cardinality(few \cup {w}) = Cardinality(few) + 1
      BY <3>1, FS_AddElement
    <3>4. {x \in S : I!Elapsed(x) <= b} = few
      BY DEF few
    <3> QED BY <3>1, <3>2, <3>3, <3>4
  <2> DEFINE now(X) == [b \in Buckets |-> Cardinality({x \in X : I!Elapsed(x) <= b})]
  <2>3. now(S \cup {w}) = [b \in Buckets |-> now(S)[b] + IF I!Elapsed(w) <= b THEN 1 ELSE 0]
    BY <2>2
  <2>4. \A X : Measure(m, X) = [buckets |-> now(X), count |-> Cardinality(X), sum |-> I!Total(X)]
    BY <1>3 DEF Measure
  <2> HIDE DEF now
  <2>5. /\ Measure(m, S).buckets = now(S) /\ Measure(m, S).count = Cardinality(S)
        /\ Measure(m, S).sum = I!Total(S)
    BY <2>4
  <2>6. Measure(m, S \cup {w}) = I!Observe(Measure(m, S), I!Elapsed(w))
    BY <1>1, <2>1, <2>3, <2>4, <2>5 DEF I!Observe
  <2> QED BY <1>3, <2>6
<1> QED BY <1>2, <1>3

LEMMA MeasureOfNone ==
  ASSUME NEW m \in I!Metrics
  PROVE  Measure(m, {}) = IF m = "durations" THEN I!NothingObserved ELSE 0
<1>1. \A b \in Buckets : {w \in {} : I!Elapsed(w) <= b} = {}
  OBVIOUS
<1> QED BY <1>1, FS_EmptySet, TotalOfNone DEF Measure, I!NothingObserved

-----------------------------------------------------------------------------
LEMMA KeyIs ==
  ASSUME NEW m, NEW l
  PROVE  /\ I!Key(m, l) = KeyOf(I!Ordinary(m), I!Overflow(m), I!Budget, l)
         /\ (labelText[m] \cup I!Text(m, l)) \ {I!Overflow(m)}
              = (I!Ordinary(m) \cup {I!Key(m, l)}) \ {I!Overflow(m)}
<1>1. I!Accepts(m, l) <=> l \in labelText[m] \/ Cardinality(I!Ordinary(m)) < I!Budget
  BY CountIs DEF I!Accepts
<1>2. l \in labelText[m] <=> l \in I!Ordinary(m) \/ (l = I!Overflow(m) /\ l \in labelText[m])
  BY DEF I!Ordinary
<1>3. I!Key(m, l) = KeyOf(I!Ordinary(m), I!Overflow(m), I!Budget, l)
  BY <1>1, <1>2 DEF I!Key, KeyOf
<1>4. ~I!Accepts(m, l) => I!Key(m, l) = I!Overflow(m)
  BY DEF I!Key
<1>5. (labelText[m] \cup I!Text(m, l)) \ {I!Overflow(m)}
        = (I!Ordinary(m) \cup {I!Key(m, l)}) \ {I!Overflow(m)}
  BY <1>4 DEF I!Text, I!Ordinary
<1> QED BY <1>3, <1>5

(* What one update writes under a key: what the metrics that it is for and  *)
(* the others hold.                                                         *)
LEMMA UpdateIs ==
  ASSUME NEW edits, I!Update(edits), NEW m \in I!Metrics
  PROVE  IF m \in DOMAIN edits \ broken
         THEN /\ labelText'[m] = labelText[m] \cup I!Text(m, edits[m][1])
              /\ values'[m] = I!Put(values[m], I!Key(m, edits[m][1]),
                                    I!Changed(m, I!Key(m, edits[m][1]), edits[m][2]))
         ELSE labelText'[m] = labelText[m] /\ values'[m] = values[m]
BY DEF I!Update

Still == reserveOverflow' = reserveOverflow /\ broken' = broken /\ clock' = clock

(* What is exact stays so while the clocks and the limit do.                *)
LEMMA ExactStays ==
  ASSUME Still, NEW m \in I!Metrics, m \notin broken,
         Exact(m, (labelText'[m]) \ {I!Overflow(m)}, values'[m], Labels(m)', Entered(m)')
  PROVE  MetricInv(m)'
<1>1. I!Ordinary(m)' = (labelText'[m]) \ {I!Overflow(m)}
  BY DEF I!Ordinary, I!Overflow, I!Word
<1>2. \A S : Measure(m, S)' = Measure(m, S)
  <2>1. \A S : I!Total(S)' = I!Total(S)
    BY TotalStays DEF Still
  <2>2. \A w : I!Elapsed(w)' = I!Elapsed(w)
    BY DEF Still, I!Elapsed
  <2> QED BY <2>1, <2>2 DEF Measure
<1>3. I!Budget' = I!Budget /\ I!Overflow(m)' = I!Overflow(m)
  BY DEF Still, I!Budget, I!Overflow
<1>4. Exact(m, I!Ordinary(m), values[m], Labels(m), Entered(m))'
  <2> DEFINE own == (labelText'[m]) \ {I!Overflow(m)}
  <2>1. I!Ordinary(m)' = own /\ Exact(m, own, values'[m], Labels(m)', Entered(m)')
    BY <1>1
  <2> HIDE DEF own
  <2>2. Placed(I!Ordinary(m), DOMAIN values[m], I!Overflow(m), I!Budget, Labels(m), Entered(m))'
    BY <1>3, <2>1 DEF Exact, Placed
  <2>3. ASSUME NEW k \in DOMAIN values'[m]
        PROVE  values'[m][k] = Measure(m, Shares(I!Ordinary(m), Labels(m), Entered(m), k))'
    <3>1. values'[m][k] = Measure(m, Shares(own, Labels(m)', Entered(m)', k))
      BY <2>1 DEF Exact
    <3>2. Shares(I!Ordinary(m), Labels(m), Entered(m), k)' = Shares(own, Labels(m)', Entered(m)', k)
      BY <2>1 DEF Shares
    <3>3. Measure(m, Shares(I!Ordinary(m), Labels(m), Entered(m), k))' = Measure(m, Shares(I!Ordinary(m), Labels(m), Entered(m), k)')
      BY <1>2
    <3> QED BY <3>1, <3>2, <3>3
  <2> QED BY <2>2, <2>3 DEF Exact
<1> QED BY <1>4 DEF MetricInv, Still

-----------------------------------------------------------------------------
LEMMA Budgeted == I!Budget \in Nat
BY ExportAssumption DEF I!Budget

(* A metric that nothing was written to.                                    *)
LEMMA Keeps ==
  ASSUME SeriesInv, Still, NEW m \in I!Metrics,
         labelText'[m] = labelText[m], values'[m] = values[m],
         m \notin broken => /\ Entered(m)' = Entered(m)
                            /\ \A x \in Entered(m) : Labels(m)'[x] = Labels(m)[x]
  PROVE  MetricInv(m)'
<1>0. MetricInv(m)
  BY DEF SeriesInv
<1>1. CASE m \in broken
  BY <1>0, <1>1 DEF MetricInv, Still
<1>2. CASE m \notin broken
  <2> DEFINE own == I!Ordinary(m)
             X == Entered(m)
             lab == Labels(m)
             label == Labels(m)'
  <2>1. Exact(m, own, values[m], lab, X) /\ \A x \in X : label[x] = lab[x]
    BY <1>0, <1>2 DEF MetricInv
  <2>2. (labelText'[m]) \ {I!Overflow(m)} = own /\ Entered(m)' = X
    BY <1>2 DEF I!Ordinary
  <2> HIDE DEF own, X, lab, label
  <2>3. Placed(own, DOMAIN values[m], I!Overflow(m), I!Budget, label, X)
    BY <2>1 DEF Exact, Placed
  <2>4. \A k : Shares(own, label, X, k) = Shares(own, lab, X, k)
    BY <2>1 DEF Shares
  <2>5. Exact(m, own, values[m], label, X)
    BY <2>1, <2>3, <2>4 DEF Exact
  <2> USE DEF label
  <2> QED BY <1>2, <2>2, <2>5, ExactStays
<1> QED BY <1>1, <1>2

(* A metric that another write is counted in.                               *)
LEMMA Gains ==
  ASSUME SeriesInv, Still, NEW m \in I!Metrics, m \notin broken,
         NEW w \in 1..MaxWrites, w \notin Entered(m), Entered(m)' = Entered(m) \cup {w},
         \A x \in Entered(m) : Labels(m)'[x] = Labels(m)[x],
         m = "durations" => I!Elapsed(w) \in Int,
         NEW l, l = Labels(m)'[w],
         NEW change, change = IF m = "durations" THEN I!Elapsed(w) ELSE 1,
         labelText'[m] = labelText[m] \cup I!Text(m, l),
         values'[m] = I!Put(values[m], I!Key(m, l), I!Changed(m, I!Key(m, l), change))
  PROVE  MetricInv(m)'
<1> DEFINE own == I!Ordinary(m)
           X == Entered(m)
           lab == Labels(m)
           label == Labels(m)'
           k == I!Key(m, l)
           f == values[m]
           g == values'[m]
           after == (labelText'[m]) \ {I!Overflow(m)}
           before == IF k \in DOMAIN f THEN Shares(own, lab, X, k) ELSE {}
<1>1. Exact(m, own, f, lab, X) /\ \A x \in X : label[x] = lab[x]
  BY DEF SeriesInv, MetricInv
<1>2. /\ k = KeyOf(own, I!Overflow(m), I!Budget, label[w])
      /\ after = Grown(own, I!Overflow(m), k)
  BY KeyIs DEF Grown
<1>3. /\ X \subseteq 1..MaxWrites /\ w \notin X
      /\ m = "durations" => \A x \in X \cup {w} : I!Elapsed(x) \in Int
  BY EnteredIs
<1>4. DOMAIN g = DOMAIN f \cup {k} /\ \A j \in DOMAIN g : g[j] = IF j = k THEN I!Changed(m, k, change) ELSE f[j]
  BY DEF I!Put
<1>5. I!Changed(m, k, change)
        = LET was == IF k \in DOMAIN f THEN f[k] ELSE IF m = "durations" THEN I!NothingObserved ELSE 0
          IN IF m = "durations" THEN I!Observe(was, change) ELSE change + was
  BY DEF I!Changed
<1>6. Entered(m)' = X \cup {w}
  OBVIOUS
<1> HIDE DEF own, X, lab, label, k, f, g, after
<1>7. /\ Placed(after, DOMAIN f \cup {k}, I!Overflow(m), I!Budget, label, X \cup {w})
      /\ \A j \in DOMAIN f : j # k => Shares(after, label, X \cup {w}, j) = Shares(own, lab, X, j)
      /\ Shares(after, label, X \cup {w}, k) = before \cup {w}
  <2> DEFINE dom == DOMAIN f
             spill == I!Overflow(m)
             budget == I!Budget
  <2>1. Placed(own, dom, spill, budget, lab, X) /\ budget \in Nat
    BY <1>1, Budgeted DEF Exact
  <2>2. k = KeyOf(own, spill, budget, label[w]) /\ after = Grown(own, spill, k)
    BY <1>2
  <2>3. w \notin X /\ \A x \in X : label[x] = lab[x]
    BY <1>1, <1>3
  <2> HIDE DEF dom, spill, budget
  <2>4. Entering(own, dom, spill, budget, lab, label, X, w, k)
    BY <2>1, <2>2, <2>3, Enters
  <2> QED BY <2>2, <2>4 DEF dom, spill, budget, Entering
<1>8. before \in SUBSET (1..MaxWrites) /\ w \notin before /\ before \subseteq X
  BY <1>3 DEF Shares
<1>9. Measure(m, before) = IF k \in DOMAIN f THEN f[k] ELSE IF m = "durations" THEN I!NothingObserved ELSE 0
  BY <1>1, MeasureOfNone DEF Exact
<1>10. Measure(m, before \cup {w})
         = IF m = "durations" THEN I!Observe(Measure(m, before), I!Elapsed(w)) ELSE 1 + Measure(m, before)
  <2> HIDE DEF before
  <2>1. m = "durations" => \A x \in before \cup {w} : I!Elapsed(x) \in Int
    BY <1>3, <1>8
  <2> QED BY <1>8, <2>1, MeasureAdds
<1>11. I!Changed(m, k, change) = Measure(m, before \cup {w})
  BY <1>5, <1>9, <1>10
<1>12. \A j \in DOMAIN g : g[j] = Measure(m, Shares(after, label, X \cup {w}, j))
  BY <1>1, <1>4, <1>7, <1>11 DEF Exact
<1>13. Exact(m, after, g, label, X \cup {w})
  BY <1>4, <1>7, <1>12 DEF Exact
<1> USE DEF after, g, label
<1> QED BY <1>6, <1>13, ExactStays

(* The gauge when a write in flight ends.                                   *)
LEMMA Loses ==
  ASSUME SeriesInv, Still, NEW m \in I!Metrics, m \notin broken, m # "durations",
         NEW w \in Entered(m), Entered(m)' = Entered(m) \ {w},
         \A x \in Entered(m) : Labels(m)'[x] = Labels(m)[x],
         NEW l, l = Labels(m)[w],
         labelText'[m] = labelText[m] \cup I!Text(m, l),
         values'[m] = I!Put(values[m], I!Key(m, l), I!Changed(m, I!Key(m, l), -1))
  PROVE  MetricInv(m)'
<1> DEFINE own == I!Ordinary(m)
           X == Entered(m)
           lab == Labels(m)
           label == Labels(m)'
           k == I!Key(m, l)
           f == values[m]
           g == values'[m]
           after == (labelText'[m]) \ {I!Overflow(m)}
<1>1. Exact(m, own, f, lab, X) /\ (\A x \in X : label[x] = lab[x]) /\ IsFiniteSet(X) /\ w \in X
  BY EnteredIs DEF SeriesInv, MetricInv
<1>2. /\ k = KeyOf(own, I!Overflow(m), I!Budget, lab[w])
      /\ after = Grown(own, I!Overflow(m), k)
  BY KeyIs DEF Grown
<1>3. DOMAIN g = DOMAIN f \cup {k} /\ \A j \in DOMAIN g : g[j] = IF j = k THEN I!Changed(m, k, -1) ELSE f[j]
  BY DEF I!Put
<1>4. k \in DOMAIN f => I!Changed(m, k, -1) = -1 + f[k]
  BY DEF I!Changed
<1>5. Entered(m)' = X \ {w}
  OBVIOUS
<1> HIDE DEF own, X, lab, label, k, f, g, after
<1>6. /\ k \in DOMAIN f /\ Grown(own, I!Overflow(m), k) = own
      /\ Placed(own, DOMAIN f, I!Overflow(m), I!Budget, lab, X \ {w})
      /\ w \in Shares(own, lab, X, k)
      /\ \A j \in DOMAIN f : Shares(own, lab, X \ {w}, j)
                               = IF j = k THEN Shares(own, lab, X, k) \ {w} ELSE Shares(own, lab, X, j)
  <2> DEFINE dom == DOMAIN f
             spill == I!Overflow(m)
             budget == I!Budget
  <2>1. Placed(own, dom, spill, budget, lab, X) /\ budget \in Nat /\ w \in X
    BY <1>1, Budgeted DEF Exact
  <2>2. k = KeyOf(own, spill, budget, lab[w])
    BY <1>2
  <2> HIDE DEF dom, spill, budget
  <2>3. Leaving(own, dom, spill, budget, lab, X, w, k)
    BY <2>1, <2>2, Leaves
  <2> QED BY <2>3 DEF dom, spill, budget, Leaving
<1>7. \A j : Shares(own, label, X \ {w}, j) = Shares(own, lab, X \ {w}, j)
  BY <1>1 DEF Shares
<1>8. Placed(own, DOMAIN g, I!Overflow(m), I!Budget, label, X \ {w})
  <2>1. DOMAIN g = DOMAIN f
    BY <1>3, <1>6
  <2> QED BY <1>1, <1>6, <2>1 DEF Placed
<1>9. Measure(m, Shares(own, lab, X, k) \ {w}) = -1 + f[k]
  <2> DEFINE S == Shares(own, lab, X, k)
  <2>1. IsFiniteSet(S) /\ w \in S
    <3> S \in SUBSET X
      BY DEF Shares
    <3> QED BY <1>1, <1>6, FS_Subset
  <2>2. f[k] = Cardinality(S)
    BY <1>1, <1>6 DEF Exact, Measure
  <2> HIDE DEF S
  <2>3. Cardinality(S \ {w}) = Cardinality(S) - 1 /\ Cardinality(S) \in Nat
    BY <2>1, FS_RemoveElement, FS_CardinalityType
  <2>4. Measure(m, S \ {w}) = -1 + f[k]
    BY <2>2, <2>3 DEF Measure
  <2> QED BY <2>4 DEF S
<1>10. ASSUME NEW j \in DOMAIN g PROVE g[j] = Measure(m, Shares(own, label, X \ {w}, j))
  BY <1>1, <1>3, <1>4, <1>6, <1>7, <1>9 DEF Exact
<1>11. Exact(m, own, g, label, X \ {w})
  BY <1>8, <1>10 DEF Exact
<1>12. after = own
  BY <1>2, <1>6
<1> USE DEF after, g, label
<1> QED BY <1>5, <1>11, <1>12, ExactStays

-----------------------------------------------------------------------------
LEMMA SeriesNext == ASSUME SeriesInv, [Next]_vars PROVE SeriesInv'
<1>1. CASE UNCHANGED seriesVars
  <2>1. Still /\ labelText' = labelText /\ values' = values
    BY <1>1 DEF seriesVars, Still
  <2>2. SeriesTypes'
    BY <1>1 DEF seriesVars, SeriesInv, SeriesTypes
  <2>3. ASSUME NEW m \in I!Metrics PROVE MetricInv(m)'
    <3>1. Entered(m)' = Entered(m) /\ Labels(m)' = Labels(m)
      BY <1>1 DEF seriesVars, Entered, I!InFlight, I!Ended, I!Timed, Labels, I!Label
    <3> QED BY <2>1, <3>1, Keeps
  <2>4. I!Metrics' = I!Metrics
    BY DEF I!Metrics
  <2> QED BY <2>2, <2>3, <2>4 DEF SeriesInv
<1>2. ASSUME NEW w \in I!Writes, NEW n \in Transports, I!WriteStarts(w, n) PROVE SeriesInv'
  <2> DEFINE edits == [m \in {"inFlight"} |-> <<<<n>>, 1>>]
  <2>1. /\ answer[w] = "new" /\ answer' = [answer EXCEPT ![w] = "inFlight"]
        /\ name' = [name EXCEPT ![w] = n] /\ I!Update(edits) /\ inner' = inner /\ Still
    BY <1>2 DEF I!WriteStarts, Still
  <2>2. SeriesTypes
    BY DEF SeriesInv
  <2>3. SeriesTypes'
    BY <2>1, <2>2 DEF SeriesTypes, Still, I!Writes
  <2>4. inner[w] = "none"
    BY <2>1, <2>2 DEF SeriesTypes
  <2>5. \A x \in I!Writes : x # w => answer'[x] = answer[x] /\ name'[x] = name[x]
    BY <2>1, <2>2 DEF SeriesTypes
  <2>6. answer'[w] = "inFlight" /\ name'[w] = n
    BY <2>1, <2>2 DEF SeriesTypes
  <2>7. ASSUME NEW m \in I!Metrics PROVE MetricInv(m)'
    <3>1. CASE m = "inFlight" /\ m \notin broken
      <4>1. w \in 1..MaxWrites /\ w \notin Entered(m) /\ Entered(m)' = Entered(m) \cup {w}
        BY <2>1, <2>5, <2>6, <3>1 DEF Entered, I!InFlight, I!Writes
      <4>2. \A x \in Entered(m) : Labels(m)'[x] = Labels(m)[x]
        BY <2>1, <2>5, <3>1 DEF Entered, I!InFlight, Labels, I!Label, I!Writes
      <4>3. <<n>> = Labels(m)'[w]
        BY <2>6, <3>1 DEF Labels, I!Label, I!Writes
      <4>4. /\ labelText'[m] = labelText[m] \cup I!Text(m, <<n>>)
            /\ values'[m] = I!Put(values[m], I!Key(m, <<n>>), I!Changed(m, I!Key(m, <<n>>), 1))
        <5>1. m \in DOMAIN edits \ broken /\ edits[m][1] = <<n>> /\ edits[m][2] = 1
          BY <3>1
        <5> HIDE DEF edits
        <5> QED BY <2>1, <5>1, UpdateIs
      <4> QED BY <2>1, <3>1, <4>1, <4>2, <4>3, <4>4, Gains
    <3>2. CASE m # "inFlight" \/ m \in broken
      <4>1. labelText'[m] = labelText[m] /\ values'[m] = values[m]
        <5>1. m \notin DOMAIN edits \ broken
          BY <3>2
        <5> HIDE DEF edits
        <5> QED BY <2>1, <5>1, UpdateIs
      <4>2. m # "inFlight" => Entered(m)' = Entered(m)
        BY <2>1 DEF Entered, I!Ended, I!Timed, Still, I!Writes
      <4>3. m # "inFlight" => \A x \in Entered(m) : Labels(m)'[x] = Labels(m)[x]
        BY <2>1, <2>4, <2>5 DEF Entered, I!Ended, Labels, I!Label, I!Writes
      <4> QED BY <2>1, <3>2, <4>1, <4>2, <4>3, Keeps
    <3> QED BY <3>1, <3>2
  <2>8. I!Metrics' = I!Metrics
    BY DEF I!Metrics
  <2> QED BY <2>3, <2>7, <2>8 DEF SeriesInv
<1>3. ASSUME NEW w \in I!Writes, NEW outcome \in {"resolved", "rejected"}, I!WriteSettles(w, outcome)
      PROVE  SeriesInv'
  <2> DEFINE edits == I!Finish(w, outcome)
  <2>1. /\ answer[w] = "inFlight" /\ answer' = [answer EXCEPT ![w] = outcome]
        /\ inner' = [inner EXCEPT ![w] = outcome] /\ I!Update(edits) /\ name' = name /\ Still
    BY <1>3 DEF I!WriteSettles, Still
  <2>2. SeriesTypes
    BY DEF SeriesInv
  <2>3. SeriesTypes'
    BY <2>1, <2>2 DEF SeriesTypes, Still, I!Writes
  <2>4. inner[w] = "none"
    BY <2>1, <2>2 DEF SeriesTypes
  <2>5. /\ \A x \in I!Writes : x # w => answer'[x] = answer[x] /\ inner'[x] = inner[x]
        /\ answer'[w] = outcome /\ inner'[w] = outcome
    BY <2>1, <2>2 DEF SeriesTypes
  <2>6. /\ DOMAIN edits = IF I!Timed(w) THEN I!Metrics ELSE I!Metrics \ {"durations"}
        /\ \A m \in DOMAIN edits :
             edits[m] = IF m = "inFlight" THEN <<<<name[w]>>, -1>>
                          ELSE IF m = "writes" THEN <<<<name[w], outcome>>, 1>>
                          ELSE <<<<name[w]>>, I!Elapsed(w)>>
    BY DEF I!Finish, I!Metrics
  <2> HIDE DEF edits
  <2>7. ASSUME NEW m \in I!Metrics, m \in DOMAIN edits \ broken, NEW l, NEW change,
               edits[m] = <<l, change>>
        PROVE  /\ labelText'[m] = labelText[m] \cup I!Text(m, l)
               /\ values'[m] = I!Put(values[m], I!Key(m, l), I!Changed(m, I!Key(m, l), change))
    <3>1. edits[m][1] = l /\ edits[m][2] = change
      BY <2>7
    <3> QED BY <2>1, <2>7, <3>1, UpdateIs
  <2>8. ASSUME NEW m \in I!Metrics PROVE MetricInv(m)'
    <3>1. CASE m \notin DOMAIN edits \ broken
      <4>1. labelText'[m] = labelText[m] /\ values'[m] = values[m]
        BY <2>1, <3>1, UpdateIs
      <4>2. ASSUME m \notin broken
            PROVE  Entered(m)' = Entered(m) /\ \A x \in Entered(m) : Labels(m)'[x] = Labels(m)[x]
        <5>1. m = "durations" /\ ~I!Timed(w)
          BY <2>6, <3>1, <4>2 DEF I!Metrics
        <5>2. \A x : I!Timed(x)' <=> I!Timed(x)
          BY <2>1 DEF I!Timed, Still
        <5> QED BY <2>1, <2>5, <5>1, <5>2 DEF Entered, I!Ended, Labels, I!Label, I!Writes
      <4> QED BY <2>1, <4>1, <4>2, Keeps
    <3>2. CASE m = "inFlight" /\ m \in DOMAIN edits \ broken
      <4>1. w \in Entered(m) /\ Entered(m)' = Entered(m) \ {w}
        BY <2>1, <2>5, <3>2 DEF Entered, I!InFlight, I!Writes
      <4>2. /\ \A x \in Entered(m) : Labels(m)'[x] = Labels(m)[x]
            /\ <<name[w]>> = Labels(m)[w]
        BY <2>1, <3>2 DEF Entered, I!InFlight, Labels, I!Label, I!Writes
      <4>3. edits[m] = <<<<name[w]>>, -1>>
        BY <2>6, <3>2
      <4>4. /\ labelText'[m] = labelText[m] \cup I!Text(m, <<name[w]>>)
            /\ values'[m] = I!Put(values[m], I!Key(m, <<name[w]>>), I!Changed(m, I!Key(m, <<name[w]>>), -1))
        BY <2>7, <3>2, <4>3
      <4> QED BY <2>1, <3>2, <4>1, <4>2, <4>4, Loses
    <3>3. CASE m # "inFlight" /\ m \in DOMAIN edits \ broken
      <4>1. /\ m = "writes" \/ (m = "durations" /\ I!Timed(w))
            /\ m \notin broken
        BY <2>6, <3>3 DEF I!Metrics
      <4>2. \A x : I!Timed(x)' <=> I!Timed(x)
        BY <2>1 DEF I!Timed, Still
      <4>3. w \in 1..MaxWrites /\ w \notin Entered(m) /\ Entered(m)' = Entered(m) \cup {w}
        BY <2>4, <2>5, <4>1, <4>2 DEF Entered, I!Ended, I!Writes
      <4>4. \A x \in Entered(m) : Labels(m)'[x] = Labels(m)[x]
        BY <2>1, <2>5, <4>1, <4>3 DEF Entered, I!Ended, Labels, I!Label, I!Writes
      <4> DEFINE l == IF m = "writes" THEN <<name[w], outcome>> ELSE <<name[w]>>
                 change == IF m = "durations" THEN I!Elapsed(w) ELSE 1
      <4>5. l = Labels(m)'[w]
        BY <2>1, <2>5 DEF Labels, I!Label, I!Writes
      <4>6. edits[m] = <<l, change>>
        BY <2>6, <3>3, <4>1
      <4>7. m = "durations" => I!Elapsed(w) \in Int
        <5>1. SUFFICES ASSUME I!Timed(w) PROVE I!Elapsed(w) \in Int
          BY <4>1
        <5>2. clock[w] \in Seq(Int) /\ clock[w] # <<>>
          BY <2>2, <5>1, ExportAssumption DEF SeriesTypes, I!Timed, I!Writes
        <5>3. Head(clock[w]) \in Int
          BY <5>2
        <5> QED BY <5>3 DEF I!Elapsed
      <4>8. change = IF m = "durations" THEN I!Elapsed(w) ELSE 1
        OBVIOUS
      <4> HIDE DEF l, change
      <4>9. /\ labelText'[m] = labelText[m] \cup I!Text(m, l)
            /\ values'[m] = I!Put(values[m], I!Key(m, l), I!Changed(m, I!Key(m, l), change))
        BY <2>7, <3>3, <4>6
      <4> QED BY <2>1, <4>1, <4>3, <4>4, <4>5, <4>7, <4>8, <4>9, Gains
    <3> QED BY <3>1, <3>2, <3>3
  <2>9. I!Metrics' = I!Metrics
    BY DEF I!Metrics
  <2> QED BY <2>3, <2>8, <2>9 DEF SeriesInv
<1> QED BY <1>1, <1>2, <1>3, SeriesStep DEF I!Next

-----------------------------------------------------------------------------
LEMMA OfIs ==
  ASSUME SeriesInv, NEW m \in I!Metrics, m \notin broken, NEW X, X = Entered(m)
  PROVE  /\ \A k \in DOMAIN values[m] : values[m][k] = Measure(m, I!Of(m, X, k))
         /\ X = UNION {I!Of(m, X, k) : k \in DOMAIN values[m]}
<1> DEFINE own == I!Ordinary(m)
           dom == DOMAIN values[m]
           spill == I!Overflow(m)
<1>1. /\ Placed(own, dom, spill, I!Budget, Labels(m), X)
      /\ \A k \in dom : values[m][k] = Measure(m, Shares(own, Labels(m), X, k))
  BY DEF SeriesInv, MetricInv, Exact
<1>2. X \subseteq I!Writes
  BY EnteredIs DEF I!Writes
<1>3. \A w \in X : Labels(m)[w] = I!Label(m, w)
  BY <1>2 DEF Labels
<1>4. \A k : I!Of(m, X, k) = Shares(own, Labels(m), X, k)
  BY <1>3 DEF I!Of, Shares
<1> HIDE DEF own, dom, spill
<1>5. ASSUME NEW w \in X PROVE \E k \in dom : w \in Shares(own, Labels(m), X, k)
  <2>1. CASE Labels(m)[w] \in own
    <3>1. Labels(m)[w] \in dom /\ w \in Shares(own, Labels(m), X, Labels(m)[w])
      BY <1>1, <2>1 DEF Placed, Shares
    <3> QED BY <3>1
  <2>2. CASE Labels(m)[w] \notin own
    <3>1. spill \in dom /\ w \in Shares(own, Labels(m), X, spill)
      BY <1>1, <2>2 DEF Placed, Shares
    <3> QED BY <3>1
  <2> QED BY <2>1, <2>2
<1>6. \A k : Shares(own, Labels(m), X, k) \subseteq X
  BY DEF Shares
<1>7. X = UNION {I!Of(m, X, k) : k \in dom}
  BY <1>4, <1>5, <1>6
<1> QED BY <1>1, <1>4, <1>7 DEF dom

LEMMA SeriesInFlight == SeriesInv => I!InFlightExact
<1> SUFFICES ASSUME SeriesInv PROVE I!InFlightExact
  OBVIOUS
<1>1. "inFlight" \in I!Metrics /\ "writes" \in I!Metrics
  BY DEF I!Metrics
<1>2. Entered("inFlight") = I!InFlight /\ Entered("writes") = I!Ended
  BY DEF Entered
<1>3. \A S : Measure("inFlight", S) = I!Cardinality(S) /\ Measure("writes", S) = I!Cardinality(S)
  BY CountIs DEF Measure
<1>4. "inFlight" \notin broken =>
        /\ \A k \in DOMAIN values["inFlight"] :
             values["inFlight"][k] = I!Cardinality(I!Of("inFlight", I!InFlight, k))
        /\ I!InFlight = UNION {I!Of("inFlight", I!InFlight, k) : k \in DOMAIN values["inFlight"]}
  BY <1>1, <1>2, <1>3, OfIs
<1>5. "writes" \notin broken =>
        /\ \A k \in DOMAIN values["writes"] :
             values["writes"][k] = I!Cardinality(I!Of("writes", I!Ended, k))
        /\ I!Ended = UNION {I!Of("writes", I!Ended, k) : k \in DOMAIN values["writes"]}
  BY <1>1, <1>2, <1>3, OfIs
<1> QED BY <1>4, <1>5 DEF I!InFlightExact

LEMMA SeriesDurations == SeriesInv => I!DurationsAreCumulative
<1> SUFFICES ASSUME SeriesInv, "durations" \notin broken PROVE I!DurationsAreCumulative
  BY DEF I!DurationsAreCumulative
<1> DEFINE m == "durations"
           X == {w \in I!Ended : I!Timed(w)}
<1>1. m \in I!Metrics /\ Entered(m) = X
  BY DEF I!Metrics, Entered
<1>2. /\ \A k \in DOMAIN values[m] : values[m][k] = Measure(m, I!Of(m, X, k))
      /\ X = UNION {I!Of(m, X, k) : k \in DOMAIN values[m]}
  BY <1>1, OfIs
<1>3. ASSUME NEW S
      PROVE  /\ \A b \in Buckets : Measure(m, S).buckets[b] = I!Cardinality({w \in S : I!Elapsed(w) <= b})
             /\ Measure(m, S).count = I!Cardinality(S)
             /\ Measure(m, S).sum = I!Total(S)
  BY CountIs DEF Measure
<1> HIDE DEF X
<1>4. ASSUME NEW k \in DOMAIN values[m]
      PROVE  /\ \A b \in Buckets :
                  values[m][k].buckets[b] = I!Cardinality({w \in I!Of(m, X, k) : I!Elapsed(w) <= b})
             /\ values[m][k].count = I!Cardinality(I!Of(m, X, k))
             /\ values[m][k].sum = I!Total(I!Of(m, X, k))
  BY <1>2, <1>3
<1> QED BY <1>2, <1>4 DEF I!DurationsAreCumulative, X

LEMMA SeriesLimit == SeriesInv => I!SeriesBounded
<1> SUFFICES ASSUME SeriesInv, NEW m \in I!Metrics PROVE I!Cardinality(I!Rendered(m)) <= MaxSeries
  BY DEF I!SeriesBounded
<1>1. CASE m \in broken
  <2>1. values[m] = <<>>
    BY <1>1 DEF SeriesInv, MetricInv
  <2>2. I!Rendered(m) = {}
    BY <2>1 DEF I!Rendered
  <2> QED BY <2>2, CountIs, FS_EmptySet, ExportAssumption
<1>2. CASE m \notin broken
  <2> DEFINE own == I!Ordinary(m)
             spill == I!Overflow(m)
  <2>1. IsFiniteSet(own) /\ Cardinality(own) <= I!Budget /\ DOMAIN values[m] \ {spill} = own /\ spill \notin own
    BY <1>2 DEF SeriesInv, MetricInv, Exact, Placed
  <2> HIDE DEF own, spill
  <2>2. Cardinality(own) \in Nat
    BY <2>1, FS_CardinalityType
  <2>3. CASE reserveOverflow
    <3>1. IsFiniteSet(own \cup {spill}) /\ Cardinality(own \cup {spill}) = Cardinality(own) + 1
      BY <2>1, FS_AddElement
    <3>2. I!Rendered(m) \in SUBSET (own \cup {spill})
      BY <2>1 DEF I!Rendered
    <3>3. Cardinality(I!Rendered(m)) <= Cardinality(own) + 1 /\ Cardinality(I!Rendered(m)) \in Nat
      BY <3>1, <3>2, FS_Subset, FS_CardinalityType
    <3> QED BY <2>1, <2>2, <2>3, <3>3, CountIs, ExportAssumption DEF I!Budget
  <2>4. CASE ~reserveOverflow
    <3>1. I!Rendered(m) = own
      BY <2>1, <2>4 DEF I!Rendered, spill
    <3> QED BY <2>1, <2>2, <2>4, <3>1, CountIs DEF I!Budget
  <2> QED BY <2>3, <2>4
<1> QED BY <1>1, <1>2

LEMMA SeriesResults == SeriesInv => I!ResultIsInner
BY DEF SeriesInv, SeriesTypes, I!ResultIsInner, I!Writes

-----------------------------------------------------------------------------
LEMMA RegistryStep == ASSUME [Next]_vars PROVE G!Next \/ UNCHANGED registryVars
BY DEF Next, vars, exportVars

Kinds == {"counter", "gauge", "histogram"}
Registries ==
  [metrics : Maps(STRING, Kinds), names : SUBSET UNION {G!Exposed(n, kind) : n \in STRING, kind \in Kinds},
   thrown : BOOLEAN]

(* No two metrics of f share a name, and the names taken are all there.     *)
Apart(f, names) ==
  /\ \A n, o \in DOMAIN f : n # o => G!Exposed(n, f[n]) \cap G!Exposed(o, f[o]) = {}
  /\ \A n \in DOMAIN f : G!Exposed(n, f[n]) \subseteq names

Within(f, g) == \A n \in DOMAIN f : n \in DOMAIN g /\ g[n] = f[n]
Has(f, metric) == metric[1] \in DOMAIN f /\ f[metric[1]] = metric[2]

RegistryInv ==
  /\ [metrics |-> metrics, names |-> expositionNames, thrown |-> FALSE] \in Registries
  /\ Apart(metrics, expositionNames)
  /\ complete \subseteq MetricLists
  /\ \A list \in complete : \A i \in DOMAIN list : Has(metrics, list[i])

LEMMA RegisterIs ==
  ASSUME NEW r \in Registries, NEW metric \in STRING \X Kinds, Apart(r.metrics, r.names)
  PROVE  LET q == G!Register(r, metric)
         IN /\ q \in Registries /\ Apart(q.metrics, q.names) /\ Within(r.metrics, q.metrics)
            /\ ~q.thrown => ~r.thrown /\ Has(q.metrics, metric)
<1> DEFINE q == G!Register(r, metric)
<1>1. CASE r.thrown \/ G!Taken(r, metric)
  <2>1. q = [r EXCEPT !.thrown = TRUE]
    BY <1>1 DEF G!Register
  <2> HIDE DEF q
  <2>2. q \in Registries /\ q.metrics = r.metrics /\ q.names = r.names /\ q.thrown = TRUE
    <3> DEFINE U == UNION {G!Exposed(n, kind) : n \in STRING, kind \in Kinds}
    <3>1. Registries = [metrics : Maps(STRING, Kinds), names : SUBSET U, thrown : BOOLEAN]
      BY DEF Registries
    <3> HIDE DEF U
    <3> QED BY <2>1, <3>1
  <2> QED BY <2>2 DEF Within, q
<1>2. CASE ~(r.thrown \/ G!Taken(r, metric))
  <2> DEFINE f == r.metrics
             a == metric[1]
             g == [n \in DOMAIN f \cup {a} |-> IF n = a THEN metric[2] ELSE f[n]]
             U == UNION {G!Exposed(n, kind) : n \in STRING, kind \in Kinds}
  <2>1. /\ q.metrics = g /\ q.names = r.names \cup G!Exposed(a, metric[2]) /\ q.thrown = FALSE
        /\ q = [metrics |-> g, names |-> r.names \cup G!Exposed(a, metric[2]), thrown |-> FALSE]
    BY <1>2 DEF G!Register
  <2>2. a \notin DOMAIN f /\ G!Exposed(a, metric[2]) \cap r.names = {} /\ a \in STRING /\ metric[2] \in Kinds
    BY <1>2 DEF G!Taken
  <2>3. PICK Y \in SUBSET STRING : f \in [Y -> Kinds]
    BY DEF Registries, Maps
  <2>4. g \in Maps(STRING, Kinds)
    <3>1. g \in [Y \cup {a} -> Kinds] /\ Y \cup {a} \in SUBSET STRING
      BY <2>2, <2>3
    <3> QED BY <3>1 DEF Maps
  <2>5. r.names \cup G!Exposed(a, metric[2]) \in SUBSET U
    <3>1. r.names \in SUBSET U
      BY DEF Registries
    <3>2. G!Exposed(a, metric[2]) \in {G!Exposed(n, kind) : n \in STRING, kind \in Kinds}
      BY <2>2
    <3> QED BY <3>1, <3>2
  <2>6. q \in Registries
    BY <2>1, <2>4, <2>5 DEF Registries
  <2>7. /\ DOMAIN g = DOMAIN f \cup {a} /\ g[a] = metric[2]
        /\ \A n \in DOMAIN f : n # a /\ g[n] = f[n]
    BY <2>2
  <2> HIDE DEF g, a, q
  <2>8. Apart(g, r.names \cup G!Exposed(a, metric[2]))
    <3>1. \A n \in DOMAIN f : G!Exposed(n, f[n]) \subseteq r.names
      BY DEF Apart
    <3>2. ASSUME NEW n \in DOMAIN g, NEW o \in DOMAIN g, n # o
          PROVE  G!Exposed(n, g[n]) \cap G!Exposed(o, g[o]) = {}
      <4>1. CASE n \in DOMAIN f /\ o \in DOMAIN f
        BY <2>7, <3>2, <4>1 DEF Apart
      <4>2. CASE n = a /\ o \in DOMAIN f
        BY <2>2, <2>7, <3>1, <4>2
      <4>3. CASE o = a /\ n \in DOMAIN f
        BY <2>2, <2>7, <3>1, <4>3
      <4> QED BY <2>7, <3>2, <4>1, <4>2, <4>3
    <3>3. ASSUME NEW n \in DOMAIN g
          PROVE  G!Exposed(n, g[n]) \subseteq r.names \cup G!Exposed(a, metric[2])
      BY <2>7, <3>1
    <3> QED BY <3>2, <3>3 DEF Apart
  <2>9. Within(f, g) /\ Has(g, metric)
    BY <2>7 DEF Within, Has, a
  <2> QED BY <1>2, <2>1, <2>6, <2>8, <2>9 DEF q
<1> QED BY <1>1, <1>2

(* A list, up to where it fails or to its end.                              *)
LEMMA ListIs ==
  ASSUME RegistryInv, NEW list \in MetricLists, G!RegisterList(list)
  PROVE  RegistryInv' /\ Within(metrics, metrics')
<1> DEFINE n == Len(list)
           base == [metrics |-> metrics, names |-> expositionNames, thrown |-> FALSE]
           Step == [p \in Registries \X (1..n) |-> G!Register(p[1], list[p[2]])]
           r == CHOOSE g : g = [i \in 0..n |-> IF i = 0 THEN base ELSE G!Register(g[i - 1], list[i])]
<1>1. list \in Seq(STRING \X Kinds)
  BY ExportAssumption DEF Kinds
<1>2. n \in Nat /\ (\A i \in 1..n : list[i] \in STRING \X Kinds) /\ DOMAIN list = 1..n
  BY <1>1
<1>3. base \in Registries /\ Apart(base.metrics, base.names)
  BY DEF RegistryInv
<1> DEFINE Sane == {q \in Registries : Apart(q.metrics, q.names)}
           Onward == [p \in Sane \X (1..n) |-> G!Register(p[1], list[p[2]])]
<1> HIDE DEF n, base
<1>4. \A q \in Sane, i \in 1..n :
        /\ G!Register(q, list[i]) \in Sane
        /\ Within(q.metrics, G!Register(q, list[i]).metrics)
        /\ ~G!Register(q, list[i]).thrown => ~q.thrown /\ Has(G!Register(q, list[i]).metrics, list[i])
  <2> SUFFICES ASSUME NEW q \in Sane, NEW i \in 1..n
               PROVE  /\ G!Register(q, list[i]) \in Sane
                      /\ Within(q.metrics, G!Register(q, list[i]).metrics)
                      /\ ~G!Register(q, list[i]).thrown => ~q.thrown /\ Has(G!Register(q, list[i]).metrics, list[i])
    OBVIOUS
  <2>1. list[i] \in STRING \X Kinds
    BY <1>2
  <2> QED BY <2>1, RegisterIs
<1>5. Onward \in [Sane \X (1..n) -> Sane] /\ base \in Sane
  BY <1>3, <1>4
<1> HIDE DEF Sane
<1>6. PICK g : Recurs(g, n, Sane, base, Onward)
  <2> HIDE DEF Onward
  <2> QED BY <1>2, <1>5, Recursion
<1>7. ASSUME NEW i \in 0..n PROVE g[i] = IF i = 0 THEN base ELSE G!Register(g[i - 1], list[i])
  <2>1. CASE i = 0
    BY <1>6, <2>1 DEF Recurs
  <2>2. CASE i # 0
    <3>1. i \in 1..n /\ i - 1 \in 0..n
      BY <1>2, <2>2
    <3>2. g[i - 1] \in Sane /\ g[i] = Onward[<<g[i - 1], i>>]
      BY <1>6, <3>1 DEF Recurs
    <3> QED BY <2>2, <3>1, <3>2
  <2> QED BY <2>1, <2>2
<1>8. g = [i \in 0..n |-> IF i = 0 THEN base ELSE G!Register(g[i - 1], list[i])]
  BY <1>6, <1>7 DEF Recurs
<1>9. r = [i \in 0..n |-> IF i = 0 THEN base ELSE G!Register(r[i - 1], list[i])]
  BY ONLY <1>8
<1>10. /\ metrics' = r[n].metrics /\ expositionNames' = r[n].names
       /\ complete' = IF r[n].thrown THEN complete ELSE complete \cup {list}
  BY DEF G!RegisterList, n, base
<1> HIDE DEF r, Onward
<1>11. \A i \in 0..n : r[i] = IF i = 0 THEN base ELSE G!Register(r[i - 1], list[i])
  BY <1>9, Zenon
<1> DEFINE Good(i) == /\ r[i] \in Sane /\ Within(metrics, r[i].metrics)
                      /\ ~r[i].thrown => \A j \in 1..i : Has(r[i].metrics, list[j])
           T == {i \in Nat : i <= n => Good(i)}
<1>12. 0 \in T
  <2>1. r[0] = base
    BY <1>2, <1>11
  <2>2. Within(metrics, base.metrics)
    BY DEF Within, base
  <2> QED BY <1>5, <2>1, <2>2
<1>13. ASSUME NEW i \in T PROVE i + 1 \in T
  <2> SUFFICES ASSUME i + 1 <= n PROVE Good(i + 1)
    OBVIOUS
  <2>1. i \in Nat /\ i + 1 \in 1..n /\ i + 1 - 1 = i /\ i + 1 \in 0..n /\ i + 1 # 0 /\ i <= n
    BY <1>2
  <2>2. r[i + 1] = G!Register(r[i], list[i + 1])
    BY <1>11, <2>1
  <2>3. Good(i)
    BY <2>1
  <2>4. /\ r[i + 1] \in Sane /\ Within(r[i].metrics, r[i + 1].metrics)
        /\ ~r[i + 1].thrown => ~r[i].thrown /\ Has(r[i + 1].metrics, list[i + 1])
    BY <1>4, <2>1, <2>2, <2>3
  <2>5. Within(metrics, r[i + 1].metrics)
    BY <2>3, <2>4 DEF Within
  <2>6. ASSUME ~r[i + 1].thrown, NEW j \in 1..(i + 1) PROVE Has(r[i + 1].metrics, list[j])
    <3>1. CASE j = i + 1
      BY <2>4, <2>6, <3>1
    <3>2. CASE j # i + 1
      <4>1. j \in 1..i
        BY <2>1, <3>2
      <4> QED BY <2>3, <2>4, <2>6, <4>1 DEF Has, Within
    <3> QED BY <3>1, <3>2
  <2> QED BY <2>4, <2>5, <2>6
<1>14. Good(n)
  <2>1. T = Nat
    <3> T \in SUBSET Nat OBVIOUS
    <3> HIDE DEF T
    <3> QED BY <1>12, <1>13, Induct
  <2> QED BY <1>2, <2>1
<1>15. [metrics |-> metrics', names |-> expositionNames', thrown |-> FALSE] \in Registries
  BY <1>10, <1>14 DEF Sane, Registries
<1>16. Apart(metrics', expositionNames') /\ Within(metrics, metrics')
  BY <1>10, <1>14 DEF Sane
<1>17. complete' \subseteq MetricLists
  BY <1>10 DEF RegistryInv
<1>18. ASSUME NEW other \in complete', NEW i \in DOMAIN other PROVE Has(metrics', other[i])
  <2>1. CASE other \in complete
    BY <1>16, <2>1 DEF RegistryInv, Has, Within
  <2>2. CASE other \notin complete
    <3>1. ~r[n].thrown /\ other = list
      BY <1>10, <2>2
    <3> QED BY <1>2, <1>10, <1>14, <3>1
  <2> QED BY <2>1, <2>2
<1>19. RegistryInv'
  <2>1. Apart(metrics, expositionNames)'
    BY <1>16 DEF Apart, G!Exposed
  <2>2. ([metrics |-> metrics, names |-> expositionNames, thrown |-> FALSE] \in Registries)'
    <3>1. Registries' = Registries
      OBVIOUS
    <3> QED BY <1>15, <3>1
  <2> QED BY <1>17, <1>18, <2>1, <2>2 DEF RegistryInv, Has
<1> QED BY <1>16, <1>19

LEMMA RegistryInit == Init => RegistryInv
<1> SUFFICES ASSUME Init PROVE RegistryInv
  OBVIOUS
<1>1. metrics = <<>> /\ expositionNames = {} /\ complete = {}
  BY DEF Init, G!Init
<1>2. <<>> \in Maps(STRING, Kinds)
  <2>1. <<>> \in [{} -> Kinds] /\ {} \in SUBSET STRING
    OBVIOUS
  <2> QED BY <2>1 DEF Maps
<1>3. DOMAIN <<>> = {}
  OBVIOUS
<1> QED BY <1>1, <1>2, <1>3 DEF RegistryInv, Registries, Apart

LEMMA RegistryNext == ASSUME RegistryInv, [Next]_vars PROVE RegistryInv'
<1>1. CASE UNCHANGED registryVars
  <2>1. metrics' = metrics /\ expositionNames' = expositionNames /\ complete' = complete
    BY <1>1 DEF registryVars
  <2>2. Registries' = Registries
    OBVIOUS
  <2> QED BY <2>1, <2>2 DEF RegistryInv, Apart, Has, G!Exposed
<1>2. CASE G!Next
  BY <1>2, ListIs DEF G!Next
<1> QED BY <1>1, <1>2, RegistryStep

(* The gauge, the counter and the buckets count in each series exactly the  *)
(* writes that are in it, no metric exposes more series than its limit, and *)
(* the caller gets the inner transport's answer, for any number of writes,  *)
(* any transports, buckets, clocks, metrics that throw and limit            *)
(* (src/prometheus.ts:159-209, 343-364, 697-745); and no two metrics expose *)
(* samples of one name, whatever lists of metrics are registered            *)
(* (387-507, 518-600).                                                      *)
THEOREM MetricsAlwaysTrue == Spec => []MetricsAreTrue
<1>1. SeriesInv /\ RegistryInv => MetricsAreTrue
  <2> SUFFICES ASSUME SeriesInv, RegistryInv PROVE MetricsAreTrue
    OBVIOUS
  <2>1. G!SamplesAreUnique
    BY DEF RegistryInv, Apart, Has, G!SamplesAreUnique
  <2> QED BY <2>1, SeriesInFlight, SeriesDurations, SeriesLimit, SeriesResults DEF MetricsAreTrue
<1>2. Init => SeriesInv /\ RegistryInv
  BY SeriesInit, RegistryInit
<1>3. SeriesInv /\ RegistryInv /\ [Next]_vars => SeriesInv' /\ RegistryInv'
  BY SeriesNext, RegistryNext
<1> QED BY <1>1, <1>2, <1>3, PTL DEF Spec
=============================================================================
