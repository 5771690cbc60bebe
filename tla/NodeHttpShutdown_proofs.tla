------------------------ MODULE NodeHttpShutdown_proofs ------------------------
(***************************************************************************)
(* Theorems about ShutdownCoordinator, for every number of requests, every *)
(* choice of throwing hooks, and with or without an observer that calls    *)
(* request() again; and about NodeHttpShutdown, which runs it, for any set *)
(* of servers and any number of requests and connections.                  *)
(*                                                                         *)
(* The argument for the coordinator is one inductive invariant, Inv: what  *)
(* each phase says of the hooks (PhaseSays), which hooks the history must  *)
(* hold (CallsMatch), and where the timer can be armed (TimerPlace). The   *)
(* argument for the servers is HttpInv: HttpPhases says what the fields of *)
(* the coordinator mean for the servers, ServersOK what the hooks left the *)
(* servers in.                                                             *)
(***************************************************************************)
EXTENDS NodeHttpShutdown, SequenceTheorems, TLAPS

Types ==
  /\ phase \in {"running", "draining", "forcing", "stopped"}
  /\ attempt \in Nat
  /\ forced \in BOOLEAN /\ timer \in BOOLEAN
  /\ finished \in BOOLEAN /\ completed \in BOOLEAN
  /\ drain \in HookStates /\ force \in HookStates /\ flush \in HookStates
  /\ observers \subseteq Events
  /\ reentered \in BOOLEAN

PhaseSays ==
  /\ phase = "running" <=> drain = "none" /\ force = "none"
  /\ phase = "draining" => drain # "none" /\ force = "none"
  /\ phase = "forcing" => force \in {"pending", "threw"}
  /\ forced <=> force # "none"
  /\ finished <=> phase = "stopped"
  /\ finished => IF forced THEN force \in {"done", "failed"} ELSE drain = "done"
  /\ flush # "none" => finished /\ observers = {}
  /\ completed => flush # "none"

(* Only a reentrant observer can leave a timer behind in the forced phase. *)
TimerPlace ==
  /\ phase = "draining" => timer
  /\ timer => phase = "draining" \/ (reentered /\ phase = "forcing")

(* The histories in which drain and force have been called, flush not yet. *)
Before ==
  IF drain = "none"
  THEN IF force = "none" THEN {<<>>} ELSE {<<"force">>}
  ELSE IF force = "none" THEN {<<"drain">>}
       ELSE {<<"drain", "force">>} \cup (IF reentered THEN {<<"force", "drain">>} ELSE {})

CallsMatch ==
  IF flush = "none"
  THEN calls \in Before
  ELSE \E b \in Before : calls = Append(b, "flush")

Inv == Types /\ PhaseSays /\ TimerPlace /\ CallsMatch

-----------------------------------------------------------------------------
(* Appending to a sequence of one element, and to a sequence of two. *)
LEMMA AppendPair ==
  ASSUME NEW S, NEW a \in S, NEW b \in S
  PROVE  Append(<<a>>, b) = <<a, b>>
<1>1. <<a>> \in Seq(S) /\ <<a, b>> \in Seq(S)
  OBVIOUS
<1>2. Append(<<a>>, b) \in Seq(S) /\ Len(Append(<<a>>, b)) = 2 /\ Len(<<a, b>>) = 2
  BY <1>1
<1>3. Append(<<a>>, b)[1] = a /\ Append(<<a>>, b)[2] = b
  BY <1>1, AppendProperties
<1>4. \A i \in 1..2 : Append(<<a>>, b)[i] = <<a, b>>[i]
  BY <1>3
<1> QED BY <1>1, <1>2, <1>4, SeqEqual

LEMMA AppendTriple ==
  ASSUME NEW S, NEW a \in S, NEW b \in S, NEW c \in S
  PROVE  Append(<<a, b>>, c) = <<a, b, c>>
<1>1. <<a, b>> \in Seq(S) /\ <<a, b, c>> \in Seq(S)
  OBVIOUS
<1>2. Append(<<a, b>>, c) \in Seq(S) /\ Len(Append(<<a, b>>, c)) = 3 /\ Len(<<a, b, c>>) = 3
  BY <1>1
<1>3. Append(<<a, b>>, c)[1] = a /\ Append(<<a, b>>, c)[2] = b /\ Append(<<a, b>>, c)[3] = c
  BY <1>1, AppendProperties
<1>4. \A i \in 1..3 : Append(<<a, b>>, c)[i] = <<a, b, c>>[i]
  BY <1>3
<1> QED BY <1>1, <1>2, <1>4, SeqEqual

Hooks == {"drain", "force", "flush"}

(* The histories that BeginDrain, BeginForce and a reentered request leave. *)
LEMMA Histories ==
  /\ Append(<<>>, "drain") = <<"drain">>
  /\ Append(<<>>, "force") = <<"force">>
  /\ Append(<<"drain">>, "force") = <<"drain", "force">>
  /\ <<>> \o <<"force", "drain">> = <<"force", "drain">>
<1>1. Append(<<>>, "drain") = <<"drain">> /\ Append(<<>>, "force") = <<"force">>
  OBVIOUS
<1>2. Append(<<"drain">>, "force") = <<"drain", "force">>
  <2>1. "drain" \in Hooks /\ "force" \in Hooks
    BY DEF Hooks
  <2> QED BY <2>1, AppendPair
<1>3. <<>> \o <<"force", "drain">> = <<"force", "drain">>
  OBVIOUS
<1> QED BY <1>1, <1>2, <1>3

(* The same with the flush that #finish appends last. *)
LEMMA FlushedHistories ==
  /\ Append(<<>>, "flush") = <<"flush">>
  /\ Append(<<"drain">>, "flush") = <<"drain", "flush">>
  /\ Append(<<"force">>, "flush") = <<"force", "flush">>
  /\ Append(<<"drain", "force">>, "flush") = <<"drain", "force", "flush">>
  /\ Append(<<"force", "drain">>, "flush") = <<"force", "drain", "flush">>
<1>0. "drain" \in Hooks /\ "force" \in Hooks /\ "flush" \in Hooks
  BY DEF Hooks
<1>1. Append(<<>>, "flush") = <<"flush">>
  OBVIOUS
<1>2. Append(<<"drain">>, "flush") = <<"drain", "flush">>
  BY <1>0, AppendPair
<1>3. Append(<<"force">>, "flush") = <<"force", "flush">>
  BY <1>0, AppendPair
<1>4. Append(<<"drain", "force">>, "flush") = <<"drain", "force", "flush">>
  BY <1>0, AppendTriple
<1>5. Append(<<"force", "drain">>, "flush") = <<"force", "drain", "flush">>
  BY <1>0, AppendTriple
<1> QED BY <1>1, <1>2, <1>3, <1>4, <1>5

(* Every history there can be, and what all of them have in common. *)
History ==
  {<<>>, <<"drain">>, <<"force">>, <<"drain", "force">>, <<"force", "drain">>,
   <<"drain", "flush">>, <<"force", "flush">>,
   <<"drain", "force", "flush">>, <<"force", "drain", "flush">>}

LEMMA HistoryFacts ==
  ASSUME NEW c \in History
  PROVE  /\ c \in Seq(Hooks)
         /\ Len(c) <= 3
         /\ \A i, j \in 1..Len(c) : c[i] = c[j] => i = j
         /\ \A i \in 1..Len(c) : c[i] = "flush" => i = Len(c)
<1>1. CASE c = <<>>
  BY <1>1 DEF Hooks
<1>2. CASE c = <<"drain">>
  BY <1>2 DEF Hooks
<1>3. CASE c = <<"force">>
  BY <1>3 DEF Hooks
<1>4. CASE c = <<"drain", "force">>
  BY <1>4 DEF Hooks
<1>5. CASE c = <<"force", "drain">>
  BY <1>5 DEF Hooks
<1>6. CASE c = <<"drain", "flush">>
  BY <1>6 DEF Hooks
<1>7. CASE c = <<"force", "flush">>
  BY <1>7 DEF Hooks
<1>8. CASE c = <<"drain", "force", "flush">>
  BY <1>8 DEF Hooks
<1>9. CASE c = <<"force", "drain", "flush">>
  BY <1>9 DEF Hooks
<1> QED BY <1>1, <1>2, <1>3, <1>4, <1>5, <1>6, <1>7, <1>8, <1>9 DEF History

(* The fresh coordinator satisfies the invariant. *)
LEMMA InitInv == Init => Inv
<1> SUFFICES ASSUME Init PROVE Inv
  OBVIOUS
<1>1. Types
  BY DEF Init, Types, HookStates, Events
<1>2. PhaseSays /\ TimerPlace
  BY DEF Init, PhaseSays, TimerPlace
<1>3. CallsMatch
  BY DEF Init, CallsMatch, Before
<1> QED BY <1>1, <1>2, <1>3 DEF Inv

(* #beginForce, from whichever of its callers: the drain's state may only   *)
(* move from pending to failed.                                             *)
LEMMA BeginForceInv ==
  ASSUME Inv, NEW events \in SUBSET Events, BeginForce(events), attempt' \in Nat,
         drain' = drain \/ (drain = "pending" /\ drain' = "failed")
  PROVE  Inv'
<1> USE DEF BeginForce, Transition, Returned
<1>1. observers' \subseteq Events
  BY DEF Inv, Types, Events
<1>2. Types'
  BY <1>1 DEF Inv, Types, HookStates
<1>3. PhaseSays' /\ TimerPlace'
  BY DEF Inv, Types, PhaseSays, TimerPlace
<1>4. CallsMatch'
  BY Histories DEF Inv, Types, PhaseSays, CallsMatch, Before
<1> QED BY <1>2, <1>3, <1>4 DEF Inv

(* Each turn of the coordinator preserves the invariant. *)
LEMMA NextInv == Inv /\ [Next]_vars => Inv'
<1> SUFFICES ASSUME Inv, [Next]_vars PROVE Inv'
  OBVIOUS
<1> USE DEF Inv
<1>1. ASSUME NEW force_ \in BOOLEAN, Request(force_) PROVE Inv'
  <2> USE <1>1 DEF Request
  <2>1. CASE phase = "running" /\ ~force_
    <3>0. BeginDrain /\ attempt' = attempt + 1
      BY <2>1
    <3> USE <3>0 DEF BeginDrain, Transition, Returned
    <3>1. Types'
      BY DEF Types, HookStates, Events
    <3>2. PhaseSays' /\ TimerPlace'
      BY DEF Types, PhaseSays, TimerPlace
    <3>3. CallsMatch'
      BY Histories DEF Types, PhaseSays, CallsMatch, Before
    <3> QED BY <3>1, <3>2, <3>3
  <2>2. CASE ~(phase = "running" /\ ~force_) /\ phase \in {"running", "draining"}
    <3>1. BeginForce({}) /\ UNCHANGED drain /\ attempt' \in Nat
      BY <2>2 DEF Types
    <3> QED BY <3>1, BeginForceInv
  <2>3. CASE phase \notin {"running", "draining"}
    BY <2>3 DEF Types, PhaseSays, TimerPlace, CallsMatch, Before
  <2> QED BY <2>1, <2>2, <2>3
<1>2. ASSUME ReenteredRequest PROVE Inv'
  <2> USE <1>2 DEF ReenteredRequest, Transition, Returned
  <2>1. Types'
    BY DEF Types, HookStates, Events
  <2>2. PhaseSays' /\ TimerPlace'
    BY DEF Types, PhaseSays, TimerPlace
  <2>3. CallsMatch'
    BY Histories DEF Types, PhaseSays, CallsMatch, Before
  <2> QED BY <2>1, <2>2, <2>3
<1>3. ASSUME TimerFires PROVE Inv'
  <2>1. CASE phase = "draining"
    <3>1. BeginForce({}) /\ UNCHANGED drain /\ attempt' \in Nat
      BY <1>3, <2>1 DEF TimerFires, Types
    <3> QED BY <3>1, BeginForceInv
  <2>2. CASE phase # "draining"
    <3>0. /\ attempt' \in Nat /\ timer' = FALSE
          /\ UNCHANGED <<phase, forced, finished, drain, force, flush, observers, completed, calls,
                        reentered>>
      BY <1>3, <2>2 DEF TimerFires, Types
    <3>1. Types' /\ PhaseSays' /\ TimerPlace'
      BY <2>2, <3>0 DEF Types, PhaseSays, TimerPlace
    <3>2. CallsMatch'
      BY <3>0 DEF CallsMatch, Before
    <3> QED BY <3>1, <3>2
  <2> QED BY <2>1, <2>2
<1>4. ASSUME DrainResolves PROVE Inv'
  <2> USE <1>4 DEF DrainResolves, Finish, Transition
  <2>0. observers' \subseteq Events /\ drain' \in HookStates
    BY DEF Types, HookStates, Events
  <2>1. Types'
    BY <2>0 DEF Types
  <2>2. PhaseSays' /\ TimerPlace'
    BY DEF Types, PhaseSays, TimerPlace
  <2>3. CallsMatch'
    BY DEF CallsMatch, Before
  <2> QED BY <2>1, <2>2, <2>3
<1>5. ASSUME DrainRejects PROVE Inv'
  <2>1. CASE phase = "draining"
    <3>1. BeginForce({"drain-error"}) /\ drain = "pending" /\ drain' = "failed" /\ attempt' \in Nat
      BY <1>5, <2>1 DEF DrainRejects, Types
    <3>2. {"drain-error"} \in SUBSET Events
      BY DEF Events
    <3> QED BY <3>1, <3>2, BeginForceInv
  <2>2. CASE phase # "draining"
    BY <1>5, <2>2 DEF DrainRejects, Types, HookStates, PhaseSays, TimerPlace, CallsMatch, Before
  <2> QED BY <2>1, <2>2
<1>6. ASSUME ForceSettles PROVE Inv'
  <2> USE <1>6 DEF ForceSettles, Finish, Transition
  <2>1. Types'
    BY DEF Types, HookStates, Events
  <2>2. PhaseSays' /\ TimerPlace'
    BY DEF Types, PhaseSays, TimerPlace
  <2>3. CallsMatch'
    BY DEF CallsMatch, Before
  <2> QED BY <2>1, <2>2, <2>3
<1>7. ASSUME ObserverSettles PROVE Inv'
  BY <1>7 DEF ObserverSettles, Types, PhaseSays, TimerPlace, CallsMatch, Before
<1>8. ASSUME StartFlush PROVE Inv'
  <2> USE <1>8 DEF StartFlush
  <2>1. Types' /\ PhaseSays' /\ TimerPlace'
    BY DEF Types, PhaseSays, TimerPlace, HookStates
  <2>2. CallsMatch'
    BY DEF CallsMatch, Before
  <2> QED BY <2>1, <2>2
<1>9. ASSUME FlushSettles PROVE Inv'
  BY <1>9 DEF FlushSettles, Types, PhaseSays, TimerPlace, CallsMatch, Before, HookStates
<1>10. CASE UNCHANGED vars
  BY <1>10 DEF vars, Types, PhaseSays, TimerPlace, CallsMatch, Before
<1> QED
  BY <1>1, <1>2, <1>3, <1>4, <1>5, <1>6, <1>7, <1>8, <1>9, <1>10 DEF Next

(* The invariant holds in every reachable state. *)
THEOREM Invariance == Spec => []Inv
BY InitInv, NextInv, PTL DEF Spec

-----------------------------------------------------------------------------
(* The coordinator's state keeps its types and calls at most three hooks.   *)
THEOREM TypeCorrect == Spec => []TypeOK
<1>1. Inv => TypeOK
  <2> SUFFICES ASSUME Inv PROVE TypeOK
    OBVIOUS
  <2>1. calls \in History
    BY FlushedHistories DEF Inv, Types, PhaseSays, CallsMatch, Before, History
  <2>2. calls \in Seq({"drain", "force", "flush"}) /\ Len(calls) <= 3
    BY <2>1, HistoryFacts DEF Hooks
  <2> QED BY <2>2 DEF Inv, Types, TypeOK
<1> QED BY <1>1, Invariance, PTL

(* 224-271: flush runs after the work it follows and after every observer.  *)
THEOREM FlushIsLast == Spec => []FlushAfterWork
<1>1. Inv => FlushAfterWork
  BY DEF Inv, PhaseSays, FlushAfterWork
<1> QED BY <1>1, Invariance, PTL

(* 202-240: drain, force and flush run at most once each and flush last;    *)
(* unless an observer called request() from #beginDrain, drain runs before  *)
(* force before flush.                                                      *)
THEOREM HooksOrdered == Spec => []HooksInOrder
<1>1. Inv => HooksInOrder
  <2> SUFFICES ASSUME Inv PROVE HooksInOrder
    OBVIOUS
  <2>1. calls \in History
    BY FlushedHistories DEF Inv, Types, PhaseSays, CallsMatch, Before, History
  <2>2. /\ \A i, j \in 1..Len(calls) : calls[i] = calls[j] => i = j
        /\ \A i \in 1..Len(calls) : calls[i] = "flush" => i = Len(calls)
    BY <2>1, HistoryFacts
  <2>3. ~reentered =>
          calls \in {<<>>, <<"drain">>, <<"force">>, <<"drain", "force">>,
                    <<"drain", "flush">>, <<"force", "flush">>, <<"drain", "force", "flush">>}
    BY FlushedHistories DEF Inv, Types, PhaseSays, CallsMatch, Before
  <2> QED BY <2>2, <2>3 DEF HooksInOrder
<1> QED BY <1>1, Invariance, PTL

(* 205-207, 242-252: the grace timer is armed exactly while draining, and   *)
(* no timer survives the coordinator, not even the one a re-entrant         *)
(* observer makes #beginDrain arm inside the forced phase.                  *)
THEOREM TimerExact == Spec => []TimerGuardsDrain
<1>1. Inv => TimerGuardsDrain
  <2>1. Inv => (finished => ~timer)
    BY DEF Inv, PhaseSays, TimerPlace
  <2>2. Inv => (~reentered => (timer <=> phase = "draining"))
    BY DEF Inv, Types, TimerPlace
  <2> QED BY <2>1, <2>2 DEF TimerGuardsDrain
<1> QED BY <1>1, Invariance, PTL

(* What the runs check as one property: the three theorems above together. *)
THEOREM PhasesAlwaysKept == Spec => []PhasesKept
<1>1. HooksInOrder /\ FlushAfterWork /\ TimerGuardsDrain => PhasesKept
  BY DEF PhasesKept
<1> QED BY <1>1, HooksOrdered, FlushIsLast, TimerExact, PTL

-----------------------------------------------------------------------------
(* The coordinator implements the two-phase contract: each of its turns is  *)
(* a step of TwoPhaseShutdown or changes none of phase, forced, completed.  *)
THEOREM Refinement == Spec => TwoPhase
<1>1. Init => Abstract!Init
  BY DEF Init, Abstract!Init
<1>2. Inv /\ [Next]_vars => [Abstract!Next]_(Abstract!vars)
  <2> SUFFICES ASSUME Inv, [Next]_vars PROVE [Abstract!Next]_(Abstract!vars)
    OBVIOUS
  <2> USE DEF Abstract!Next, Abstract!vars
  <2>1. ASSUME NEW force_ \in BOOLEAN, Request(force_) PROVE [Abstract!Next]_(Abstract!vars)
    BY <2>1 DEF Request, BeginDrain, BeginForce, Transition, Abstract!BeginDrain, Abstract!BeginForce
  <2>2. ASSUME ReenteredRequest PROVE Abstract!Next
    BY <2>2 DEF ReenteredRequest, Transition, Abstract!BeginForce
  <2>3. ASSUME TimerFires PROVE [Abstract!Next]_(Abstract!vars)
    BY <2>3 DEF TimerFires, BeginForce, Transition, Abstract!BeginForce
  <2>4. ASSUME DrainResolves PROVE [Abstract!Next]_(Abstract!vars)
    BY <2>4 DEF DrainResolves, Finish, Transition, Inv, Types, Abstract!Stop
  <2>5. ASSUME DrainRejects PROVE [Abstract!Next]_(Abstract!vars)
    BY <2>5 DEF DrainRejects, BeginForce, Transition, Abstract!BeginForce
  <2>6. ASSUME ForceSettles PROVE [Abstract!Next]_(Abstract!vars)
    <3>1. phase = "forcing"
      BY <2>6 DEF ForceSettles, Inv, Types, PhaseSays
    <3> QED BY <2>6, <3>1 DEF ForceSettles, Finish, Transition, Inv, Types, Abstract!Stop
  <2>7. ASSUME ObserverSettles \/ StartFlush PROVE UNCHANGED <<phase, forced, completed>>
    BY <2>7 DEF ObserverSettles, StartFlush
  <2>8. ASSUME FlushSettles PROVE [Abstract!Next]_(Abstract!vars)
    BY <2>8 DEF FlushSettles, Inv, Types, PhaseSays, Abstract!Complete
  <2>9. CASE UNCHANGED vars
    BY <2>9 DEF vars
  <2> QED
    BY <2>1, <2>2, <2>3, <2>4, <2>5, <2>6, <2>7, <2>8, <2>9 DEF Next
<1> QED BY <1>1, <1>2, Invariance, PTL DEF Spec, TwoPhase, Abstract!Spec

-----------------------------------------------------------------------------
(* Whatever the servers and the signals do, the coordinator they share goes *)
(* through one of its own steps or none, so that what is proved of the      *)
(* coordinator alone holds of it here (93-189).                             *)
LEMMA Composition == HttpSpec => Spec
<1>1. HttpInit => Init
  BY DEF HttpInit
<1>2. [HttpNext]_httpVars => [Next]_(vars)
  <2> SUFFICES ASSUME [HttpNext]_httpVars PROVE [Next]_(vars)
    OBVIOUS
  <2>0. UNCHANGED coordinator => UNCHANGED vars
    BY DEF coordinator
  <2>1. CASE Signal \/ StdinEnd
    <3>1. \E force_ \in BOOLEAN : Request(force_)
      BY <2>1 DEF Signal, StdinEnd
    <3> QED BY <3>1 DEF Next
  <2>2. ASSUME NEW force_ \in BOOLEAN, HandleRequest(force_) PROVE Next
    BY <2>2 DEF HandleRequest, Next
  <2>3. CASE DeadlineFires \/ ServersDrain \/ ServerFails \/ Continues
    BY <2>3 DEF DeadlineFires, ServersDrain, ServerFails, Continues, Next
  <2>4. CASE Dispose
    BY <2>4, <2>0 DEF Dispose
  <2>5. ASSUME NEW s \in Servers, Connect(s) \/ ConnectionEnds(s) \/ CloseCallback(s)
        PROVE  UNCHANGED vars
    BY <2>5, <2>0 DEF Connect, ConnectionEnds, CloseCallback
  <2>6. CASE UNCHANGED httpVars
    BY <2>6, <2>0 DEF httpVars
  <2> QED BY <2>1, <2>2, <2>3, <2>4, <2>5, <2>6 DEF HttpNext
<1> QED BY <1>1, <1>2, PTL DEF HttpSpec, Spec

-----------------------------------------------------------------------------
HttpTypes ==
  /\ phase \in {"running", "draining", "forcing", "stopped"}
  /\ attempt \in Nat /\ forced \in BOOLEAN /\ finished \in BOOLEAN
  /\ drain \in {"none", "pending", "done", "failed"}
  /\ force \in {"none", "pending", "done", "failed"}
  /\ listening \subseteq Servers
  /\ open \in [Servers -> Nat]
  /\ callbacks \in [Servers -> {"none", "due", "ok", "error"}]
  /\ forceAsked \in BOOLEAN

HttpPhases ==
  /\ forced <=> force # "none"
  /\ finished <=> phase = "stopped"
  /\ phase = "running" => drain = "none" /\ ~forced
  /\ phase = "draining" => drain = "pending" /\ ~forced /\ attempt >= 1
  /\ phase = "forcing" => forced
  /\ phase = "stopped" /\ ~forced => drain = "done"
  /\ forced /\ ~forceAsked /\ drain # "failed" => attempt >= 2

ServersOK ==
  /\ drain # "none" \/ forced => listening = {}
  /\ forced => \A s \in Servers : open[s] = 0
  /\ ~forced => cut = 0
  /\ drain = "done" => \A s \in Servers : callbacks[s] = "ok"
  /\ \A s \in Servers : callbacks[s] # "none" => drain # "none"
  /\ \A s \in Servers : callbacks[s] = "ok" => open[s] = 0

HttpInv == HttpHooks /\ HttpTypes /\ HttpPhases /\ ServersOK

LEMMA HttpInitInv == HttpInit => HttpInv
<1> SUFFICES ASSUME HttpInit PROVE HttpInv
  OBVIOUS
<1>1. HttpTypes
  <2>1. listening \subseteq Servers /\ open \in [Servers -> Nat]
    BY DEF HttpInit
  <2>2. callbacks \in [Servers -> {"none", "due", "ok", "error"}]
    BY DEF HttpInit
  <2> QED BY <2>1, <2>2 DEF HttpInit, Init, HttpTypes
<1>2. HttpPhases /\ ServersOK
  BY DEF HttpInit, Init, HttpPhases, ServersOK
<1> QED BY <1>1, <1>2 DEF HttpInit, HttpInv

(* What the drain hook and the force hook do to the servers. *)
LEMMA Closing ==
  ASSUME HttpTypes, CloseServers
  PROVE  /\ listening' = {} /\ open' = open /\ cut' = cut
         /\ callbacks' \in [Servers -> {"due", "error"}]
BY DEF HttpTypes, CloseServers

LEMMA Cutting ==
  ASSUME HttpTypes, CutConnections
  PROVE  /\ listening' = {} /\ callbacks' = callbacks
         /\ open' \in [Servers -> {0}]
BY DEF HttpTypes, CutConnections

(* The two ways into a phase, with the hook that each calls. *)
LEMMA DrainStep ==
  ASSUME HttpInv, BeginDrain, RunHooks, attempt' = attempt + 1, forceAsked' \in BOOLEAN
  PROVE  HttpInv'
<1>1. /\ phase = "running" /\ phase' = "draining" /\ drain = "none" /\ drain' = "pending"
      /\ ~forced /\ UNCHANGED <<forced, force, finished>>
  BY DEF BeginDrain, Transition, Returned, HttpHooks, HttpInv, HttpPhases
<1>2. CloseServers
  BY <1>1 DEF RunHooks
<1>3. HttpTypes'
  BY <1>1, <1>2, Closing DEF HttpInv, HttpTypes
<1>4. HttpPhases'
  BY <1>1 DEF HttpInv, HttpTypes, HttpPhases
<1>5. ServersOK'
  BY <1>1, <1>2, Closing DEF HttpInv, ServersOK
<1> QED BY <1>3, <1>4, <1>5 DEF HttpInv

LEMMA ForceStep ==
  ASSUME HttpInv, NEW events, BeginForce(events), RunHooks,
         drain' \in {drain, "failed"}, attempt' \in {attempt, attempt + 1},
         forceAsked' \in BOOLEAN,
         forceAsked' \/ drain' = "failed" \/ (phase = "draining" /\ attempt' = attempt + 1)
  PROVE  HttpInv'
<1>1. /\ phase \in {"running", "draining"} /\ phase' = "forcing" /\ forced' = TRUE
      /\ force = "none" /\ force' = "pending" /\ finished' = finished /\ ~finished
  BY DEF BeginForce, Transition, Returned, HttpHooks, HttpInv, HttpPhases, HttpTypes
<1>2. CutConnections
  BY <1>1 DEF RunHooks, HttpInv, HttpTypes
<1>3. HttpTypes'
  BY <1>1, <1>2, Cutting DEF HttpInv, HttpTypes
<1>4. HttpPhases'
  BY <1>1 DEF HttpInv, HttpTypes, HttpPhases
<1>5. ServersOK'
  BY <1>1, <1>2, Cutting DEF HttpInv, HttpTypes, HttpPhases, ServersOK
<1> QED BY <1>3, <1>4, <1>5 DEF HttpInv

(* A step that leaves the phase, the hooks and the servers alone. *)
LEMMA QuietStep ==
  ASSUME HttpInv, UNCHANGED <<phase, forced, finished, drain, force, serverVars>>,
         attempt' \in {attempt, attempt + 1}, forceAsked' \in BOOLEAN,
         forceAsked => forceAsked'
  PROVE  HttpInv'
BY DEF HttpInv, HttpTypes, HttpPhases, ServersOK, serverVars

(* A request, which forces only what drains or what it was told to force. *)
LEMMA RequestStep ==
  ASSUME HttpInv, NEW force_ \in BOOLEAN, Request(force_), RunHooks,
         forceAsked' \in BOOLEAN, forceAsked => forceAsked',
         force_ => forceAsked' \/ phase = "draining"
  PROVE  HttpInv'
<1>1. CASE phase = "running" /\ ~force_
  BY <1>1, DrainStep DEF Request
<1>2. CASE (phase = "running" /\ force_) \/ phase = "draining"
  <2>1. BeginForce({}) /\ drain' = drain /\ attempt' = attempt + 1
    BY <1>2 DEF Request
  <2> QED BY <1>2, <2>1, ForceStep
<1>3. CASE phase \notin {"running", "draining"}
  <2>1. UNCHANGED <<phase, forced, finished, drain, force>> /\ attempt' = attempt + 1
    BY <1>3 DEF Request
  <2>2. UNCHANGED serverVars
    BY <2>1 DEF RunHooks
  <2> QED BY <2>1, <2>2, QuietStep
<1> QED BY <1>1, <1>2, <1>3

LEMMA ContinuesStep == ASSUME HttpInv, Continues PROVE HttpInv'
<1>1. UNCHANGED serverVars /\ forceAsked' = forceAsked
  BY DEF Continues, signalVars
<1>2. CASE ForceSettles
  <2>1. /\ force = "pending" /\ force' \in {"done", "failed"} /\ phase' = "stopped"
        /\ finished' = TRUE /\ UNCHANGED <<attempt, forced, drain>>
    BY <1>2 DEF ForceSettles, Finish, Transition
  <2> QED BY <1>1, <2>1 DEF HttpInv, HttpTypes, HttpPhases, ServersOK, serverVars
<1>3. CASE ObserverSettles \/ StartFlush \/ FlushSettles
  <2>1. UNCHANGED <<phase, forced, finished, drain, force, attempt>>
    BY <1>3 DEF ObserverSettles, StartFlush, FlushSettles
  <2> QED BY <1>1, <2>1, QuietStep DEF HttpInv, HttpTypes
<1> QED BY <1>2, <1>3 DEF Continues

LEMMA TimerStep == ASSUME HttpInv, DeadlineFires PROVE HttpInv'
<1>1. TimerFires /\ RunHooks /\ forceAsked' = forceAsked
  BY DEF DeadlineFires, signalVars
<1>2. CASE phase = "draining"
  <2>1. BeginForce({}) /\ drain' = drain /\ attempt' = attempt + 1
    BY <1>1, <1>2 DEF TimerFires
  <2> QED BY <1>1, <1>2, <2>1, ForceStep DEF HttpInv, HttpTypes
<1>3. CASE phase # "draining"
  <2>1. UNCHANGED <<phase, forced, finished, drain, force>> /\ attempt' = attempt + 1
    BY <1>1, <1>3 DEF TimerFires
  <2>2. UNCHANGED serverVars
    BY <1>1, <2>1 DEF RunHooks
  <2> QED BY <1>1, <2>1, <2>2, QuietStep DEF HttpInv, HttpTypes
<1> QED BY <1>2, <1>3

LEMMA DrainedStep == ASSUME HttpInv, ServersDrain PROVE HttpInv'
<1>1. /\ UNCHANGED serverVars /\ UNCHANGED <<forceAsked, attempt, forced, force>>
      /\ drain = "pending" /\ drain' = "done" /\ \A s \in Servers : callbacks[s] = "ok"
  BY DEF ServersDrain, DrainResolves, signalVars
<1>2. /\ phase = "draining" => phase' = "stopped" /\ finished' = TRUE
      /\ phase # "draining" => UNCHANGED <<phase, finished>>
  BY DEF ServersDrain, DrainResolves, Finish, Transition
<1>3. UNCHANGED <<listening, open, callbacks, cut>>
  BY <1>1 DEF serverVars
<1>4. HttpTypes' /\ HttpPhases'
  <2>1. CASE phase = "draining"
    BY <1>1, <1>2, <1>3, <2>1 DEF HttpInv, HttpTypes, HttpPhases
  <2>2. CASE phase # "draining"
    BY <1>1, <1>2, <1>3, <2>2 DEF HttpInv, HttpTypes, HttpPhases
  <2> QED BY <2>1, <2>2
<1>5. ServersOK'
  BY <1>1, <1>3 DEF HttpInv, ServersOK
<1> QED BY <1>4, <1>5 DEF HttpInv

LEMMA RejectedStep == ASSUME HttpInv, ServerFails PROVE HttpInv'
<1>1. /\ DrainRejects /\ RunHooks /\ forceAsked' = forceAsked
      /\ drain = "pending" /\ drain' = "failed" /\ attempt' = attempt
  BY DEF ServerFails, DrainRejects, signalVars
<1>2. CASE phase = "draining"
  <2>1. BeginForce({"drain-error"})
    BY <1>1, <1>2 DEF DrainRejects
  <2> QED BY <1>1, <2>1, ForceStep DEF HttpInv, HttpTypes
<1>3. CASE phase # "draining"
  <2>1. UNCHANGED <<phase, forced, finished, force>>
    BY <1>1, <1>3 DEF DrainRejects
  <2>2. UNCHANGED serverVars
    BY <1>1, <2>1 DEF RunHooks
  <2>3. UNCHANGED <<listening, open, callbacks, cut>>
    BY <2>2 DEF serverVars
  <2>4. HttpTypes' /\ HttpPhases'
    BY <1>1, <1>3, <2>1, <2>3 DEF HttpInv, HttpTypes, HttpPhases
  <2>5. ServersOK'
    BY <1>1, <2>1, <2>3 DEF HttpInv, ServersOK
  <2> QED BY <2>4, <2>5 DEF HttpInv
<1> QED BY <1>2, <1>3

LEMMA ServerStep ==
  ASSUME HttpInv, NEW s \in Servers, Connect(s) \/ ConnectionEnds(s) \/ CloseCallback(s)
  PROVE  HttpInv'
<1>1. UNCHANGED <<phase, attempt, forced, finished, drain, force, forceAsked, cut, listening>>
  BY DEF Connect, ConnectionEnds, CloseCallback, coordinator, vars, signalVars
<1>2. CASE Connect(s)
  <2>1. s \in listening /\ open' = [open EXCEPT ![s] = @ + 1] /\ callbacks' = callbacks
    BY <1>2 DEF Connect
  <2> QED BY <1>1, <2>1 DEF HttpInv, HttpTypes, HttpPhases, ServersOK
<1>3. CASE ConnectionEnds(s)
  <2>1. open[s] > 0 /\ open' = [open EXCEPT ![s] = @ - 1] /\ callbacks' = callbacks
    BY <1>3 DEF ConnectionEnds
  <2> QED BY <1>1, <2>1 DEF HttpInv, HttpTypes, HttpPhases, ServersOK
<1>4. CASE CloseCallback(s)
  <2>1. /\ callbacks[s] = "due" /\ open[s] = 0 /\ open' = open
        /\ callbacks' = [callbacks EXCEPT ![s] = "ok"]
    BY <1>4 DEF CloseCallback
  <2> QED BY <1>1, <2>1 DEF HttpInv, HttpTypes, HttpPhases, ServersOK
<1> QED BY <1>2, <1>3, <1>4

LEMMA HttpInvariance == HttpSpec => []HttpInv
<1>1. HttpInv /\ [HttpNext]_httpVars => HttpInv'
  <2> SUFFICES ASSUME HttpInv, [HttpNext]_httpVars PROVE HttpInv'
    OBVIOUS
  <2>1. CASE Signal \/ StdinEnd
    <3>1. (phase = "draining") \in BOOLEAN /\ Request(phase = "draining") /\ RunHooks
          /\ forceAsked' = forceAsked
      BY <2>1 DEF Signal, StdinEnd, signalVars
    <3> QED BY <3>1, RequestStep DEF HttpInv, HttpTypes
  <2>2. ASSUME NEW force_ \in BOOLEAN, HandleRequest(force_) PROVE HttpInv'
    <3>1. Request(force_) /\ RunHooks /\ forceAsked' = (forceAsked \/ force_)
      BY <2>2 DEF HandleRequest
    <3> QED BY <3>1, RequestStep DEF HttpInv, HttpTypes
  <2>3. CASE Dispose
    BY <2>3, QuietStep DEF Dispose, coordinator, vars, HttpInv, HttpTypes
  <2>4. CASE UNCHANGED httpVars
    BY <2>4, QuietStep DEF httpVars, coordinator, vars, signalVars, HttpInv, HttpTypes
  <2> QED BY <2>1, <2>2, <2>3, <2>4, TimerStep, DrainedStep, RejectedStep, ContinuesStep,
             ServerStep DEF HttpNext
<1> QED BY <1>1, HttpInitInv, PTL DEF HttpSpec

(* 163-189: a drain cuts nobody, the forced phase leaves no connection and  *)
(* admits none, and one terminating event does not force.                   *)
THEOREM OnlyForceEverCuts == HttpSpec => []OnlyForceCuts
<1>1. HttpInv => OnlyForceCuts
  BY DEF HttpInv, HttpTypes, HttpPhases, ServersOK, OnlyForceCuts
<1> QED BY <1>1, HttpInvariance, PTL
=============================================================================
