------------------------------ MODULE LogContext ------------------------------
(***************************************************************************)
(* The ambient log context of src/context-shared.ts, with the execution    *)
(* context of src/execution-context-shared.ts on top of it: callbacks run  *)
(* in a frame, suspend and resume in any order, and update, capture and    *)
(* re-enter frames. A frame is an object that everything running in it     *)
(* shares; run() gives each callback a fresh one, so callback and frame    *)
(* have one name. Where async flows are tracked the store is the frame of  *)
(* the callback itself; else it is the single variable that run() saves    *)
(* and restores (36-57).                                                   *)
(*                                                                         *)
(* A context keeps what the two merges treat differently: traceId and      *)
(* traceIds (tags are merged like them); fields, for every block merged     *)
(* key by key (loggedInUser, baggage); and spanId, for every value a patch *)
(* may set or clear (traceFlags, traceState). An absent list is an empty   *)
(* one. The lists that merges only append to (users, context, meta) are    *)
(* left out.                                                               *)
(***************************************************************************)
EXTENDS Naturals, Sequences, SequencesExt, TLC

CONSTANTS
  MaxRuns,                \* bound: run() calls
  MaxUpdates,             \* bound: captures and updates
  Patches,                \* what callers pass to run() and update()
  Providers               \* bound: installations at any one time

Runs == 1..MaxRuns
None == "none"
Outside == 0                 \* code outside every run()
SpanKey == "otel.span_id"

VARIABLES
  tracked,                \* isAsyncContextTracked()
  current,                \* SingleFrameLogContextStorage.current
  frames,                 \* the context object of each run()
  status, parent,         \* of each run(): its state, and who called it
  previous,               \* what run() saved of current
  stack,                  \* the callbacks executing now, innermost last
  snapshot,               \* what captureLogContext() returned last
  updates,                \* captures and updates so far
  overlapped,             \* history: code ran beside a run() it is not inside of
  cleared,                \* history: a patch cleared a span
  provider,               \* globalLogContextProvider
  replaced,               \* what each installation replaced
  installed,              \* installations not yet removed, oldest first
  unordered               \* history: one was removed before a later one

frameVars == <<current, frames, status, parent, previous, stack, snapshot, updates, overlapped, cleared>>
providerVars == <<provider, replaced, installed, unordered>>
vars == <<tracked, frameVars, providerVars>>

Empty == [traceId |-> None, traceIds |-> <<>>, fields |-> <<>>, spanId |-> None]

Init ==
  /\ tracked \in BOOLEAN
  /\ current = Outside
  /\ frames = [t \in Runs |-> Empty]
  /\ status = [t \in Runs |-> "new"]
  /\ parent = [t \in Runs |-> Outside]
  /\ previous = [t \in Runs |-> Outside]
  /\ stack = <<>>
  /\ snapshot = <<>> /\ updates = 0
  /\ overlapped = FALSE /\ cleared = FALSE
  /\ provider = None /\ replaced = [p \in Providers |-> None]
  /\ installed = <<>> /\ unordered = FALSE

-----------------------------------------------------------------------------
(* { ...f, ...g } *)
Spread(f, g) == [k \in DOMAIN f \cup DOMAIN g |-> IF k \in DOMAIN g THEN g[k] ELSE f[k]]

(* appendUnique, or Array.from(new Set(...)), over a list. *)
Unique(s) ==
  FoldLeft(LAMBDA seen, x : IF x \in ToSet(seen) THEN seen ELSE Append(seen, x), <<>>, s)

OneOf(id) == IF id = None THEN <<>> ELSE <<id>>

MergeLogContext(c, p) ==
  LET existing == IF c.traceIds # <<>> THEN c.traceIds ELSE OneOf(c.traceId)
      added == OneOf(p.traceId) \o p.traceIds
  IN [traceId  |-> IF p.traceId # None THEN p.traceId ELSE c.traceId,
      traceIds |-> IF added = <<>> THEN c.traceIds ELSE Unique(existing \o added),
      fields   |-> Spread(c.fields, p.fields),
      spanId   |-> c.spanId]

(* A patch may carry spanId: undefined, which hasOwn sees: "cleared". *)
MergeExecutionLogContexts(c, p) ==
  LET traces == Unique(OneOf(c.traceId) \o c.traceIds \o OneOf(p.traceId) \o p.traceIds)
  IN [traceId  |-> IF p.traceId # None THEN p.traceId
                   ELSE IF c.traceId # None \/ traces = <<>> THEN c.traceId ELSE traces[1],
      traceIds |-> traces,
      fields   |-> Spread(c.fields, p.fields),
      spanId   |-> CASE p.spanId = None -> c.spanId
                     [] p.spanId = "cleared" -> None
                     [] OTHER -> p.spanId]

(* The projection of the span into the fields that a logger reads. *)
ToLoggerFields(c) ==
  IF c.spanId = None THEN c.fields ELSE Spread(c.fields, [k \in {SpanKey} |-> c.spanId])

ToStoredContextRaw(c) == c        \* a slip: the snapshot without its projection
ToStoredContext(c) == [c EXCEPT !.fields = ToLoggerFields(c)]

-----------------------------------------------------------------------------
Actor == IF stack = <<>> THEN Outside ELSE Last(stack)

(* getStore(): Outside where there is none. *)
Store == IF tracked THEN Actor ELSE current
Active == IF Store = Outside THEN Empty ELSE frames[Store]

Pending == {t \in Runs : status[t] \in {"suspended", "settled"}}

(* The run() calls that t is nested in, itself included: those in every set *)
(* that has t and the callers of what it has.                               *)
Upward(S) == \A t \in S : parent[t] = Outside \/ parent[t] \in S
Around(t) == {u \in Runs : \A S \in SUBSET Runs : (t = Outside \/ t \in S) /\ Upward(S) => u \in S}

(* Another run() is under way than those t is inside of: t may then only *)
(* wait for it, and a t that ends has left it behind.                    *)
Beside(t) == ~(Pending \subseteq Around(t))

Acts == overlapped' = (overlapped \/ Beside(Actor))

(* storage.run(context, callback), up to the call of the callback. Runs *)
(* are numbered in the order they start.                                *)
Run(t, context) ==
  /\ status[t] = "new" /\ \A u \in 1..(t - 1) : status[u] # "new"
  /\ frames' = [frames EXCEPT ![t] = context]
  /\ status' = [status EXCEPT ![t] = "executing"]
  /\ parent' = [parent EXCEPT ![t] = Actor]
  /\ previous' = [previous EXCEPT ![t] = current]
  /\ current' = IF tracked THEN current ELSE t
  /\ stack' = Append(stack, t)
  /\ Acts
  /\ UNCHANGED <<tracked, snapshot, updates, providerVars>>

Clears(p) == cleared' = (cleared \/ (p.spanId = "cleared" /\ Active.spanId # None))

RunWithLogContext(t) ==
  \E p \in Patches : p.spanId = None /\ Run(t, p) /\ UNCHANGED cleared

RunWithMergedLogContext(t) ==
  \E p \in Patches :
    /\ p.spanId = None
    /\ Run(t, IF Store = Outside THEN p ELSE MergeLogContext(Active, p))
    /\ UNCHANGED cleared

RunWithExecutionLogContext(t) ==
  \E p \in Patches :
    Run(t, ToStoredContext(MergeExecutionLogContexts(Active, p))) /\ Clears(p)

RunWithCapturedLogContext(t) ==
  snapshot # <<>> /\ Run(t, snapshot[1]) /\ UNCHANGED cleared

CaptureLogContext ==
  /\ Store # Outside
  /\ updates < MaxUpdates /\ updates' = updates + 1
  /\ snapshot' = <<frames[Store]>>
  /\ Acts
  /\ UNCHANGED <<tracked, current, frames, status, parent, previous, stack, cleared, providerVars>>

Rewrite(context) ==
  /\ Store # Outside
  /\ updates < MaxUpdates /\ updates' = updates + 1
  /\ frames' = [frames EXCEPT ![Store] = context]
  /\ Acts
  /\ UNCHANGED <<tracked, current, status, parent, previous, stack, snapshot, providerVars>>

(* updateLogContext, and setContextLoggedInUser, which is such a patch. *)
UpdateLogContext ==
  \E p \in Patches :
    p.spanId = None /\ Rewrite(MergeLogContext(Active, p)) /\ UNCHANGED cleared

UpdateExecutionLogContext ==
  \E p \in Patches :
    Rewrite(ToStoredContext(MergeExecutionLogContexts(Active, p))) /\ Clears(p)

-----------------------------------------------------------------------------
(* The callback reaches an await: run() has returned its promise. *)
Await ==
  /\ stack # <<>>
  /\ status' = [status EXCEPT ![Actor] = "suspended"]
  /\ stack' = Front(stack)
  /\ UNCHANGED <<tracked, current, frames, parent, previous, snapshot, updates, overlapped, cleared, providerVars>>

Resume(t) ==
  /\ stack = <<>>
  /\ status[t] = "suspended"
  /\ stack' = <<t>>
  /\ status' = [status EXCEPT ![t] = "resumed"]
  /\ overlapped' = (overlapped \/ Beside(t))
  /\ UNCHANGED <<tracked, current, frames, parent, previous, snapshot, updates, cleared, providerVars>>

(* A callback that never awaited returns or throws out of run(). *)
ReturnUnrestored ==       \* a slip: a synchronous callback's frame stays
  /\ stack # <<>> /\ status[Actor] = "executing"
  /\ status' = [status EXCEPT ![Actor] = "done"]
  /\ stack' = Front(stack)
  /\ UNCHANGED <<tracked, current, frames, parent, previous, snapshot, updates, overlapped, cleared, providerVars>>

Return ==
  /\ stack # <<>> /\ status[Actor] = "executing"
  /\ status' = [status EXCEPT ![Actor] = "done"]
  /\ stack' = Front(stack)
  /\ current' = IF tracked THEN current ELSE previous[Actor]
  /\ Acts
  /\ UNCHANGED <<tracked, frames, parent, previous, snapshot, updates, cleared, providerVars>>

(* The promise of one that did settles; its finally runs in a later turn. *)
Settle ==
  /\ stack # <<>> /\ status[Actor] = "resumed"
  /\ status' = [status EXCEPT ![Actor] = IF tracked THEN "done" ELSE "settled"]
  /\ stack' = Front(stack)
  /\ Acts
  /\ UNCHANGED <<tracked, current, frames, parent, previous, snapshot, updates, cleared, providerVars>>

Finally(t) ==
  /\ stack = <<>>
  /\ status[t] = "settled"
  /\ status' = [status EXCEPT ![t] = "done"]
  /\ current' = previous[t]
  /\ UNCHANGED <<tracked, frames, parent, previous, stack, snapshot, updates, overlapped, cleared, providerVars>>

-----------------------------------------------------------------------------
(* installLogContextProvider, or setLogContextProvider with its result kept. *)
InstallLogContextProvider(p) ==
  /\ p \notin ToSet(installed)
  /\ replaced' = [replaced EXCEPT ![p] = provider]
  /\ provider' = p
  /\ installed' = Append(installed, p)
  /\ UNCHANGED <<tracked, frameVars, unordered>>

RemoveProviderToNone(p) ==        \* a slip: removing a provider leaves none
  /\ p \in ToSet(installed)
  /\ provider' = None
  /\ installed' = RemoveAt(installed, CHOOSE i \in DOMAIN installed : installed[i] = p)
  /\ unordered' = (unordered \/ Last(installed) # p)
  /\ UNCHANGED <<tracked, frameVars, replaced>>

(* The function it returned: whatever is installed now gives way to what *)
(* was installed then.                                                   *)
RemoveProvider(p) ==
  /\ p \in ToSet(installed)
  /\ provider' = replaced[p]
  /\ installed' = RemoveAt(installed, CHOOSE i \in DOMAIN installed : installed[i] = p)
  /\ unordered' = (unordered \/ Last(installed) # p)
  /\ UNCHANGED <<tracked, frameVars, replaced>>

NextFrame ==
  \/ \E t \in Runs :
       \/ RunWithLogContext(t) \/ RunWithMergedLogContext(t)
       \/ RunWithExecutionLogContext(t) \/ RunWithCapturedLogContext(t)
       \/ Resume(t) \/ Finally(t)
  \/ CaptureLogContext \/ UpdateLogContext \/ UpdateExecutionLogContext
  \/ Await \/ Return \/ Settle

NextProvider == \E p \in Providers : InstallLogContextProvider(p) \/ RemoveProvider(p)

Next == NextFrame \/ NextProvider

Spec == Init /\ [][Next]_vars

-----------------------------------------------------------------------------
(* Code sees the frame of the run() it is in, and none outside, as long as *)
(* callbacks that await never ran beside one another: after suspensions,   *)
(* nested calls, errors and late finally's the single frame is what        *)
(* sequential code expects (36-57); where flows are tracked, always.       *)
FrameIsOwn == tracked \/ (~overlapped /\ ~Beside(Actor)) => Store = Actor

(* The span a frame carries and the field its log records take it from are *)
(* the same after any mixture of the two interfaces' merges, updates and   *)
(* captures (execution-context-shared.ts:64-143, 160-173), until a patch clears a   *)
(* span: the field of the stored context then survives.                    *)
SpanFieldsAgree ==
  ~cleared => \A t \in Runs :
    frames[t].spanId =
      IF SpanKey \in DOMAIN frames[t].fields THEN frames[t].fields[SpanKey] ELSE None

(* The provider in force is the newest one not removed, as long as they are *)
(* removed in reverse order (172-177, base-logger.ts:143-149); else one     *)
(* that was removed may come back.                                          *)
ProvidersUnwind ==
  ~unordered => provider = IF installed = <<>> THEN None ELSE Last(installed)
=============================================================================
