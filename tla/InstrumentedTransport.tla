------------------------- MODULE InstrumentedTransport -------------------------
(***************************************************************************)
(* The InstrumentedTransport of src/prometheus.ts:675-760, which counts    *)
(* the writes of the transport it wraps, and those in flight, by that      *)
(* transport's name, and sorts their durations into buckets; and the       *)
(* series of its metrics (108-385), bounded by diverting new label sets to *)
(* an overflow series, visible or hidden. Several wrappers write to one    *)
(* set of metrics, several records at once.                                *)
(*                                                                         *)
(* A label set is the list of its values, as it normalizes.                *)
(***************************************************************************)
EXTENDS Integers, Sequences, FiniteSets

CONSTANTS
  MaxWrites,              \* bound: writes
  Names,                  \* of the transports
  MaxSeries,              \* maxSeries of the metrics
  Buckets,                \* upper bounds, a set: they are strictly increasing
  Clocks                  \* bound: what the writes may take, for each behaviour one of them;
                          \* << >> if now() throws, negative if the clock was set back

Writes == 1..MaxWrites
Metrics == {"inFlight", "writes", "durations"}
Word == "__overflow__"

VARIABLES
  reserveOverflow,        \* one of the series is kept for a visible overflow
  broken,                 \* the metrics whose update throws
  labelText,              \* the label sets that have a series of their own
  values,                 \* of each metric by key
  answer, name,           \* of each write what its caller sees, and the transport
  clock,                  \* of each write, the difference of its readings
  inner                   \* how the inner transport's write ended

vars == <<reserveOverflow, broken, labelText, values, answer, name, clock, inner>>

Init ==
  /\ reserveOverflow \in BOOLEAN
  /\ broken \in {{}} \cup {{m} : m \in Metrics}
  /\ labelText = [m \in Metrics |-> {}]
  /\ values = [m \in Metrics |-> <<>>]
  /\ answer = [w \in Writes |-> "new"]
  /\ name = [w \in Writes |-> Word]
  /\ clock \in Clocks
  /\ inner = [w \in Writes |-> "none"]

-----------------------------------------------------------------------------
Overflow(m) == IF m = "writes" THEN <<Word, Word>> ELSE <<Word>>

Ordinary(m) == labelText[m] \ {Overflow(m)}
Budget == IF reserveOverflow THEN MaxSeries - 1 ELSE MaxSeries

Accepts(m, l) == l \in labelText[m] \/ Cardinality(Ordinary(m)) < Budget

KeyUnlimited(m, l) == l             \* a slip: there is no limit
KeyForGet(m, l) ==                  \* a slip: the key under which a series is read
  IF l \notin labelText[m] /\ Overflow(m) \in labelText[m] THEN Overflow(m) ELSE l

(* labels(): where an update for l goes. *)
Key(m, l) == IF Accepts(m, l) THEN l ELSE Overflow(m)

(* What it adds to labelText. *)
Text(m, l) == IF Accepts(m, l) \/ reserveOverflow THEN {Key(m, l)} ELSE {}

ObserveOnce(state, elapsed) ==      \* a slip: buckets that are not cumulative
  [buckets |-> [b \in Buckets |-> state.buckets[b]
                  + IF elapsed <= b /\ \A c \in Buckets : c < b => elapsed > c THEN 1 ELSE 0],
   count |-> state.count + 1, sum |-> state.sum + elapsed]

(* observe() *)
Observe(state, elapsed) ==
  [buckets |-> [b \in Buckets |-> state.buckets[b] + IF elapsed <= b THEN 1 ELSE 0],
   count |-> state.count + 1, sum |-> state.sum + elapsed]

NothingObserved == [buckets |-> [b \in Buckets |-> 0], count |-> 0, sum |-> 0]

Changed(m, k, change) ==
  LET known == k \in DOMAIN values[m] IN
    IF m = "durations" THEN Observe(IF known THEN values[m][k] ELSE NothingObserved, change)
    ELSE change + IF known THEN values[m][k] ELSE 0

Put(f, k, v) == [x \in DOMAIN f \cup {k} |-> IF x = k THEN v ELSE f[x]]

(* updates maps metrics to <<label set, change or duration>>; the broken    *)
(* ones throw.                                                              *)
Update(updates) ==
  LET on == DOMAIN updates \ broken IN
    /\ labelText' = [m \in Metrics |->
         labelText[m] \cup (IF m \in on THEN Text(m, updates[m][1]) ELSE {})]
    /\ values' = [m \in Metrics |->
         IF m \notin on THEN values[m]
         ELSE LET k == Key(m, updates[m][1]) IN Put(values[m], k, Changed(m, k, updates[m][2]))]

(* write(), up to the inner write: in-flight-inc. *)
WriteStarts(w, n) ==
  /\ answer[w] = "new" /\ \A v \in 1..(w - 1) : answer[v] # "new"
  /\ answer' = [answer EXCEPT ![w] = "inFlight"]
  /\ name' = [name EXCEPT ![w] = n]
  /\ Update([m \in {"inFlight"} |-> <<<<n>>, 1>>])
  /\ UNCHANGED <<reserveOverflow, broken, clock, inner>>

(* What the end of a write does to the metrics: nothing to the durations if *)
(* one of its readings of the clock threw.                                  *)
Timed(w) == clock[w] # <<>>
Elapsed(w) == IF Head(clock[w]) > 0 THEN Head(clock[w]) ELSE 0
Finish(w, outcome) ==
  [m \in IF Timed(w) THEN Metrics ELSE Metrics \ {"durations"} |->
     CASE m = "inFlight" -> <<<<name[w]>>, -1>>
       [] m = "writes" -> <<<<name[w], outcome>>, 1>>
       [] m = "durations" -> <<<<name[w]>>, Elapsed(w)>>]

WriteSettlesUnguarded(w, outcome) ==       \* a slip: a metric that throws is the result
  /\ answer[w] = "inFlight"
  /\ inner' = [inner EXCEPT ![w] = outcome]
  /\ Update(Finish(w, outcome))
  /\ answer' = [answer EXCEPT ![w] = IF "writes" \in broken THEN "rejected" ELSE outcome]
  /\ UNCHANGED <<reserveOverflow, broken, clock, name>>

(* The inner write settles: write-success or -failure, in-flight-dec and    *)
(* write-duration.                                                          *)
WriteSettles(w, outcome) ==
  /\ answer[w] = "inFlight"
  /\ inner' = [inner EXCEPT ![w] = outcome]
  /\ Update(Finish(w, outcome))
  /\ answer' = [answer EXCEPT ![w] = outcome]
  /\ UNCHANGED <<reserveOverflow, broken, clock, name>>

Next ==
  \E w \in Writes :
    \/ \E n \in Names : WriteStarts(w, n)
    \/ \E outcome \in {"resolved", "rejected"} : WriteSettles(w, outcome)

Spec == Init /\ [][Next]_vars

-----------------------------------------------------------------------------
Rendered(m) == {k \in DOMAIN values[m] : reserveOverflow \/ k # Overflow(m)}
InFlight == {w \in Writes : answer[w] = "inFlight"}

(* The writes among W that the series k of a metric stands for: those with  *)
(* its labels or, for the overflow, all those without a series.             *)
Label(m, w) == IF m = "writes" THEN <<name[w], inner[w]>> ELSE <<name[w]>>
Of(m, W, k) ==
  {w \in W : IF k \in Ordinary(m) THEN Label(m, w) = k ELSE Label(m, w) \notin Ordinary(m)}
Ended == {w \in Writes : inner[w] # "none"}

(* The gauge is the number of writes in flight, for each transport that has *)
(* a series and, in the overflow, for all others together, however writes   *)
(* overlap and whichever of them begin or end beyond the limit: a write     *)
(* leaves the series that it entered (159-190, 716-731). So does the        *)
(* counter count those that ended, by transport and outcome; and each write *)
(* is in some series, the hidden one included.                              *)
InFlightExact ==
  /\ "inFlight" \notin broken =>
       LET gauge == values["inFlight"] IN
         /\ \A k \in DOMAIN gauge : gauge[k] = Cardinality(Of("inFlight", InFlight, k))
         /\ InFlight = UNION {Of("inFlight", InFlight, k) : k \in DOMAIN gauge}
  /\ "writes" \notin broken =>
       LET counter == values["writes"] IN
         /\ \A k \in DOMAIN counter : counter[k] = Cardinality(Of("writes", Ended, k))
         /\ Ended = UNION {Of("writes", Ended, k) : k \in DOMAIN counter}

Total(W) == LET r[w \in 0..MaxWrites] == IF w = 0 THEN 0 ELSE r[w - 1] + IF w \in W THEN Elapsed(w) ELSE 0
            IN r[MaxWrites]

(* Of each series of durations, or of all that went to the overflow, every  *)
(* bucket counts the writes that took no longer than its bound, however     *)
(* they overlapped; and every write that ended under a clock that can be    *)
(* read is in one of them (343-364, 732-745).                               *)
DurationsAreCumulative ==
  "durations" \notin broken =>
    LET durations == values["durations"]
        of(k) == Of("durations", {w \in Ended : Timed(w)}, k)
    IN /\ \A k \in DOMAIN durations :
            /\ \A b \in Buckets :
                 durations[k].buckets[b] = Cardinality({w \in of(k) : Elapsed(w) <= b})
            /\ durations[k].count = Cardinality(of(k))
            /\ durations[k].sum = Total(of(k))
       /\ {w \in Ended : Timed(w)} = UNION {of(k) : k \in DOMAIN durations}

(* No metric exposes more series than maxSeries, whether the overflow is    *)
(* among them or hidden, also if a transport has the overflow's name        *)
(* (170-186, 207-209).                                                      *)
SeriesBounded == \A m \in Metrics : Cardinality(Rendered(m)) <= MaxSeries

(* A metric that throws never replaces what the inner transport answered    *)
(* (670-674, 697-730).                                                      *)
ResultIsInner == \A w \in Writes \ InFlight : inner[w] # "none" => answer[w] = inner[w]
=============================================================================
