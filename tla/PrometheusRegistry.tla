-------------------------- MODULE PrometheusRegistry --------------------------
(***************************************************************************)
(* The registry of src/prometheus.ts:387-507 and the two functions that    *)
(* register a list of metrics (518-600): a metric takes the name it is     *)
(* registered under and, for a histogram, three more; what a list has      *)
(* registered before it fails stays.                                       *)
(***************************************************************************)
EXTENDS Naturals, Sequences

CONSTANT Lists            \* what is registered together: lists of <<name, kind>>

VARIABLES
  metrics,                \* kinds by name
  expositionNames,
  complete                \* history: the lists registered to their end

vars == <<metrics, expositionNames, complete>>

Init == metrics = <<>> /\ expositionNames = {} /\ complete = {}

(* expositionNames() of Histogram, and of the others. *)
Exposed(n, kind) ==
  IF kind = "histogram" THEN {n, n \o "_bucket", n \o "_sum", n \o "_count"} ELSE {n}

TakenByName(r, metric) == metric[1] \in DOMAIN r.metrics       \* a slip
Taken(r, metric) ==
  \/ metric[1] \in DOMAIN r.metrics
  \/ Exposed(metric[1], metric[2]) \cap r.names # {}

(* register(): r is the registry, and whether it has thrown. *)
Register(r, metric) ==
  IF r.thrown \/ Taken(r, metric) THEN [r EXCEPT !.thrown = TRUE]
  ELSE [metrics |-> [n \in DOMAIN r.metrics \cup {metric[1]} |->
                       IF n = metric[1] THEN metric[2] ELSE r.metrics[n]],
        names   |-> r.names \cup Exposed(metric[1], metric[2]),
        thrown  |-> FALSE]

(* counter(), gauge() and histogram() with a list of one; with more,       *)
(* createLoggerMetrics() and createLoggerPrometheusMetrics().              *)
RegisterList(list) ==
  LET r[i \in 0..Len(list)] ==
        IF i = 0 THEN [metrics |-> metrics, names |-> expositionNames, thrown |-> FALSE]
        ELSE Register(r[i - 1], list[i])
      last == r[Len(list)]
  IN /\ metrics' = last.metrics
     /\ expositionNames' = last.names
     /\ complete' = IF last.thrown THEN complete ELSE complete \cup {list}

Next == \E list \in Lists : RegisterList(list)
Spec == Init /\ [][Next]_vars

-----------------------------------------------------------------------------
(* No two metrics expose samples of one name, in whatever order counters    *)
(* and histograms with related names come, alone or in lists that fail half *)
(* way (467-480); and a list that was registered is there completely.       *)
SamplesAreUnique ==
  /\ \A n, o \in DOMAIN metrics : n # o => Exposed(n, metrics[n]) \cap Exposed(o, metrics[o]) = {}
  /\ \A list \in complete : \A i \in DOMAIN list :
       list[i][1] \in DOMAIN metrics /\ metrics[list[i][1]] = list[i][2]
=============================================================================
