---------------------------- MODULE Serialization ----------------------------
(***************************************************************************)
(* What BaseLogger.serializeValue() makes of a graph of objects            *)
(* (src/base-logger.ts:329-506): shared and cyclic references, redacted    *)
(* keys, the caps on depth and on the size of collections, and properties  *)
(* whose getter throws. The application builds the graph one entry at a    *)
(* time; every graph it can build is a state.                              *)
(*                                                                         *)
(* An Array and a Set are serialized alike ("array"). Primitive values,    *)
(* with the cap on strings, dates and regular expressions are leaves, and  *)
(* so are the keys of a Map. The entry "cause" of an Error is the one that *)
(* its constructor was given, which is not enumerable. Left out: Proxies;  *)
(* keys that mean something to an object literal (__proto__, __type); an   *)
(* Error whose message or stack is not a string; the names of classes.     *)
(***************************************************************************)
EXTENDS Naturals, Sequences, FiniteSets, SequencesExt

CONSTANTS
  Nodes, Root,            \* the objects, and the one that is logged
  Leaves,                 \* primitive values
  Keys, RedactKeys,       \* the keys, and those a redaction pattern matches
  MaxDepth, MaxArrayLength, MaxProperties,       \* SerializeLimits
  MaxEntries,             \* bound: entries of one object
  MaxTotal                \* bound: entries of all of them

VARIABLES
  kind,                   \* what each object is
  entries                 \* its entries in order, <<key, value>>

vars == <<kind, entries>>

Kinds == {"object", "array", "map", "error"}
Throwing == "throwing getter"
Total == FoldFunctionOnSet(LAMBDA s, n : Len(s) + n, 0, entries, Nodes)

Init ==
  /\ kind \in [Nodes -> Kinds]
  /\ entries = [n \in Nodes |-> <<>>]

AddEntry(n) ==
  \E k \in Keys, v \in Nodes \cup Leaves \cup {Throwing} :
    /\ Len(entries[n]) < MaxEntries
    /\ Total < MaxTotal
    /\ v = Throwing => kind[n] \in {"object", "error"}
    /\ kind[n] \in {"object", "error"} => \A i \in DOMAIN entries[n] : entries[n][i][1] # k
    /\ entries' = [entries EXCEPT ![n] = Append(@, <<k, v>>)]
    /\ UNCHANGED kind

Next == \E n \in Nodes : AddEntry(n)

Spec == Init /\ [][Next]_vars

-----------------------------------------------------------------------------
ShouldRedactNothing(n, k) == FALSE               \* a slip
ShouldRedact(n, k) ==
  /\ k \in RedactKeys
  /\ kind[n] # "array"
  /\ ~(kind[n] = "error" /\ k = "cause")        \* read by name, not by Object.keys

(* An Error's own properties are not capped. *)
Cap(n) ==
  CASE kind[n] \in {"array", "map"} -> MaxArrayLength
    [] kind[n] = "object" -> MaxProperties
    [] kind[n] = "error" -> MaxEntries

Kept(n) == SubSeq(entries[n], 1, IF Len(entries[n]) < Cap(n) THEN Len(entries[n]) ELSE Cap(n))

Marker(m) == [marker |-> m]
Thrown == Marker("thrown")
Absent == "undefined"

(* What n.k evaluates to. The items of a collection are not properties. *)
Property(n, k) ==
  IF kind[n] \in {"object", "error"} /\ \E i \in DOMAIN entries[n] : entries[n][i][1] = k
  THEN LET i == CHOOSE j \in DOMAIN entries[n] : entries[n][j][1] = k IN entries[n][i][2]
  ELSE Absent

UnguardedEntries(n) ==                           \* a slip: Object.entries for Object.keys
  IF \E i \in DOMAIN entries[n] : entries[n][i][2] = Throwing THEN Throwing ELSE Absent

(* What is read of n outside the guard on its properties, redacted and past *)
(* the cap or not: the name of an Error, and of a plain object              *)
(* constructor?.name, which becomes its __type.                             *)
Unguarded(n) ==
  CASE kind[n] = "error" -> Property(n, "name")
    [] kind[n] = "object" ->
         LET class == Property(n, "constructor")
         IN  IF class \in Nodes THEN Property(class, "name")
             ELSE IF class = Throwing THEN Throwing ELSE Absent
    [] OTHER -> Absent
Unserializable == Marker("Unserializable")

GuardedNowhere(n, value) == value                \* a slip: no try around an access
Guarded(n, value) == IF kind[n] = "object" /\ value = Thrown THEN Unserializable ELSE value

CircularNever(seen, n) == FALSE                  \* a slip
Circular(seen, n) == n \in seen

(* The serialized value, or Thrown where the exception leaves serialize(). *)
(* What the finally takes out of `seen` again is never visible outside the  *)
(* call: seen holds the objects the value is inside of.                     *)
RECURSIVE Serialize(_, _, _)
Serialize(value, seen, depth) ==
  IF value = Throwing THEN Thrown
  ELSE IF value \in Leaves THEN [leaf |-> value]
  ELSE IF Circular(seen, value) THEN Marker("Circular")
  ELSE IF depth >= MaxDepth THEN Marker("Max depth")
  ELSE LET inside == seen \cup {value}
           Entry(e) == IF ShouldRedact(value, e[1]) THEN Marker("REDACTED")
                       ELSE Guarded(value, Serialize(e[2], inside, depth + 1))
           result == [i \in DOMAIN Kept(value) |-> Entry(Kept(value)[i])]
       IN IF Unguarded(value) = Throwing \/ \E i \in DOMAIN result : result[i] = Thrown
          THEN Thrown
          ELSE [result |-> result, more |-> Len(entries[value]) - Len(result),
                type |-> IF kind[value] = "object" THEN Unguarded(value) ELSE Absent]

Serialized == Serialize(Root, {}, 0)

-----------------------------------------------------------------------------
(* What a serialized value shows, read off the result alone. *)
RECURSIVE PartsOf(_)
PartsOf(out) ==
  {out} \cup IF "result" \in DOMAIN out
             THEN UNION {PartsOf(out.result[i]) : i \in DOMAIN out.result} ELSE {}

Parts == PartsOf(Serialized)
Shown == {x \in Leaves : [leaf |-> x] \in Parts}

(* The graph, walked without serializing it: where the entries that are not *)
(* redacted lead, those past a cap left out.                                *)
Plain(n) ==
  {entries[n][i][2] : i \in {j \in DOMAIN entries[n] :
     /\ j <= Cap(n)
     /\ \/ entries[n][j][1] \notin RedactKeys
        \/ kind[n] = "array"
        \/ kind[n] = "error" /\ entries[n][j][1] = "cause"}}

(* Reading n fails of itself: its name or class is a getter that throws. *)
Unreadable(n) ==
  \/ kind[n] = "error" /\ <<"name", Throwing>> \in Range(entries[n])
  \/ /\ kind[n] = "object"
     /\ \/ <<"constructor", Throwing>> \in Range(entries[n])
        \/ \E m \in Nodes :
             /\ <<"constructor", m>> \in Range(entries[n])
             /\ kind[m] \in {"object", "error"}
             /\ <<"name", Throwing>> \in Range(entries[m])

Throws == \E n \in Nodes : Throwing \in Plain(n) \/ Unreadable(n)

(* The objects that no exception takes away. *)
Solid == {n \in Nodes : (kind[n] = "object" /\ ~Unreadable(n)) \/ ~Throws}

Onward(S, through) == S \cup UNION {Plain(n) : n \in S \cap through}

(* What S leads to in d steps. *)
Reach(S, through, d) ==
  LET r[i \in 0..d] == IF i = 0 THEN S ELSE Onward(r[i - 1], through) IN r[d]

Cyclic(through, d) ==
  \E n \in Reach({Root}, through, d) \cap through :
    n \in Reach(Plain(n), through, Cardinality(Nodes))

(* Serializing shows a value exactly if the logged object leads to it       *)
(* without passing a redacted key, however the value is shared or nested    *)
(* (347-506): never one that is only under redacted keys (of __type, which  *)
(* is constructor.name as it stands, nothing is said); and each one that is *)
(* not too deep, whatever throws elsewhere, if there are but plain objects  *)
(* with a readable class around it, or nothing throws.                      *)
ShowsExactlyThePlain ==
  /\ Shown \subseteq Reach({Root}, Nodes, MaxDepth)
  /\ Reach({Root}, Solid, MaxDepth) \cap Leaves \subseteq Shown

(* A value is called circular only in a graph that has a cycle: what is     *)
(* merely shared is written out at each of its places; and a cycle within   *)
(* the limit is called so, not cut as too deep (420-428).                   *)
CircularIsACycle ==
  /\ Marker("Circular") \in Parts => Cyclic(Nodes, MaxDepth)
  /\ Cyclic(Solid, MaxDepth - Cardinality(Nodes)) => Marker("Circular") \in Parts

(* A getter that throws takes its own property with it and no sibling, as   *)
(* long as there is a plain object around (476-493): the exception reaches  *)
(* the caller only from an object whose own name or class cannot be read,   *)
(* or a getter of an Error, and through errors, arrays and maps alone.      *)
PoisonIsContained ==
  LET bare[i \in 0..Cardinality(Nodes)] ==
        IF i = 0 THEN {Root}
        ELSE bare[i - 1] \cup
             UNION {Plain(m) \cap Nodes : m \in {b \in bare[i - 1] : kind[b] # "object"}}
  IN Serialized = Thrown =>
       \E n \in bare[Cardinality(Nodes)] :
         Unreadable(n) \/ (kind[n] # "object" /\ Throwing \in Plain(n))
=============================================================================
