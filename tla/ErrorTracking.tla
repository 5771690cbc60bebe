---------------------------- MODULE ErrorTracking ----------------------------
(***************************************************************************)
(* The error-tracking transport of src/base-logger.ts:660-715 around the   *)
(* HttpTransport (577-658): records are posted to an endpoint, then to the *)
(* fallback; a record whose hash was seen is skipped; the hashes are a set *)
(* in order of insertion that gives up its older half when it is full, and *)
(* a write that fails takes its hash out again. setErrorTracking (1339)    *)
(* puts a new transport in the place of one whose writes may be under way. *)
(*                                                                         *)
(* A request may hang. A record's hash stands for its level, runtime,      *)
(* message and traces. HttpTransport alone is this with dedupe off. Its    *)
(* flushOnExit, which offers the active records to sendBeacon, leaves the  *)
(* state as it is and is left out.                                         *)
(***************************************************************************)
EXTENDS Naturals, Sequences, SequencesExt

CONSTANTS
  MaxRecords,             \* bound: records written
  MaxHash,                \* bound: different hashes
  MaxHashes,              \* MAX_HASHES, 5000 in the code
  MaxTransports           \* bound: transports installed one after another

Records == 1..MaxRecords
Hashes == 1..MaxHash

VARIABLES
  dedupe, timed, fallback,    \* options: dedupe, timeoutMillis > 0, fallbackUrl
  transport,              \* which transport is installed
  hash,                   \* of each record written
  by,                     \* the transport that writes it
  write,                  \* "new", "below", "skipped", "posting", "posted", "failed"
  endpoint,               \* where it is posted: 1 is url, 2 fallbackUrl
  seenHashes,             \* of the transport installed
  evicted                 \* history: a hash was evicted

options == <<dedupe, timed, fallback>>
vars == <<options, transport, hash, by, write, endpoint, seenHashes, evicted>>

Init ==
  /\ dedupe \in BOOLEAN /\ timed \in BOOLEAN /\ fallback \in BOOLEAN
  /\ transport = 1
  /\ hash = [r \in Records |-> 0]
  /\ by = [r \in Records |-> 1]
  /\ write = [r \in Records |-> "new"]
  /\ endpoint = [r \in Records |-> 1]
  /\ seenHashes = <<>>
  /\ evicted = FALSE

-----------------------------------------------------------------------------
Full == Len(seenHashes) >= MaxHashes
Evict == IF Full THEN SubSeq(seenHashes, (MaxHashes + 1) \div 2 + 1, Len(seenHashes)) ELSE seenHashes

(* Set.delete: a hash is in it at most once. *)
Without(s, h) == IF Contains(s, h) THEN RemoveAt(s, CHOOSE i \in DOMAIN s : s[i] = h) ELSE s

(* Records, and the hashes that are new, come in the order of their numbers. *)
Comes(r, h, outcome) ==
  /\ write[r] = "new" /\ \A s \in 1..(r - 1) : write[s] # "new"
  /\ \A g \in 1..(h - 1) : \E s \in Records : hash[s] = g
  /\ hash' = [hash EXCEPT ![r] = h]
  /\ write' = [write EXCEPT ![r] = outcome]
  /\ by' = [by EXCEPT ![r] = transport]
  /\ UNCHANGED <<options, transport, endpoint>>

Seen(h) == dedupe /\ Contains(seenHashes, h)

WriteUnmarked(r, h) ==    \* a slip: the hash is only looked up
  /\ Comes(r, h, IF Seen(h) THEN "skipped" ELSE "posting")
  /\ UNCHANGED <<seenHashes, evicted>>

Write(r, h) ==
  /\ Comes(r, h, IF Seen(h) THEN "skipped" ELSE "posting")
  /\ IF dedupe /\ ~Seen(h)
     THEN seenHashes' = Append(Evict, h) /\ evicted' = (evicted \/ Full)
     ELSE UNCHANGED <<seenHashes, evicted>>

(* A record below minLevel. *)
WriteBelow(r) == Comes(r, 0, "below") /\ UNCHANGED <<seenHashes, evicted>>

AttemptFailsKeepingHash(r) ==       \* a slip: the hash of a failed write stays
  /\ write[r] = "posting"
  /\ IF fallback /\ endpoint[r] = 1
     THEN endpoint' = [endpoint EXCEPT ![r] = 2] /\ UNCHANGED write
     ELSE write' = [write EXCEPT ![r] = "failed"] /\ UNCHANGED endpoint
  /\ UNCHANGED <<options, transport, hash, by, seenHashes, evicted>>

Acknowledged(r) ==
  /\ write[r] = "posting"
  /\ write' = [write EXCEPT ![r] = "posted"]
  /\ UNCHANGED <<options, transport, hash, by, endpoint, seenHashes, evicted>>

AttemptFails(r) ==
  /\ write[r] = "posting"
  /\ IF fallback /\ endpoint[r] = 1
     THEN /\ endpoint' = [endpoint EXCEPT ![r] = 2]
          /\ UNCHANGED <<write, seenHashes>>
     ELSE /\ write' = [write EXCEPT ![r] = "failed"]
          /\ seenHashes' = IF by[r] = transport THEN Without(seenHashes, hash[r]) ELSE seenHashes
          /\ UNCHANGED endpoint
  /\ UNCHANGED <<options, transport, hash, by, evicted>>

(* fetch rejects, or the endpoint answers that it failed. *)
Fails(r) == AttemptFails(r)

AbortsOnTheLast(r) == timed /\ endpoint[r] = 2 /\ AttemptFails(r)     \* a slip

(* timeoutMillis ends the attempt: the abort makes fetch reject. *)
Aborts(r) == timed /\ AttemptFails(r)

SetErrorTracking ==
  /\ transport < MaxTransports
  /\ transport' = transport + 1
  /\ seenHashes' = <<>>
  /\ UNCHANGED <<options, hash, by, write, endpoint, evicted>>

Next ==
  \/ \E r \in Records :
       \/ \E h \in Hashes : Write(r, h)
       \/ WriteBelow(r) \/ Acknowledged(r) \/ Fails(r) \/ Aborts(r)
  \/ SetErrorTracking

Fairness == \A r \in Records : WF_vars(Aborts(r))

Spec == Init /\ [][Next]_vars /\ Fairness

-----------------------------------------------------------------------------
(* One transport never posts two records of one hash at the same time, nor  *)
(* a second one after the first was acknowledged, whatever fails, is        *)
(* retried or overlaps, as long as no hash was evicted (690-711).           *)
OncePerHash ==
  dedupe /\ ~evicted =>
    \A r, s \in Records :
      r # s /\ hash[r] = hash[s] /\ by[r] = by[s] =>
        ~(write[r] \in {"posting", "posted"} /\ write[s] \in {"posting", "posted"})

(* What makes the transport skip a record is a record of that hash which it *)
(* is posting or has posted, never one whose write failed: a failed send    *)
(* releases its hash (ErrorTrackingOptions.dedupe, 162-167; 706-711), also  *)
(* after evictions, and the hashes never exceed their limit.                *)
SkipsOnlyTheSent ==
  /\ Len(seenHashes) <= MaxHashes
  /\ \A i \in DOMAIN seenHashes : \E r \in Records :
       /\ hash[r] = seenHashes[i] /\ by[r] = transport
       /\ write[r] \in {"posting", "posted"}

(* A write with a timeout ends, also when both endpoints hang (597-634).    *)
WritesSettle ==
  timed => \A r \in Records : (write[r] = "posting") ~> (write[r] \in {"posted", "failed"})
=============================================================================
