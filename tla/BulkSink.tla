------------------------------ MODULE BulkSink ------------------------------
(***************************************************************************)
(* What the Elasticsearch sink promises the chain, abstracted from         *)
(* elasticsearch_sink.rs (the spec treats the search-index sink as an      *)
(* opaque OutputFormat, at-least-once and no more): a record written to it *)
(* is buffered once; a bulk request takes a set of buffered records out of *)
(* the buffer, and its answer indexes them, all of them unless             *)
(* Elasticsearch may answer with errors, in which case any part of them.   *)
(* A crash drops the buffer and the requests in flight, each of which may  *)
(* or may not have reached Elasticsearch.                                  *)
(*                                                                         *)
(* queued holds the records written and not yet in a request; requests    *)
(* the record sets of the bulk requests in flight; count[r] how often r   *)
(* was sent to Elasticsearch.                                              *)
(***************************************************************************)
EXTENDS Naturals

CONSTANTS
  Records,     \* the records the chain may write
  MayFail,     \* whether a bulk request may answer with errors
  MaxCrashes   \* bound: crashes of the worker

VARIABLES
  live,      \* the worker runs
  queued,    \* records written to the sink, not yet in a bulk request
  requests,  \* record sets of the bulk requests in flight
  indexed,   \* records the index holds
  count,     \* count[r]: times r was sent in an answered bulk request
  crashes    \* crashes so far

bvars == <<live, queued, requests, indexed, count, crashes>>

\* count after the records of S reached Elasticsearch.
Sent(S) == [r \in Records |-> IF r \in S THEN count[r] + 1 ELSE count[r]]
-----------------------------------------------------------------------------
Init ==
  /\ live = TRUE
  /\ queued = {}
  /\ requests = {}
  /\ indexed = {}
  /\ count = [r \in Records |-> 0]
  /\ crashes = 0

\* The chain writes record r; the sink holds no copy of it yet.
Write(r) ==
  /\ live
  /\ r \notin queued \cup UNION requests
  /\ queued' = queued \cup {r}
  /\ UNCHANGED <<live, requests, indexed, count, crashes>>

\* A bulk request is sent with the non-empty set S of buffered records.
Take(S) ==
  /\ live
  /\ S # {}
  /\ queued' = queued \ S
  /\ requests' = requests \cup {S}
  /\ UNCHANGED <<live, indexed, count, crashes>>

\* The bulk request of S is answered, having applied the records applied.
Answer(S) ==
  /\ live
  /\ requests' = requests \ {S}
  /\ \E applied \in SUBSET S :
       /\ MayFail \/ applied = S
       /\ indexed' = indexed \cup applied
       /\ count' = Sent(applied)
  /\ UNCHANGED <<live, queued, crashes>>

\* The worker dies with whatever requests in flight reached Elasticsearch.
Crash ==
  /\ live
  /\ crashes < MaxCrashes
  /\ live' = FALSE
  /\ \E applied \in SUBSET UNION requests :
       /\ indexed' = indexed \cup applied
       /\ count' = Sent(applied)
  /\ queued' = {}
  /\ requests' = {}
  /\ crashes' = crashes + 1

\* The worker is started again with an empty sink.
Restart ==
  /\ ~live
  /\ live' = TRUE
  /\ UNCHANGED <<queued, requests, indexed, count, crashes>>

Next ==
  \/ \E r \in Records : Write(r)
  \/ \E S \in SUBSET queued : Take(S)
  \/ \E S \in requests : Answer(S)
  \/ Crash
  \/ Restart

Spec == Init /\ [][Next]_bvars
=============================================================================
