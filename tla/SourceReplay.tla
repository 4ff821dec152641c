---------------------------- MODULE SourceReplay ----------------------------
(***************************************************************************)
(* What a checkpointed source task promises (spec: checkpoint             *)
(* coordinator, recovery): it hands the records of its partition to the   *)
(* chain in offset order; a completed checkpoint records a recovery point *)
(* that is never ahead of what was handed and never moves back; after a   *)
(* crash the task restarts from the latest recovery point, or, when no    *)
(* checkpoint has completed yet, from the end of the partition.           *)
(*                                                                         *)
(* next is the offset of the next record the task hands on; recovered is  *)
(* the recovery point, NoOffset when there is none.                       *)
(***************************************************************************)
EXTENDS Naturals

CONSTANTS
  MaxRecords,  \* bound: records the broker appends to the partition
  NoOffset     \* no recovery point

VARIABLES
  log,        \* number of records in the partition
  live,       \* the task runs
  next,       \* next offset handed to the chain
  recovered   \* offset of the latest completed checkpoint, or NoOffset

avars == <<log, live, next, recovered>>
-----------------------------------------------------------------------------
Init ==
  /\ log = 0
  /\ live = TRUE
  /\ next = 0
  /\ recovered = NoOffset

\* The broker appends a record.
Produce ==
  /\ log < MaxRecords
  /\ log' = log + 1
  /\ UNCHANGED <<live, next, recovered>>

\* The task hands the record at next to the chain.
Hand ==
  /\ live
  /\ next < log
  /\ next' = next + 1
  /\ UNCHANGED <<log, live, recovered>>

\* A checkpoint completes: its recovery point is at most next and not
\* behind the current one.
Save ==
  /\ live
  /\ \E r \in 0 .. next :
       /\ recovered # NoOffset => recovered <= r
       /\ recovered' = r
  /\ UNCHANGED <<log, live, next>>

\* The task dies.
Crash ==
  /\ live
  /\ live' = FALSE
  /\ UNCHANGED <<log, next, recovered>>

\* The task restarts from the recovery point, or from the end without one.
Restart ==
  /\ ~live
  /\ live' = TRUE
  /\ next' = IF recovered = NoOffset THEN log ELSE recovered
  /\ UNCHANGED <<log, recovered>>

Next == Produce \/ Hand \/ Save \/ Crash \/ Restart

Spec == Init /\ [][Next]_avars
=============================================================================
