------------------------------ MODULE Pipeline ------------------------------
(***************************************************************************)
(* One parallel instance of a checkpointed rlink job: a Kafka source task  *)
(* reading one partition, chained through a one-to-one map into the        *)
(* Elasticsearch sink, with the checkpoint coordinator, the checkpoint     *)
(* storage and a worker crash followed by a restart from the latest        *)
(* completed checkpoint.                                                   *)
(*                                                                         *)
(* A record is identified by its partition offset.  The actors are         *)
(*  - the Kafka broker, appending to the partition (environment);          *)
(*  - the Kafka consumer thread, fetching into the source Handover;        *)
(*  - the task thread: KafkaRecordIterator -> map -> write_record, and     *)
(*    snapshot_state when a barrier arrives;                               *)
(*  - Writers, the async tasks spawned by ElasticsearchWriteThread::run,   *)
(*    each looping batch_send: poll up to batch_size, then one bulk call;  *)
(*  - the coordinator, saving acknowledged snapshots to CheckpointStorage. *)
(***************************************************************************)
EXTENDS Naturals, Sequences, FiniteSets, Functions

CONSTANTS
  Writers,         \* the writer tasks of ElasticsearchWriteThread::run
  BatchSize,       \* batch_size of ElasticsearchWriteThread
  SrcCap,          \* buffer_size of the KafkaInputFormat Handover
  SinkCap,         \* capacity of the ElasticsearchOutputFormat Handover
  MaxRecords,      \* bound: records the broker appends to the partition
  MaxCheckpoints,  \* bound: checkpoint ids the coordinator hands out
  MaxCrashes,      \* bound: worker crashes
  EsMayFail,      \* whether a bulk request may answer with errors
  NoOffset,        \* the empty checkpoint state (state.get() = None)
  OffsetRange,     \* the source's offset_range: "None", "Direct" or "Timestamp"
  RangeBegin       \* the begin offset a Direct or Timestamp range gives the
                   \* partition, or NoOffset when it gives none

ASSUME WritersAssumption == Writers # {} /\ IsFiniteSet(Writers)
ASSUME CapAssumption ==
  /\ BatchSize \in Nat \ {0}
  /\ SrcCap \in Nat \ {0}
  /\ SinkCap \in Nat \ {0}
ASSUME BoundAssumption ==
  /\ MaxRecords \in Nat
  /\ MaxCheckpoints \in Nat
  /\ MaxCrashes \in Nat
ASSUME FlagAssumption == EsMayFail \in BOOLEAN /\ NoOffset \notin Nat
ASSUME RangeAssumption ==
  /\ OffsetRange \in {"None", "Direct", "Timestamp"}
  /\ RangeBegin \in (0 .. MaxRecords) \cup {NoOffset}

VARIABLES
  log,       \* number of records in the partition: offsets 0..log-1
  up,        \* the worker process is running
  fetchPos,  \* next offset the consumer thread fetches
  srcHo,     \* source Handover: fetched offsets not yet polled by the task
  state,     \* KafkaCheckpointFunction state: next offset after the last
             \* record the iterator handed to the chain, or NoOffset
  sinkHo,    \* sink Handover: records written by write_record
  batch,     \* batch[w]: the bulk body writer w is building or sending
  wpc,       \* wpc[w] \in {"poll", "flush"}: writer w polls or awaits bulk
  indexed,   \* offsets the Elasticsearch index holds
  nextId,    \* next checkpoint id the coordinator assigns
  pending,   \* snapshots acknowledged to the coordinator, not yet saved
  stored,    \* checkpoints saved in CheckpointStorage
  crashes,   \* number of crashes so far
  base,      \* offset the job started from after its last open without
             \* a checkpoint (Offset::End at that time)
  emitted,   \* history: offsets the task ever handed to the sink
  idxCount   \* history: idxCount[o] = times offset o was sent in a bulk

vars == <<log, up, fetchPos, srcHo, state, sinkHo, batch, wpc, indexed,
          nextId, pending, stored, crashes, base, emitted, idxCount>>

Offsets == 0 .. MaxRecords
Checkpoint == [id : Nat, offset : Offsets]
-----------------------------------------------------------------------------
(***************************************************************************)
(* Helpers.                                                                *)
(***************************************************************************)

\* The records of a Seq of offsets.
Contents(s) == Range(s)

\* Offsets that are buffered somewhere in the running worker.
InFlight ==
  Contents(srcHo) \cup Contents(sinkHo) \cup UNION {Contents(batch[w]) : w \in Writers}

\* CheckpointStorage::load: the checkpoint of the latest id, if any.
LoadLatest ==
  IF stored = {} THEN NoOffset
  ELSE (CHOOSE c \in stored : \A d \in stored : d.id <= c.id).offset

\* A plausible fault: the consumer resumes after the recovered offset.
BeginOffsetPlusOne(handle) ==
  LET begin == IF OffsetRange = "None" THEN handle ELSE RangeBegin
  IN  IF begin = NoOffset THEN log ELSE begin + 1

\* consumer_ranges: with OffsetRange::None the begin offset is the
\* checkpoint state; with Direct it is the configured offset of the
\* partition and with Timestamp the one offsets_for_times finds for the
\* configured timestamp (both RangeBegin here, whatever the state).  No
\* begin offset means Offset::End.
BeginOffset(handle) ==
  LET begin == IF OffsetRange = "None" THEN handle ELSE RangeBegin
  IN  IF begin = NoOffset THEN log ELSE begin

\* idxCount after one bulk request that applied the records of set S.
CountIndexed(S) == [o \in Offsets |-> IF o \in S THEN idxCount[o] + 1 ELSE idxCount[o]]
-----------------------------------------------------------------------------
(***************************************************************************)
(* Plausible faults of the operations below, each a variant of one        *)
(* operation, used to confirm that the properties notice them.            *)
(***************************************************************************)

\* write_record drops the record when the sink Handover is full.
EmitDropWhenFull ==
  /\ up
  /\ srcHo # << >>
  /\ state' = Head(srcHo) + 1
  /\ srcHo' = Tail(srcHo)
  /\ sinkHo' = IF Len(sinkHo) < SinkCap THEN Append(sinkHo, Head(srcHo)) ELSE sinkHo
  /\ emitted' = emitted \cup {Head(srcHo)}
  /\ UNCHANGED <<log, up, fetchPos, batch, wpc, indexed, nextId, pending,
                 stored, crashes, base, idxCount>>

\* The snapshot records the consumer thread's fetch position instead of
\* the iterator's.
TriggerCheckpointAtFetchPos ==
  /\ up
  /\ nextId <= MaxCheckpoints
  /\ state # NoOffset
  /\ pending' = pending \cup {[id |-> nextId, offset |-> fetchPos]}
  /\ nextId' = nextId + 1
  /\ UNCHANGED <<log, up, fetchPos, srcHo, state, sinkHo, batch, wpc,
                 indexed, stored, crashes, base, emitted, idxCount>>

\* save replaces what the storage holds instead of adding a checkpoint.
CompleteCheckpointReplacing(c) ==
  /\ pending' = pending \ {c}
  /\ stored' = {c}
  /\ UNCHANGED <<log, up, fetchPos, srcHo, state, sinkHo, batch, wpc,
                 indexed, nextId, crashes, base, emitted, idxCount>>

\* try_poll_next peeks at the head of the Handover without removing it.
PollRecordPeek(w) ==
  /\ up
  /\ wpc[w] = "poll"
  /\ Len(batch[w]) < BatchSize
  /\ sinkHo # << >>
  /\ batch' = [batch EXCEPT ![w] = Append(@, Head(sinkHo))]
  /\ UNCHANGED <<log, up, fetchPos, srcHo, state, sinkHo, wpc, indexed, nextId,
                 pending, stored, crashes, base, emitted, idxCount>>

\* batch_send only sends full batches (no break on Empty).
BeginFlushFullOnly(w) ==
  /\ up
  /\ wpc[w] = "poll"
  /\ Len(batch[w]) = BatchSize
  /\ wpc' = [wpc EXCEPT ![w] = "flush"]
  /\ UNCHANGED <<log, up, fetchPos, srcHo, state, sinkHo, batch, indexed,
                 nextId, pending, stored, crashes, base, emitted, idxCount>>
-----------------------------------------------------------------------------
Init ==
  /\ log = 0
  /\ up = TRUE
  /\ fetchPos = BeginOffset(NoOffset)
  /\ srcHo = << >>
  /\ state = NoOffset
  /\ sinkHo = << >>
  /\ batch = [w \in Writers |-> << >>]
  /\ wpc = [w \in Writers |-> "poll"]
  /\ indexed = {}
  /\ nextId = 1
  /\ pending = {}
  /\ stored = {}
  /\ crashes = 0
  /\ base = BeginOffset(NoOffset)
  /\ emitted = {}
  /\ idxCount = [o \in Offsets |-> 0]

\* The broker appends a record to the partition.
Produce ==
  /\ log < MaxRecords
  /\ log' = log + 1
  /\ UNCHANGED <<up, fetchPos, srcHo, state, sinkHo, batch, wpc, indexed,
                 nextId, pending, stored, crashes, base, emitted, idxCount>>

\* The consumer thread fetches the next record into the source Handover;
\* Handover::produce blocks while the Handover is full.
ConsumerFetch ==
  /\ up
  /\ fetchPos < log
  /\ Len(srcHo) < SrcCap
  /\ srcHo' = Append(srcHo, fetchPos)
  /\ fetchPos' = fetchPos + 1
  /\ UNCHANGED <<log, up, state, sinkHo, batch, wpc, indexed, nextId,
                 pending, stored, crashes, base, emitted, idxCount>>

\* KafkaRecordIterator::next polls the Handover and records the offset in
\* the checkpoint state; the map turns the record into one record; and
\* ElasticsearchOutputFormat::write_record produces it into the sink
\* Handover, blocking while that is full.
Emit ==
  /\ up
  /\ srcHo # << >>
  /\ Len(sinkHo) < SinkCap
  /\ state' = Head(srcHo) + 1
  /\ srcHo' = Tail(srcHo)
  /\ sinkHo' = Append(sinkHo, Head(srcHo))
  /\ emitted' = emitted \cup {Head(srcHo)}
  /\ UNCHANGED <<log, up, fetchPos, batch, wpc, indexed, nextId, pending,
                 stored, crashes, base, idxCount>>

\* A barrier reaches the task: snapshot_state of the Kafka source returns
\* its offset state; the sink's CheckpointFunction is the default one, so
\* it neither snapshots nor flushes.  The task acknowledges the snapshot.
\* A source with no state yet returns no handle.
TriggerCheckpoint ==
  /\ up
  /\ nextId <= MaxCheckpoints
  /\ state # NoOffset
  /\ pending' = pending \cup {[id |-> nextId, offset |-> state]}
  /\ nextId' = nextId + 1
  /\ UNCHANGED <<log, up, fetchPos, srcHo, state, sinkHo, batch, wpc,
                 indexed, stored, crashes, base, emitted, idxCount>>

\* All tasks (here: the one task) acknowledged checkpoint c: the
\* coordinator saves it with CheckpointStorage::save.
CompleteCheckpoint(c) ==
  /\ pending' = pending \ {c}
  /\ stored' = stored \cup {c}
  /\ UNCHANGED <<log, up, fetchPos, srcHo, state, sinkHo, batch, wpc,
                 indexed, nextId, crashes, base, emitted, idxCount>>

\* batch_send: try_poll_next returned a record; it joins writer w's batch.
PollRecord(w) ==
  /\ up
  /\ wpc[w] = "poll"
  /\ Len(batch[w]) < BatchSize
  /\ sinkHo # << >>
  /\ batch' = [batch EXCEPT ![w] = Append(@, Head(sinkHo))]
  /\ sinkHo' = Tail(sinkHo)
  /\ UNCHANGED <<log, up, fetchPos, srcHo, state, wpc, indexed, nextId,
                 pending, stored, crashes, base, emitted, idxCount>>

\* batch_send stops polling after batch_size records or on Empty, and
\* awaits the bulk request of a non-empty batch (an empty one is a no-op).
BeginFlush(w) ==
  /\ up
  /\ wpc[w] = "poll"
  /\ batch[w] # << >>
  /\ Len(batch[w]) = BatchSize \/ sinkHo = << >>
  /\ wpc' = [wpc EXCEPT ![w] = "flush"]
  /\ UNCHANGED <<log, up, fetchPos, srcHo, state, sinkHo, batch, indexed,
                 nextId, pending, stored, crashes, base, emitted, idxCount>>

\* The bulk request succeeds: every record of the batch is indexed.
FlushOk(w) ==
  /\ up
  /\ wpc[w] = "flush"
  /\ indexed' = indexed \cup Contents(batch[w])
  /\ idxCount' = CountIndexed(Contents(batch[w]))
  /\ batch' = [batch EXCEPT ![w] = << >>]
  /\ wpc' = [wpc EXCEPT ![w] = "poll"]
  /\ UNCHANGED <<log, up, fetchPos, srcHo, state, sinkHo, nextId, pending,
                 stored, crashes, base, emitted>>

\* The bulk response has errors = true (some items may have been indexed)
\* or the request failed: run0 logs the error, sleeps and polls a new
\* batch; the records of this batch are not sent again.
FlushErr(w) ==
  /\ up
  /\ EsMayFail
  /\ wpc[w] = "flush"
  /\ \E applied \in SUBSET Contents(batch[w]) :
       /\ indexed' = indexed \cup applied
       /\ idxCount' = CountIndexed(applied)
  /\ batch' = [batch EXCEPT ![w] = << >>]
  /\ wpc' = [wpc EXCEPT ![w] = "poll"]
  /\ UNCHANGED <<log, up, fetchPos, srcHo, state, sinkHo, nextId, pending,
                 stored, crashes, base, emitted>>

\* The worker process dies: its Handovers, batches and unsaved
\* acknowledgements are gone; a bulk request in flight may or may not
\* have reached Elasticsearch.
Crash ==
  /\ up
  /\ crashes < MaxCrashes
  /\ \E applied \in SUBSET UNION {Contents(batch[w]) : w \in {v \in Writers : wpc[v] = "flush"}} :
       /\ indexed' = indexed \cup applied
       /\ idxCount' = CountIndexed(applied)
  /\ up' = FALSE
  /\ crashes' = crashes + 1
  /\ srcHo' = << >>
  /\ sinkHo' = << >>
  /\ batch' = [w \in Writers |-> << >>]
  /\ wpc' = [w \in Writers |-> "poll"]
  /\ pending' = {}
  /\ UNCHANGED <<log, fetchPos, state, nextId, stored, base, emitted>>

\* The task is started again: CheckpointStorage::load gives the handle of
\* the latest completed checkpoint, KafkaInputFormat::open passes it to
\* initialize_state, creates a fresh Handover and starts the consumer at
\* consumer_ranges' begin offset.
Restart ==
  /\ ~up
  /\ up' = TRUE
  /\ state' = LoadLatest
  /\ fetchPos' = BeginOffset(LoadLatest)
  /\ base' = IF LoadLatest = NoOffset THEN BeginOffset(NoOffset) ELSE base
  /\ UNCHANGED <<log, srcHo, sinkHo, batch, wpc, indexed, nextId, pending,
                 stored, crashes, emitted, idxCount>>

Next ==
  \/ Produce
  \/ ConsumerFetch
  \/ Emit
  \/ TriggerCheckpoint
  \/ \E c \in pending : CompleteCheckpoint(c)
  \/ \E w \in Writers : PollRecord(w) \/ BeginFlush(w) \/ FlushOk(w) \/ FlushErr(w)
  \/ Crash
  \/ Restart

\* The consumer thread, the task thread, the coordinator and every writer
\* loop for as long as the worker runs; the broker and crashes are the
\* environment and are not fair.
Fairness ==
  /\ WF_vars(ConsumerFetch)
  /\ WF_vars(Emit)
  /\ WF_vars(\E c \in pending : CompleteCheckpoint(c))
  /\ WF_vars(Restart)
  /\ \A w \in Writers : WF_vars(PollRecord(w) \/ BeginFlush(w) \/ FlushOk(w) \/ FlushErr(w))

Spec == Init /\ [][Next]_vars
FairSpec == Spec /\ Fairness
-----------------------------------------------------------------------------
(***************************************************************************)
(* Properties.                                                             *)
(***************************************************************************)

(* Types of the job's state: every offset the consumer, the Handovers,   *)
(* the batches and the checkpoints hold is an offset of the partition;  *)
(* and no Handover or batch overruns its capacity, since produce blocks *)
(* on a full Handover and batch_send stops polling at batch_size.       *)
TypeOK ==
  /\ log \in Offsets
  /\ up \in BOOLEAN
  /\ fetchPos \in Offsets
  /\ srcHo \in Seq(Offsets) /\ Len(srcHo) <= SrcCap
  /\ state \in Offsets \cup {NoOffset}
  /\ sinkHo \in Seq(Offsets) /\ Len(sinkHo) <= SinkCap
  /\ batch \in [Writers -> Seq(Offsets)]
  /\ \A w \in Writers : Len(batch[w]) <= BatchSize
  /\ wpc \in [Writers -> {"poll", "flush"}]
  /\ indexed \subseteq Offsets
  /\ nextId \in Nat \ {0}
  /\ pending \subseteq Checkpoint
  /\ stored \subseteq Checkpoint
  /\ crashes \in Nat
  /\ base \in Offsets
  /\ emitted \subseteq Offsets
  /\ idxCount \in [Offsets -> Nat]

(* Source side at-least-once, across crashes: while the worker runs,   *)
(* every record from the start offset up to the consumer position was  *)
(* handed to the sink by the task or is still in the source Handover.   *)
(* It rests on snapshot_state recording the iterator's position (not    *)
(* the consumer thread's) and on open resuming the consumer there.      *)
SourceAtLeastOnce ==
  up => \A o \in base .. (fetchPos - 1) : o \in emitted \/ o \in Contents(srcHo)

(* Sink at-least-once: every record the consumer has fetched is buffered *)
(* in the worker or held by the Elasticsearch index.  Broken by a bulk   *)
(* error (run0 drops the batch) and by a crash after a checkpoint whose  *)
(* offset is ahead of records still in the sink Handover.               *)
AtLeastOnce ==
  up => \A o \in base .. (fetchPos - 1) : o \in indexed \/ o \in InFlight

(* Duplicates only come from recovery: a record is sent to Elasticsearch *)
(* at most once per incarnation of the worker, i.e. at most 1 + crashes  *)
(* times.  Broken if a poll of the Handover could return a record twice  *)
(* or a batch were sent again after its flush.                           *)
DuplicatesOnlyFromRecovery ==
  \A o \in Offsets : idxCount[o] <= 1 + crashes

(* The recovery point never moves back: the checkpoint CheckpointStorage *)
(* load would return is never replaced by one with a smaller offset, even *)
(* though acknowledgements of several ids may be saved in any order.     *)
RecoveryPointMonotone ==
  [][ LoadLatest # NoOffset =>
        /\ LoadLatest' # NoOffset
        /\ LoadLatest' >= LoadLatest ]_vars

(* Liveness: with a reliable Elasticsearch and no crash, every record the *)
(* broker appends after the start is eventually indexed.                  *)
EventuallyIndexed ==
  \A o \in Offsets : (o < log) ~> (o \in indexed)

(***************************************************************************)
(* Refinement of SourceReplay.  The abstract task's next offset is the    *)
(* checkpoint state (the offset after the last record the iterator        *)
(* handed on), or base before the first record since the last open        *)
(* without a checkpoint; its recovery point is what CheckpointStorage     *)
(* load returns.                                                          *)
(***************************************************************************)
ReplayNext == IF state \in Nat THEN state ELSE base

Replay == INSTANCE SourceReplay WITH live <- up, next <- ReplayNext, recovered <- LoadLatest

(* The source task with OffsetRange::None implements SourceReplay: the     *)
(* records are handed on in order, a saved checkpoint is never ahead of   *)
(* the iterator and never behind the previous one, and open after a crash *)
(* resumes at the latest checkpoint (Offset::End without one).            *)
ReplaySpec == Replay!Spec

(***************************************************************************)
(* Refinement of BulkSink.  The sink's buffer is what the sink Handover    *)
(* and the batches writers are still polling into hold; a bulk request in *)
(* flight is the batch of a writer awaiting its bulk call.                 *)
(***************************************************************************)
SinkQueued ==
  Contents(sinkHo) \cup UNION {Contents(batch[w]) : w \in {v \in Writers : wpc[v] = "poll"}}

SinkRequests == {Contents(batch[w]) : w \in {v \in Writers : wpc[v] = "flush"}}

Sink == INSTANCE BulkSink WITH Records <- Offsets, MayFail <- EsMayFail, live <- up,
                               queued <- SinkQueued, requests <- SinkRequests,
                               count <- idxCount

(* ElasticsearchOutputFormat with the writer tasks of                      *)
(* ElasticsearchWriteThread implements BulkSink: write_record never hands  *)
(* it a record it still holds, a poll moves a record within the buffer, a  *)
(* bulk call takes its batch out of the buffer as one request that no     *)
(* other writer shares, and only its answer, or a crash while it is in    *)
(* flight, sends those records to Elasticsearch.                          *)
SinkSpec == Sink!Spec

=============================================================================
