# TLA+ models of the rlink runtime

This directory holds TLA+ specifications of the parts of rlink-rs under
`src/` that have state and concurrency. It also holds TLC configurations that
model-check them, and TLAPS proofs of their central invariants. Each module
names the Rust function each definition translates. `PROJECT.json` maps
every definition to its source lines and lists the runs, mutants, findings and
hazards.

## The system and its parts

An rlink job is a DAG of tasks. A task's chain has a head, zero or more
functions, and a tail:

- The head is an `InputFormat` (a connector source, or `SystemInputFormat`,
  which reads the upstream tasks' channels).
- The tail is an `OutputFormat`.

The checkpoint coordinator works through the task chains:

- It injects barriers with increasing ids.
- Each task calls `snapshot_state` and acknowledges the barrier.
- When all tasks have acknowledged, the coordinator saves the checkpoint with
  `CheckpointStorage::save`.
- A restarted task gets the handle of the latest completed checkpoint, read
  with `CheckpointStorage::load`.

| Part (source) | Module | Status |
|---|---|---|
| Kafka source: `open`, `consumer_ranges`, `snapshot_state` (`connector-kafka/src/source/input_format.rs`) | `Pipeline`, `SourceReplay` (abstract) | modelled |
| Kafka split enumerator `create_input_splits` and per-task `open` (same file) | `KafkaSplits` | modelled |
| Elasticsearch sink: `ElasticsearchOutputFormat`, `ElasticsearchWriteThread` (`connector-elasticsearch/src/elasticsearch_sink.rs`) | `Pipeline`, `BulkSink` (abstract) | modelled |
| `CheckpointStorage` save/load (`rlink/src/storage/checkpoint/mod.rs`) | `Pipeline` | partly (no load_by_checkpoint_id, no TTL) |
| Coordinator, worker crash and restart (not under `src/`) | `Pipeline` | from the spec |
| `SystemInputFormat`, `ChannelIterator`, `MultiChannelIterator` (`rlink/src/functions/system/system_input_format.rs`) | `FanIn` | modelled |
| Channel layer `named_channel_with_base` (`rlink/src/channel/mod.rs`) | `FanIn` | partly (no metrics) |
| Pub/sub publishers (not under `src/`) | `FanIn` | environment actions |
| `vec_source` / `IteratorInputFormat` (`rlink/src/functions/source/vec_input_format.rs`) | `VecSource` | modelled |
| `ResourceManager` (`rlink/src/deployment/mod.rs`) | none | not modelled: pure dispatch to variants not under `src/` |
| Example output mapper, showcase `main` | none | not modelled: pure data conversion, no state |

## Modules

### Pipeline: one checkpointed Kafka to Elasticsearch task

`Pipeline` models one parallel instance of a job: a Kafka source reading one
partition, chained to the Elasticsearch sink. A record is its partition offset.

State and actions:

- **Broker.** `log` is the number of records in the partition. `Produce`
  appends one.
- **Consumer thread.** `ConsumerFetch` moves the record at `fetchPos` into the
  source Handover `srcHo`, blocking while `srcHo` holds `SrcCap` records.
- **Task thread.** `Emit` is one iteration of `KafkaRecordIterator::next`,
  the map, and `write_record`. It records `offset+1` in the checkpoint `state`
  and produces the record into the sink Handover `sinkHo`, blocking while that
  is full.
- **Checkpoint trigger.** `TriggerCheckpoint` is `snapshot_state`: it
  acknowledges `[id, offset |-> state]`. The sink's `CheckpointFunction` is the
  empty default, so the barrier neither flushes nor waits for the sink.
- **Checkpoint completion.** `CompleteCheckpoint(c)` is the coordinator's
  `CheckpointStorage::save`. Acknowledgements of different ids may complete
  in any order.
- **Writers.** Each writer task spawned by `ElasticsearchWriteThread::run` is
  one element of `Writers`, with a program counter `wpc[w]`. Its steps:
  - `PollRecord(w)`: one `try_poll_next` of `batch_send`.
  - `BeginFlush(w)`: the batch is full, or the Handover was empty.
  - `FlushOk(w)`: the bulk request succeeds.
  - `FlushErr(w)`: run0's error path. Any subset of the batch may have been
    applied, and the batch is dropped.
- **Crash.** `Crash` loses the Handovers, the batches and the unsaved
  acknowledgements. A bulk request in flight may or may not have been applied.
  The coordinator is not under `src/`, and spec.md does not say whether an
  acknowledgement sent before a crash can still be saved after it. The model
  drops it (`pending' = {}`), as a coordinator that handles one event at a
  time would. `RecoveryPointMonotone` and `ReplaySpec`, and the theorems
  about them, rely on this choice. With acknowledgements kept across a
  crash, a stale checkpoint could complete after the restart and move the
  recovery point back.
- **Restart.** `Restart` is `KafkaInputFormat::open` with the handle of
  `CheckpointStorage::load` (`LoadLatest`). The begin offset comes from
  `consumer_ranges` (`BeginOffset`), and the constant `OffsetRange` says
  which branch of it the job takes:
  - `"None"`: the recovered state, or `Offset::End` (the current end of the
    log) when there is none;
  - `"Direct"` and `"Timestamp"`: the configured begin offset `RangeBegin`,
    whatever state was recovered (`NoOffset` stands for a partition missing
    from the configured map, which also falls back to `Offset::End`). The
    end offset of a `Direct` range and the broker's resolution of a
    timestamp to an offset are not modelled.
- **History variables.** `base` is the offset the job last started from
  without a checkpoint. `emitted` and `idxCount` record what was handed to the
  sink and how often each record was sent.
- **Refinement.** `ReplaySpec` instantiates `SourceReplay` with
  `live <- up`, `next <- ReplayNext` (the recovered `state`, or `base`
  before the first record is emitted) and `recovered <- LoadLatest`.
  `SinkSpec` instantiates `BulkSink` with `live <- up`,
  `queued <- SinkQueued` (the sink Handover and the batches of writers still
  polling), `requests <- SinkRequests` (the batches of writers awaiting their
  bulk call) and `count <- idxCount`.

### SourceReplay: what a checkpointed source task promises

`SourceReplay` is the abstract specification of a source task under the
checkpoint protocol, written from the spec's sections on the checkpoint
coordinator and on recovery. Its state is the partition length `log`,
whether the task runs (`live`), the next offset it hands on (`next`) and the
recovery point `recovered`. `Hand` advances `next`; `Save` sets the recovery
point to an offset at most `next` and not behind the current one; `Restart`
resumes at the recovery point, or at the end of the partition without one.
`Pipeline` implements it (`ReplaySpec`): every step of the detailed model is
a step of `SourceReplay` or leaves its variables unchanged.

### BulkSink: what the Elasticsearch sink promises

`BulkSink` is the abstract specification of the sink. spec.md has no
section on this connector: it treats the search-index sink as an opaque
`OutputFormat` and promises sinks no more than at-least-once. So `BulkSink`
is abstracted from `elasticsearch_sink.rs` itself, and it builds in what that
code does: a request that fails is not retried, and its records may be
partly indexed (`MayFail`). It keeps one set of buffered
records (`queued`), the record sets of the bulk requests in flight
(`requests`), the index and how often each record was sent (`count`).

- `Write(r)` buffers a record that the sink does not hold yet.
- `Take(S)` moves a non-empty set of buffered records into a new request.
- `Answer(S)` ends a request and indexes its records: all of them, or any
  part of them when Elasticsearch may answer with errors (`MayFail`).
- `Crash` drops the buffer and the requests; each may have reached
  Elasticsearch.

In `Pipeline`, the sink Handover, the per-writer batches and the writers'
`poll`/`flush` states take the place of the single buffer. `SinkSpec` says
that the concurrent `batch_send` loops add nothing to what `BulkSink`
allows: they neither duplicate a record nor share one between requests.

### KafkaSplits: `create_input_splits` as a function of the metadata

`KafkaSplits` models `create_input_splits` as a pure function of the broker
metadata. The metadata gives each topic's partition count, or `NotFound` when
the topic is missing.

- `FirstLoop` is the topic and partition loop, written as a `FoldLeft` over
  the partitions in order. The accumulator carries `index` and the topic whose
  inner loop the `break` left.
- `Extend` is the replication. It adds `times - 1` rounds of clones with
  `create_kafka_connection = false`, where `times = ceil(min/len)`.
- `CreateInputSplitsOf` is the whole function, including the `Err` returns
  and the division at line 301 (`Panic`).
- The action `CreateInputSplits` is the builder's call. `Init` ranges over
  every metadata within the bounds.
- `Open(t)` is `KafkaInputFormat::open` of task `t` of an `Ok` result. It
  creates a consumer of its split's topic and partition, recorded in
  `consumers`, and, as the code does, never reads
  `create_kafka_connection`.

### FanIn: the head of a downstream task

`FanIn` models a downstream task's head, `SystemInputFormat`.

- `Open` subscribes one receiver per kind of parent edge (memory, network).
- `ElementIter` chooses the iterator: none panics, one gives a
  `ChannelIterator`, two give a `MultiChannelIterator`.
- `ChannelIteratorNext` is a blocking `recv`.
- `MultiChannelIteratorNext(k)` is `sel.ready()` returning receiver `k`,
  followed by `try_recv`.
- Both iterators check the coordinator status after a receive, in the same
  step. The status is read through `heart_beat`, which is not under `src/`,
  so the window between the check and the return is not modelled. Both
  panic on `Disconnected`.
- The channels follow `named_channel_with_base`: a bounded channel blocks the
  sender at `channel_size`; an unbounded one is capped at `MaxQueue` for
  model checking.
- The upstream publishers (`Publish`, `Disconnect`) and the coordinator
  (`Terminate`) are the environment.
- Element numbers wrap modulo `Wrap`, so an upstream may send forever and
  starvation can be expressed over a finite state space.

### VecSource: the per-task split of `vec_source`

`VecSource` models `vec_source`. Each task builds its iterator from the
records whose `index as u16` is congruent to its task number modulo
`num_tasks`. The cast is kept: `AsU16` keeps `Width` bits, and a run uses
`Width = 3` so that the index wraps within the bound. `VecAssumption` also
states that `2 ^ Width` is a positive number. That holds for every `Width`,
but the prover cannot derive it without induction.

## Runs

All runs start with `cd tla && tlc -workers 2 -config <cfg> <module>`. Every
run finishes in seconds.

| Run | cfg | Result | What it shows |
|---|---|---|---|
| pipeline_crash | `MCPipeline_crash.cfg` | pass | Checks `TypeOK`, `SourceAtLeastOnce`, `DuplicatesOnlyFromRecovery`, `RecoveryPointMonotone` and the refinements `ReplaySpec` and `SinkSpec` with failing bulk requests and one crash. The source side resumes at or before every record it has not handed on. A record is sent at most once per incarnation. The recovery point never moves back, though checkpoints complete out of order. The source task implements `SourceReplay`, and the sink implements `BulkSink`. |
| pipeline_direct | `MCPipeline_direct.cfg` | violation | Breaks `RecoveryPointMonotone` with `OffsetRange::Direct` from offset 0: a checkpoint completes at offset 2, a crash and restart begin the consumer at 0 again, and the next emitted record sets the offset state to 1. |
| pipeline_reliable | `MCPipeline_reliable.cfg` | pass | Checks `AtLeastOnce` and `EventuallyIndexed` (under `FairSpec`) with a reliable Elasticsearch and no crash. |
| pipeline_esfail | `MCPipeline_esfail.cfg` | violation | Breaks `AtLeastOnce`: an errors=true bulk response drops its batch. |
| pipeline_crashloss | `MCPipeline_crashloss.cfg` | violation | Breaks `AtLeastOnce`. Offset 0 is in the sink Handover when a checkpoint saves offset 1; a crash and restart from that checkpoint never index record 0. |
| splits | `KafkaSplits_pass.cfg` | pass | Checks `TypeOK` and `EveryTaskHasSplit` over all metadata of up to 2 topics of 0 to 3 partitions (or not found) and parallelism 1 to 5. |
| splits_consumers | `KafkaSplits_consumers.cfg` | violation | Breaks `OneKafkaConsumerPerPartition`: one partition with parallelism 2 gives two replica splits, and the `open` of each task creates a consumer of that partition. |
| splits_drop | `KafkaSplits_drop.cfg` | violation | Breaks `NoPartitionDropped`: one topic of 2 partitions with parallelism 1 gives Ok with one split. |
| splits_panic | `KafkaSplits_panic.cfg` | violation | Breaks `NoPanic`: a topic with 0 partitions divides by zero. |
| fanin | `MCFanIn.cfg` | pass | Checks `TypeOK` (including channel capacity) and `NoStarvation` under `FairSpec`. |
| fanin_drain | `MCFanIn_drain.cfg` | violation | Breaks `DrainBeforeClose`: the memory upstream disconnects while the network one runs, and the select returns the disconnected receiver, which panics. |
| vec_source | `VecSource.cfg` | pass | Checks `TypeOK` and `EveryRecordOnce` for vectors of up to 10 records, 1 to 3 tasks and an 8-valued cast. |

Every property of a passing run has a mutant in `PROJECT.json`. A mutant is
an operator written just before the definition it replaces, modelling a
plausible bug in that code, and TLC finds the property violated once it is
substituted. Examples:

- a snapshot of the fetch position instead of the iterator's;
- a poll that peeks without removing;
- a save that replaces the stored checkpoints;
- a biased select;
- a write that drops the record instead of blocking on a full Handover.

### Bounds and why they suffice

**Pipeline**

- Sizes: 3 records, 2 writers, a batch of 2, a source Handover of 1, a sink
  Handover of 2, 2 checkpoint ids, and at most 1 crash (0 in the reliable run).
- The records go through every path:
  - a record is in the source Handover when a checkpoint is taken;
  - the sink Handover fills, so `Emit` blocks;
  - two writers hold batches at once, one full and one partial;
  - two checkpoints are pending together and complete in either order;
  - a crash hits with records in every buffer, before or after the first
    checkpoint.
- The inductive invariant of the proof (below) was also checked with 3
  checkpoint ids and 2 crashes: 160 540 distinct states.
- `MCSymmetry` permutes the writers. The writers are interchangeable, and no
  property names one.

**KafkaSplits**

- Two topics are enough to leave an inner loop at `index == min` and continue
  in the next topic.
- Partition counts go from 0 to 3, and the parallelism is between 1 and 5.
  Within these bounds the split count falls below, at and above the
  parallelism, and every `times` from 1 to 5 occurs.

**FanIn**

- Channel size 2, and an unbounded channel capped at 3, with elements wrapping
  modulo 3. Both kinds of base are explored.
- Every parent set is covered: memory only, network only, and both.

**VecSource**

- With `Width = 3`, records 8 and 9 wrap to 0 and 1. With 3 tasks,
  `8 % 3 != 0`, so the wrap changes which task a record goes to.

### Fairness

`Pipeline.Fairness` is weak fairness for the threads that loop while the worker
runs:

- the consumer thread;
- the task thread;
- the coordinator's completion of acknowledged checkpoints;
- the restart;
- each writer task of `run`, whose tasks loop forever in `run0`.

The broker, checkpoint triggers and crashes are the environment and get no
fairness.

`FanIn.Fairness` is weak fairness for the task thread. It adds strong
fairness for each receive of the select: crossbeam's `Select::ready` picks
among the ready operations at random, which gives each operation that is ready
infinitely often its turn with probability 1. Publishers and the coordinator
get none.

## Findings

These come from the violation runs; `PROJECT.json` has the details.

1. **Bulk errors lose records.** `run0` logs and drops a failed or partly
   failed bulk batch (`elasticsearch_sink.rs:181`). The spec says transient
   errors are retried.
2. **The sink is outside the checkpoint.** Its `CheckpointFunction` is empty
   (`elasticsearch_sink.rs:115`). A checkpoint can commit source offsets ahead
   of unindexed records, and a crash then loses them.
3. **Extra partitions are dropped.** `create_input_splits` silently drops the
   partitions beyond the parallelism of a single-topic source (the `break` at
   line 287).
4. **Division by zero.** `create_input_splits` panics when the topics have no
   partitions (line 301).
5. **`MultiChannelIterator` panics** when one upstream kind disconnects while
   the other still has elements (`system_input_format.rs:199`). The spec says
   the task drains and closes.
6. **Configured offset ranges ignore the checkpoint.** For
   `OffsetRange::Direct` and `::Timestamp`, `consumer_ranges`
   (`input_format.rs:81`) seeks to the configured begin offset whatever state
   was restored. A restarted task re-reads from there, and its recovery point
   falls behind the last completed checkpoint. The spec says a task restarts
   from its last completed checkpoint.
7. **Replicas do not share a consumer.** `KafkaInputFormat::open`
   (`input_format.rs:201`) creates a consumer without reading
   `create_kafka_connection`, so each replica of a partition consumes it on
   its own. The spec says replicas share the physical consumer.

Two more behaviours were met while modelling and are recorded here without a
run, because the spec does not settle them:

- A restart before the first completed checkpoint begins at `Offset::End`
  (`input_format.rs:156`) and skips the records fetched but not handed on.
  `SourceAtLeastOnce` is stated from `base`, the offset that start began at,
  for this reason.
- The replication of `create_input_splits` gives `len * ceil(min/len)`
  splits, more than the parallelism when it is not a multiple of the
  partition count (line 301): 2 partitions and parallelism 3 give 4.

## Proofs

Six modules hold the proofs:

- `PipelineProofs` extends `Pipeline` and proves three theorems.
- `SinkProofs` extends `PipelineProofs` and proves the sink's properties.
- `PipelineRefinement` extends `PipelineProofs` and proves the refinement of
  `SourceReplay`.
- `SinkRefinement` extends `SinkProofs` and proves the refinement of
  `BulkSink`.
- `FanInProofs` extends `FanIn`.
- `VecSourceProofs` extends `VecSource`.

The theorems hold for all values of the constants that satisfy the
`ASSUME`s, `RangeAssumption` among them. Some theorems add a hypothesis:

- `SourceSafe`, `RecoveryMonotone` and `Refinement` assume
  `OffsetRange = "None"`, the default of the Kafka source builder. Finding 6
  breaks them for the other two ranges.
- `ReliableAtLeastOnce` assumes `~EsMayFail` and `MaxCrashes = 0`, the
  setting of `pipeline_reliable`. Findings 1 and 2 break it otherwise.
- `TypeCorrect`, `SinkNoDuplicates`, `SinkImplementsBulk` and the `FanIn`
  and `VecSource` theorems add no hypothesis.

| Theorem | Statement | Property checked by TLC |
|---|---|---|
| `TypeCorrect` | `Spec => []TypeOK` | `TypeOK` |
| `SourceSafe` | `OffsetRange = "None" => (Spec => []SourceAtLeastOnce)` | `SourceAtLeastOnce` |
| `RecoveryMonotone` | `OffsetRange = "None" => (Spec => RecoveryPointMonotone)` | `RecoveryPointMonotone` |
| `SinkNoDuplicates` | `Spec => []DuplicatesOnlyFromRecovery` | `DuplicatesOnlyFromRecovery` |
| `Refinement` | `OffsetRange = "None" => (Spec => ReplaySpec)` | `ReplaySpec` |
| `ReliableAtLeastOnce` | `~EsMayFail /\ MaxCrashes = 0 => (Spec => []AtLeastOnce)` | `AtLeastOnce` |
| `FanInTypeCorrect` (`FanInProofs`) | `Spec => []TypeOK` | `FanIn.TypeOK` |
| `SinkImplementsBulk` (`SinkRefinement`) | `Spec => SinkSpec` | `SinkSpec` |
| `VecTypeCorrect` (`VecSourceProofs`) | `Spec => []TypeOK` | `VecSource.TypeOK` |
| `EveryRecordOnceHolds` (`VecSourceProofs`) | `Spec => []EveryRecordOnce` | `EveryRecordOnce` |

The safety theorems about `Pipeline` share one layout:

- an inductive invariant, first checked by TLC as an invariant of
  `MCPipeline_crash` (160540 distinct states);
- `...Init` (`Init => Inv`);
- `...Next` (`Inv /\ [Next]_vars => Inv'`), with one case per action and, under
  it, one step per conjunct that the action can disturb;
- a temporal step that combines them by PTL.

**Type correctness.** `TypeOK` alone is not inductive, for two reasons:

- `ConsumerFetch` keeps `fetchPos` within `Offsets` only because
  `fetchPos < log`.
- `Emit` keeps `state` within `Offsets` only because every offset in `srcHo`
  is below `log`.

The proof therefore uses `TypeInv == TypeOK /\ Bounds /\ HasLatest`:

- `Bounds` says that every offset in the Handovers and batches is below
  `log`, and that `fetchPos`, `state` and every checkpoint offset are at most
  `log`.
- `HasLatest` says that a non-empty `stored` has a checkpoint of maximal id,
  so `LoadLatest` is an offset.

`TypeOK` also bounds the Handovers by `SrcCap` and `SinkCap` and each batch
by `BatchSize`. Those conjuncts are inductive: `ConsumerFetch`, `Emit` and
`PollRecord` append only below the bound, and every other step shortens or
empties the sequences.

The proof rests on small lemmas:

- `LoadLatestType`;
- `AppendBelow` and `TailBelow`, about bounds of `Append` and `Tail`;
- `ContentsType`.

**Source-side at-least-once.** `SourceAtLeastOnce` is proved from
`IInv == TypeInv /\ SourceInv`. `SourceInv` says five things:

- While the worker runs, the source Handover holds exactly the consecutive
  offsets `HoStart .. fetchPos - 1`.
- While it runs, every offset from `base` up to `HoStart` has been emitted.
- `state` names an offset below which everything from `base` has been
  emitted.
- So does every acknowledged or stored checkpoint: `snapshot_state` copies
  `state`, and `Restart` resumes both `state` and `fetchPos` from such a
  checkpoint.
- A stopped worker has an empty Handover and no pending acknowledgements.

The key steps are the following:

- `Emit` moves `HoStart` and `state` up by one together.
- `Restart` with a stored checkpoint sets `HoStart = fetchPos = state` to its
  offset.
- `Restart` without one moves `base` to the end of the partition. This is
  why the property is stated from `base`: records before `base` are the ones
  the restart at `Offset::End` skips.

**Monotone recovery point.** `RecoveryPointMonotone` is proved from
`IInv /\ MonoInv`. `MonoInv` says:

- While the worker runs and has a state, `state = HoStart`.
- Every acknowledged or stored checkpoint has an offset at most `state`.
- A checkpoint of greater id never has a smaller offset.
- Ids are below `nextId` and identify checkpoints.

`TriggerCheckpoint` keeps the order because the new id is the greatest and
the new offset is `state`. `Restart` keeps the bound on offsets because it
resumes at the offset of the greatest id. `MonoStep` then shows that the
single action that changes `stored`, `CompleteCheckpoint`, either saves an
older checkpoint, leaving the one `LoadLatest` chooses in place, or saves a
newer one with a greater or equal offset. The `LatestIs` lemma identifies the
`CHOOSE` of `LoadLatest` with the checkpoint of greatest id.

**Duplicates only from recovery.** `SinkNoDuplicates` is proved from
`DupInv == TypeInv /\ Stopped /\ InFlightBelow /\ Disjoint /\ CountBound /\ SendBound`.
TLC checked it first as an invariant, with 3 writers and 2 crashes, and
again with `OffsetRange = "Direct"` and larger Handovers (227 839 distinct
states). The property alone is not inductive: a bulk request adds one to the
count of each record of its batch, and nothing in the property says that the
record cannot be sent again. `DupInv` says:

- a stopped worker buffers nothing (`Stopped`);
- every buffered offset is below `fetchPos` (`InFlightBelow`), so
  `ConsumerFetch` never fetches an offset that is still buffered;
- no offset is held twice (`Disjoint`): each Handover holds an offset at most
  once (`IsInjective`), and the two Handovers and the batches of different
  writers share none;
- a record has been sent at most once per incarnation so far
  (`CountBound`), and a record that may still be sent, because it is
  buffered or not yet fetched, at most once per earlier incarnation
  (`SendBound`).

`Emit` and `PollRecord` move an offset from one place to another, so the set
of buffered offsets does not grow. `Disjoint` survives because the moved
offset was the head of an injective Handover. `FlushStep` covers `FlushOk`
and `FlushErr`: the applied records leave every buffer, they are below
`fetchPos`, and so they cannot be sent again in this incarnation. `Crash`
raises `crashes` together with the counts it may apply. `Restart` may begin
anywhere, because `CountBound` for a stopped worker bounds every count by
`crashes`. The lemmas `ContentsAppend` and `ContentsTail` state what
`Append` and `Tail` do to a sequence's contents and injectivity.

**At-least-once with a reliable Elasticsearch.** `ReliableAtLeastOnce`
is proved from `RelInv == TypeInv /\ up /\ AtLeastOnce`, which TLC also
checked on the reliable instance with 4 records. With `MaxCrashes = 0`,
`Crash` is never enabled, so the worker stays up and `Restart` never
fires. With `~EsMayFail`, `FlushErr` is never enabled. The remaining steps
each buffer or index everything that was buffered or indexed before
(`KeepsFetched`):

- `ConsumerFetch` adds the fetched offset to the source Handover;
- `Emit` and `PollRecord` move an offset between buffers (`ContentsTail`,
  `ContentsAppend`);
- `FlushOk` moves the batch into `indexed`.

**FanIn.** `TypeOK` is inductive by itself, so `FanInTypeCorrect` needs no
strengthening.

- `Publish` is guarded by `Len(ch[k]) < Capacity`.
- A receive removes the head (`ReceiveType`, `TailChannel`).
- `(n + 1) % Wrap` stays an element number (`NextElem`, from `Wrap >= 2`).


**Refinement.** `Refinement` shows that `Pipeline` implements
`SourceReplay` under the mapping `live <- up`, `next <- ReplayNext`,
`recovered <- LoadLatest`. It is proved from
`Inv == IInv /\ MonoInv /\ RefInv`, where `RefInv` says that a running
worker that has emitted nothing since it started without a checkpoint has its
Handover starting at `base`. With it, `ReplayNext = HoStart` while the worker
runs (`ReplayNextIsHoStart`), so:

- `Init` maps to the abstract `Init` (`RefineInit`);
- `Emit` is `Hand`: `HoStart` moves up by one and stays below `log`;
- `CompleteCheckpoint` is `Save` when it changes the latest checkpoint, by
  `MonoStep` and `LatestIs` applied to the new `stored`, and a stutter
  otherwise; its offset is at most `state = HoStart`, by `MonoInv`;
- `Crash` is `Crash`, `Restart` is `Restart`, `Produce` is `Produce`;
- every other action changes none of the mapped variables and is a stutter
  (`RefineStutter`).

`RefineStep` states the step case, and the theorem combines it with
`InvInvariant` (`Spec => []Inv`) by PTL.

**Refinement of BulkSink.** `SinkImplementsBulk` shows that `Pipeline`
implements `BulkSink`. It is proved from `SInv == DupInv /\ FlushNonEmpty`.
`FlushNonEmpty` says that a writer awaits a bulk call only with a non-empty
batch. TLC checked `SInv` first as an invariant of `MCPipeline_crash`. The
step cases are these:

- `Emit` is `Write`: by `Disjoint`, the head of the source Handover is in
  neither the sink Handover nor any batch.
- `PollRecord` is a stutter: the record moves from the Handover into a batch
  of a polling writer, and both are part of `SinkQueued`.
- `BeginFlush` is `Take` of the writer's batch: by `Disjoint`, the batch
  shares no record with the Handover or any other batch, so leaving the
  buffer removes exactly its records.
- `FlushOk` and `FlushErr` are `Answer`: no other writer in flush has the
  same record set, because batches are disjoint and, by `FlushNonEmpty`,
  non-empty. So the request leaves `SinkRequests` alone. `CountIndexed` is
  the abstract `Sent`.
- `Crash` is `Crash`: what it may apply lies in the batches in flush, which
  are `UNION SinkRequests`.
- `Restart` is `Restart`, and every other action is a stutter
  (`SinkStutter`).

**VecSource.** `VecTypeCorrect` and `EveryRecordOnceHolds` are proved from
`VInv`. It adds two facts to `TypeOK`: an opened task is one of the
`num_tasks`, and a built task's output is `TaskData(num_tasks, t)`, while an
unbuilt one's is empty. The difficult part is `TaskData` itself. It lists the
kept indices by rank, the j-th being the index with j - 1 kept indices below
it, found by `CHOOSE`. The lemmas show, by counting and without induction,
that this is the set in increasing order:

- `RankBounds`: the rank of a member lies below the size of the set, and a
  smaller member has a smaller rank (`FS_RemoveElement`, `FS_Subset`).
- `RankOnto`: every number below the size is some member's rank. The rank
  map is injective into an interval of the same size, so by `FS_Injection`
  it is onto.
- `EnumProps`: the list is a sequence of members, strictly increasing, and
  contains every member.

With these lemmas, each record lands in exactly one task: the one numbered
`AsU16(i) % num_tasks`. This uses `2 ^ Width > 0` from `VecAssumption`.

Only TLC checks:

- **Liveness.** `EventuallyIndexed` and `NoStarvation`, and anything else
  that needs fairness or `ENABLED`, are beyond the prover and checked by TLC
  only.
- **What recursive operators compute.** `KafkaSplits` builds its splits
  with `FoldLeft` and `FlattenSeq`. Their definitions are recursive, so
  `TypeOK` and `EveryTaskHasSplit` are
  model-checked only. Writing them as recursive functions would not help. To
  unfold a recursive function, the prover must show that the function
  exists, and that again is an induction with an operator parameter
  (`NatInduction`, `RecursiveFcnOfNat`). A trial proof confirmed that the
  installed backends cannot instantiate one.

## Not modelled

- **`ResourceManager`** (`rlink/src/deployment/mod.rs`) only dispatches to
  the local, standalone, YARN and Kubernetes managers, which are not under
  `src/`; it has no state of its own.
- **The example output mapper and the showcase `main`** are a record
  conversion (parse, JSON, key) and a call of `execute`; no property of the
  runtime depends on them.
- **`CheckpointStorage::load_by_checkpoint_id` and TTL pruning** are not used
  by recovery, which always loads the latest checkpoint.
- **Channel metrics and `ChannelBaseOn` parsing** (`rlink/src/channel/mod.rs`)
  are gauges, counters and string conversion; the channel tests in that file
  are not implementation.
- **Constructors, `close`, `schema` and `name`** of the sources and the sink
  set fields or return constants; the models start from the state they build.
- **JSON conversion in the sink** (`Index`, `to_json`) is data; a record is
  its offset.
