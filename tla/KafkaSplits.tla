----------------------------- MODULE KafkaSplits -----------------------------
(***************************************************************************)
(* KafkaInputFormat::create_input_splits: the split enumerator the job     *)
(* builder calls once per Kafka source with the operator's parallelism as  *)
(* min_num_splits.  The broker metadata is the input: for each configured  *)
(* topic, in order, its number of partitions or NotFound when the metadata *)
(* has no such topic (or metadata cannot be fetched).                      *)
(*                                                                         *)
(* A split is a record of its split_number, its topic (the topic's index),  *)
(* its partition id and the create_kafka_connection flag.  The result is   *)
(* Ok with the splits, Err, or Panic (the integer division of line 301).   *)
(*                                                                         *)
(* After an Ok result every task of the source opens its split (task t    *)
(* the split at position t, as the job builder assigns them) and          *)
(* KafkaInputFormat::open starts a consumer of the split's partition.     *)
(***************************************************************************)
EXTENDS Naturals, Sequences, SequencesExt

CONSTANTS
  MaxTopics,      \* bound: topics of the source
  MaxPartitions,  \* bound: partitions of one topic
  MaxParallelism, \* bound: min_num_splits (u16)
  NotFound        \* metadata.topics() has no entry for the topic

ASSUME SplitsAssumption ==
  /\ MaxTopics \in Nat \ {0} /\ MaxPartitions \in Nat /\ MaxParallelism \in Nat
  /\ NotFound \notin Nat

VARIABLES
  metadata,        \* metadata[t]: partition count of topic t, or NotFound
  min_num_splits,  \* the parallelism the builder asks for
  result,          \* what create_input_splits returned; kind "none" before
  opened,          \* tasks that ran open
  consumers        \* <<task, topic, partition>>: the Kafka consumers started

vars == <<metadata, min_num_splits, result, opened, consumers>>

Split(n, t, p, create) ==
  [split_number |-> n, topic |-> t, partition |-> p, create |-> create]
-----------------------------------------------------------------------------
(***************************************************************************)
(* The first loop visits the partitions of all topics in order; the acc    *)
(* holds input_splits, index and the topic whose inner loop was left by    *)
(* the break at index == min_num_splits.                                   *)
(***************************************************************************)
Partitions(md) ==
  FlattenSeq([t \in 1 .. Len(md) |-> [p \in 1 .. md[t] |-> <<t, p - 1>>]])

\* A plausible fault: the split is numbered after index += 1.
VisitNumberAfterIncrement(m, acc, tp) ==
  IF acc.broken = tp[1] THEN acc
  ELSE [input_splits |-> Append(acc.input_splits, Split(acc.index + 1, tp[1], tp[2], TRUE)),
        index |-> acc.index + 1,
        broken |-> IF acc.index + 1 = m THEN tp[1] ELSE 0]

Visit(m, acc, tp) ==
  IF acc.broken = tp[1] THEN acc
  ELSE [input_splits |-> Append(acc.input_splits, Split(acc.index, tp[1], tp[2], TRUE)),
        index |-> acc.index + 1,
        broken |-> IF acc.index + 1 = m THEN tp[1] ELSE 0]

FirstLoop(md, m) ==
  LET step(acc, tp) == Visit(m, acc, tp)
  IN  FoldLeft(step, [input_splits |-> << >>, index |-> 0, broken |-> 0],
               Partitions(md)).input_splits

\* times - 1 rounds of clones of every split, with the same split_number
\* and create_kafka_connection = false.
Replicas(s, times) ==
  FlattenSeq([r \in 1 .. (times - 1) |->
                [i \in 1 .. Len(s) |-> [s[i] EXCEPT !.create = FALSE]]])

\* A plausible fault: times rounded down instead of up.
ExtendFloor(s, m) == s \o Replicas(s, m \div Len(s))

Extend(s, m) == s \o Replicas(s, (m + Len(s) - 1) \div Len(s))

CreateInputSplitsOf(md, m) ==
  IF \E t \in 1 .. Len(md) : md[t] = NotFound THEN [kind |-> "Err"]
  ELSE LET s == FirstLoop(md, m) IN
       CASE Len(s) > m                -> [kind |-> "Err"]
         [] Len(s) < m /\ Len(s) = 0  -> [kind |-> "Panic"]
         [] Len(s) < m                -> [kind |-> "Ok", splits |-> Extend(s, m)]
         [] OTHER                     -> [kind |-> "Ok", splits |-> s]
-----------------------------------------------------------------------------
Metadata ==
  UNION {[1 .. n -> (0 .. MaxPartitions) \cup {NotFound}] : n \in 1 .. MaxTopics}

Init ==
  /\ metadata \in Metadata
  /\ min_num_splits \in 1 .. MaxParallelism
  /\ result = [kind |-> "none"]
  /\ opened = {}
  /\ consumers = {}

\* The builder calls create_input_splits.
CreateInputSplits ==
  /\ result = [kind |-> "none"]
  /\ result' = CreateInputSplitsOf(metadata, min_num_splits)
  /\ UNCHANGED <<metadata, min_num_splits, opened, consumers>>

\* KafkaInputFormat::open of task t: it reads topic and partition from its
\* split and calls create_kafka_consumer for them; the split's
\* create_kafka_connection flag is not read.
Open(t) ==
  /\ result.kind = "Ok"
  /\ t \notin opened
  /\ opened' = opened \cup {t}
  /\ consumers' = consumers \cup
       {<<t, result.splits[t + 1].topic, result.splits[t + 1].partition>>}
  /\ UNCHANGED <<metadata, min_num_splits, result>>

Next ==
  \/ CreateInputSplits
  \/ \E t \in 0 .. (min_num_splits - 1) : Open(t)

Spec == Init /\ [][Next]_vars
-----------------------------------------------------------------------------
Ok == result.kind = "Ok"

\* The (topic, partition) pairs the splits of an Ok result name.
Assigned == {<<s.topic, s.partition>> : s \in Range(result.splits)}

(* Types: every split of an Ok result names a real topic and partition    *)
(* and has a split_number below min_num_splits.                           *)
TypeOK ==
  /\ metadata \in Metadata
  /\ min_num_splits \in 1 .. MaxParallelism
  /\ result.kind \in {"none", "Ok", "Err", "Panic"}
  /\ Ok => result.splits \in Seq([split_number : 0 .. (min_num_splits - 1),
                                   topic : DOMAIN metadata,
                                   partition : 0 .. (MaxPartitions - 1),
                                   create : BOOLEAN])
  /\ opened \subseteq 0 .. (min_num_splits - 1)
  /\ consumers \subseteq opened \X (DOMAIN metadata) \X (0 .. (MaxPartitions - 1))

(* Every task of the source gets a split: an Ok result has at least       *)
(* min_num_splits splits (the extension rounds times up).                 *)
EveryTaskHasSplit == Ok => Len(result.splits) >= min_num_splits

(* The spec (job builder, Assign inputs; open question on                 *)
(* input_splits.len() > min_num_splits): an enumerator with more          *)
(* partitions than the parallelism fails, it does not silently drop them:  *)
(* an Ok result assigns every partition of every topic.                   *)
NoPartitionDropped ==
  Ok => \A t \in DOMAIN metadata : \A p \in 0 .. (metadata[t] - 1) : <<t, p>> \in Assigned

(* create_input_splits returns Ok or Err for every metadata: it does not  *)
(* panic.                                                                 *)
NoPanic == result.kind # "Panic"

(* The spec (assign inputs; split replication): replicas of a split share *)
(* the physical consumer, so every partition has at most one Kafka        *)
(* consumer among the tasks that opened their split.                      *)
OneKafkaConsumerPerPartition ==
  \A tp \in (DOMAIN metadata) \X (0 .. (MaxPartitions - 1)) :
    Cardinality({t \in opened : <<t, tp[1], tp[2]>> \in consumers}) <= 1
=============================================================================
