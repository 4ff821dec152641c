------------------------------ MODULE VecSource ------------------------------
(***************************************************************************)
(* vec_source: an IteratorInputFormat whose builder gives every task of   *)
(* the source the records whose index, cast to u16, is congruent to its    *)
(* task_number modulo num_tasks (all records when num_tasks = 1).  Each    *)
(* task opens the format with its context and calls record_iter once; the *)
(* builder is an FnOnce taken out of its Option.                           *)
(*                                                                         *)
(* A record is its index in data.  The cast `index as u16` keeps the low   *)
(* Width bits: the model keeps the width as a constant so that a vector    *)
(* longer than 2^Width can be checked.                                     *)
(***************************************************************************)
EXTENDS Naturals, Sequences, FiniteSets

CONSTANTS
  MaxData,   \* bound: records in data
  MaxTasks,  \* bound: num_tasks (the source's parallelism)
  Width      \* bits of the cast of the index (16 for u16)

\* 2^Width, the number of values of the cast, is a positive number.
ASSUME VecAssumption ==
  /\ MaxData \in Nat /\ MaxTasks \in Nat \ {0} /\ Width \in Nat
  /\ 2 ^ Width \in Nat \ {0}

VARIABLES
  len,        \* Len(data)
  num_tasks,  \* context.task_id.num_tasks
  opened,     \* opened[t]: task t ran open (input_split and context set)
  built,      \* built[t]: task t called record_iter
  out         \* out[t]: records task t's iterator yields

vars == <<len, num_tasks, opened, built, out>>

Tasks == 0 .. (MaxTasks - 1)

\* `index as u16`.
AsU16(i) == i % (2 ^ Width)

\* A plausible fault: the index is divided by num_tasks, not reduced.
TaskDataDiv(n, t) ==
  IF n = 1 THEN [i \in 1 .. len |-> i - 1]
  ELSE LET idx == {i \in 0 .. (len - 1) : AsU16(i) \div n = t}
       IN  [j \in 1 .. Cardinality(idx) |->
              CHOOSE i \in idx : Cardinality({x \in idx : x < i}) = j - 1]

\* The filter_map of the builder: the records of task t, in data order.
TaskData(n, t) ==
  IF n = 1 THEN [i \in 1 .. len |-> i - 1]
  ELSE LET idx == {i \in 0 .. (len - 1) : AsU16(i) % n = t}
       IN  [j \in 1 .. Cardinality(idx) |->
              CHOOSE i \in idx : Cardinality({x \in idx : x < i}) = j - 1]
-----------------------------------------------------------------------------
Init ==
  /\ len \in 0 .. MaxData
  /\ num_tasks \in 1 .. MaxTasks
  /\ opened = [t \in Tasks |-> FALSE]
  /\ built = [t \in Tasks |-> FALSE]
  /\ out = [t \in Tasks |-> << >>]

\* IteratorInputFormat::open keeps the input split and the context.
Open(t) ==
  /\ t < num_tasks
  /\ ~opened[t]
  /\ opened' = [opened EXCEPT ![t] = TRUE]
  /\ UNCHANGED <<len, num_tasks, built, out>>

\* record_iter is called before open.
RecordIterUnopened(t) ==
  /\ ~built[t]
  /\ built' = [built EXCEPT ![t] = TRUE]
  /\ out' = [out EXCEPT ![t] = TaskData(num_tasks, t)]
  /\ UNCHANGED <<len, num_tasks, opened>>

\* IteratorInputFormat::record_iter takes the builder, the split and the
\* context (each unwrap panics on a second call) and runs the builder.
RecordIter(t) ==
  /\ opened[t]
  /\ ~built[t]
  /\ built' = [built EXCEPT ![t] = TRUE]
  /\ out' = [out EXCEPT ![t] = TaskData(num_tasks, t)]
  /\ UNCHANGED <<len, num_tasks, opened>>

Next == \E t \in Tasks : Open(t) \/ RecordIter(t)

Spec == Init /\ [][Next]_vars
-----------------------------------------------------------------------------
Done == \A t \in 0 .. (num_tasks - 1) : built[t]

(* Types; a task builds its iterator only after open, and only a task   *)
(* below num_tasks does.                                                  *)
TypeOK ==
  /\ len \in 0 .. MaxData
  /\ num_tasks \in 1 .. MaxTasks
  /\ opened \in [Tasks -> BOOLEAN]
  /\ built \in [Tasks -> BOOLEAN]
  /\ out \in [Tasks -> Seq(0 .. (len - 1))]
  /\ \A t \in Tasks : built[t] => opened[t] /\ t < num_tasks

(* Once every task of the source has built its iterator, each record of  *)
(* data is yielded by exactly one task, even when the index wraps in the  *)
(* u16 cast; and every task yields its records in data order.            *)
EveryRecordOnce ==
  Done =>
    /\ \A i \in 0 .. (len - 1) :
         Cardinality({t \in 0 .. (num_tasks - 1) : \E j \in DOMAIN out[t] : out[t][j] = i}) = 1
    /\ \A t \in 0 .. (num_tasks - 1) :
         \A j \in 1 .. (Len(out[t]) - 1) : out[t][j] < out[t][j + 1]
=============================================================================
