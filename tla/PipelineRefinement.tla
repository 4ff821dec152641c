------------------------ MODULE PipelineRefinement ------------------------
(***************************************************************************)
(* Proof that the Kafka source task of Pipeline, with OffsetRange::None,   *)
(* implements SourceReplay under the mapping ReplayNext / LoadLatest.      *)
(*                                                                         *)
(* While the worker runs, ReplayNext is the first offset of the source    *)
(* Handover (HoStart): either the checkpoint state, which MonoInv ties to  *)
(* HoStart, or, before the first record since an open without a          *)
(* checkpoint, base, which RefInv ties to HoStart.  So Emit, which hands  *)
(* on the Handover's head, is the abstract Hand; CompleteCheckpoint is    *)
(* Save (or a stutter) by MonoStep and because every checkpoint offset is *)
(* at most state; Crash and Restart are their abstract namesakes.         *)
(***************************************************************************)
EXTENDS PipelineProofs

\* Before the task has handed on a record since its last open, the
\* Handover starts at base.
RefInv == up /\ state = NoOffset => HoStart = base

Inv == IInv /\ MonoInv /\ RefInv

THEOREM RefInvInit == Init => RefInv
<1> SUFFICES ASSUME Init PROVE RefInv
  OBVIOUS
<1>1. fetchPos \in Nat /\ base = fetchPos /\ srcHo = << >> /\ Len(srcHo) = 0
  BY RangeAssumption, BoundAssumption DEF Init, BeginOffset
<1>2. QED
  BY <1>1 DEF RefInv, HoStart

THEOREM RefInvNext ==
  ASSUME OffsetRange = "None"
  PROVE  Inv /\ [Next]_vars => RefInv'
<1> SUFFICES ASSUME TypeInv, SourceInv, MonoInv, RefInv, [Next]_vars PROVE RefInv'
  BY DEF Inv, IInv
<1> USE DEF TypeInv, Offsets
<1>0. /\ fetchPos \in Nat /\ log \in Nat
      /\ srcHo \in Seq(Offsets) /\ Len(srcHo) \in Nat
  BY LenProperties DEF TypeOK
<1>1. CASE ConsumerFetch
  <2>1. /\ srcHo' = Append(srcHo, fetchPos) /\ fetchPos' = fetchPos + 1
        /\ UNCHANGED <<up, state, base>>
    BY <1>1 DEF ConsumerFetch
  <2>2. Len(srcHo') = Len(srcHo) + 1
    BY <1>0, <2>1, AppendFacts DEF TypeOK
  <2>3. QED
    BY <1>0, <2>1, <2>2 DEF RefInv, HoStart
<1>2. CASE Emit
  <2>1. state' = Head(srcHo) + 1 /\ srcHo # << >>
    BY <1>2 DEF Emit
  <2>2. Head(srcHo) \in Offsets
    <3>1. Len(srcHo) \in Nat \ {0} /\ Head(srcHo) = srcHo[1]
      BY <1>0, <2>1, TailFacts
    <3>2. 1 \in 1 .. Len(srcHo)
      BY <3>1
    <3>3. srcHo[1] \in Offsets
      BY <1>0, <3>2, ElementOfSeq
    <3>4. QED
      BY <3>1, <3>3
  <2>3. QED
    BY <2>1, <2>2, FlagAssumption DEF RefInv
<1>3. CASE Crash
  BY <1>3 DEF Crash, RefInv
<1>4. CASE Restart
  <2>1. /\ ~up /\ state' = LoadLatest /\ fetchPos' = BeginOffset(LoadLatest)
        /\ base' = IF LoadLatest = NoOffset THEN BeginOffset(NoOffset) ELSE base
        /\ UNCHANGED srcHo
    BY <1>4 DEF Restart
  <2>2. srcHo' = << >> /\ Len(srcHo') = 0
    BY <2>1, EmptySeq DEF SourceInv
  <2>3. CASE LoadLatest = NoOffset
    <3>1. fetchPos' = log /\ base' = log
      BY <2>1, <2>3 DEF BeginOffset
    <3>2. QED
      BY <1>0, <2>2, <3>1 DEF RefInv, HoStart
  <2>4. CASE LoadLatest # NoOffset
    BY <2>1, <2>4 DEF RefInv
  <2>5. QED
    BY <2>3, <2>4
<1>5. CASE UNCHANGED <<up, fetchPos, srcHo, state, base>>
  BY <1>5 DEF RefInv, HoStart
<1>6. QED
  BY <1>1, <1>2, <1>3, <1>4, <1>5 DEF Next, vars, Produce, TriggerCheckpoint,
     CompleteCheckpoint, PollRecord, BeginFlush, FlushOk, FlushErr

THEOREM InvInvariant ==
  ASSUME OffsetRange = "None"
  PROVE  Spec => []Inv
<1>1. Init => Inv
  BY TypeInvInit, SourceInvInit, MonoInvInit, RefInvInit DEF Inv, IInv
<1>2. Inv /\ [Next]_vars => Inv'
  BY TypeInvNext, SourceInvNext, MonoInvNext, RefInvNext DEF Inv, IInv
<1>3. QED
  BY <1>1, <1>2, PTL DEF Spec

\* While the worker runs, the abstract next offset is the Handover's first.
LEMMA ReplayNextIsHoStart ==
  ASSUME MonoInv, RefInv, up, state \in Offsets \cup {NoOffset}
  PROVE  ReplayNext = HoStart
BY DEF ReplayNext, MonoInv, RefInv, Offsets

THEOREM RefineInit ==
  ASSUME OffsetRange = "None"
  PROVE  Init => Replay!Init
<1> SUFFICES ASSUME Init PROVE Replay!Init
  OBVIOUS
<1>1. state = NoOffset /\ base = 0 /\ log = 0 /\ up
  BY DEF Init, BeginOffset
<1>2. ReplayNext = 0 /\ LoadLatest = NoOffset
  BY <1>1, FlagAssumption DEF ReplayNext, LoadLatest, Init
<1>3. QED
  BY <1>1, <1>2 DEF Replay!Init

\* Steps that leave the partition, the worker, the state, base and the
\* storage alone are stutters of SourceReplay.
LEMMA RefineStutter ==
  ASSUME UNCHANGED <<log, up, state, base, stored>>
  PROVE  UNCHANGED Replay!avars
BY DEF Replay!avars, ReplayNext, LoadLatest

THEOREM RefineStep ==
  ASSUME OffsetRange = "None"
  PROVE  Inv /\ Inv' /\ [Next]_vars => [Replay!Next]_Replay!avars
<1> SUFFICES ASSUME TypeInv, SourceInv, MonoInv, RefInv, TypeInv', MonoInv', [Next]_vars
             PROVE  [Replay!Next]_Replay!avars
  BY DEF Inv, IInv
<1> USE FlagAssumption DEF Offsets
<1>0. /\ log \in Nat /\ fetchPos \in Nat
      /\ srcHo \in Seq(Offsets) /\ Len(srcHo) \in Nat
      /\ state \in Offsets \cup {NoOffset}
  BY LenProperties DEF TypeInv, TypeOK
<1>1. CASE Produce
  <2>1. /\ log < MaxRecords /\ log' = log + 1
        /\ UNCHANGED <<up, state, base, stored>>
    BY <1>1 DEF Produce
  <2>2. ReplayNext' = ReplayNext /\ LoadLatest' = LoadLatest
    BY <2>1 DEF ReplayNext, LoadLatest
  <2>3. QED
    BY <2>1, <2>2 DEF Replay!Next, Replay!Produce
<1>2. CASE ConsumerFetch \/ TriggerCheckpoint
          \/ \E w \in Writers : PollRecord(w) \/ BeginFlush(w) \/ FlushOk(w) \/ FlushErr(w)
  <2>1. UNCHANGED <<log, up, state, base, stored>>
    BY <1>2 DEF ConsumerFetch, TriggerCheckpoint, PollRecord, BeginFlush, FlushOk, FlushErr
  <2>2. QED
    BY <2>1, RefineStutter
<1>3. CASE Emit
  <2>1. /\ up /\ srcHo # << >> /\ state' = Head(srcHo) + 1
        /\ UNCHANGED <<log, up, base, stored>>
    BY <1>3 DEF Emit
  <2>2. ReplayNext = HoStart
    BY <1>0, <2>1, ReplayNextIsHoStart
  <2>3. /\ Len(srcHo) \in Nat \ {0} /\ Head(srcHo) = srcHo[1]
    BY <1>0, <2>1, TailFacts
  <2>4. /\ srcHo[1] = HoStart
        /\ srcHo[1] < log
        /\ srcHo[1] \in Nat
    <3>1. 1 \in 1 .. Len(srcHo)
      BY <2>3
    <3>2. srcHo[1] = HoStart + (1 - 1) /\ srcHo[1] < log
      BY <3>1 DEF SourceInv, TypeInv, Bounds
    <3>3. srcHo[1] \in Offsets
      BY <1>0, <3>1, ElementOfSeq
    <3>4. HoStart \in Int
      BY <1>0 DEF HoStart
    <3>5. QED
      BY <3>2, <3>3, <3>4
  <2>5. ReplayNext' = ReplayNext + 1 /\ ReplayNext < log
    BY <2>1, <2>2, <2>3, <2>4 DEF ReplayNext
  <2>6. LoadLatest' = LoadLatest
    BY <2>1 DEF LoadLatest
  <2>7. QED
    BY <2>1, <2>5, <2>6 DEF Replay!Next, Replay!Hand
<1>4. CASE \E c \in pending : CompleteCheckpoint(c)
  <2>1. PICK c \in pending : CompleteCheckpoint(c)
    BY <1>4
  <2>2. /\ stored' = stored \cup {c}
        /\ UNCHANGED <<log, up, state, base>>
    BY <2>1 DEF CompleteCheckpoint
  <2>3. up /\ state \in Nat /\ c.offset <= state
    BY DEF SourceInv, MonoInv, Ckpts
  <2>4. ReplayNext = state /\ ReplayNext' = state
    BY <2>2, <2>3 DEF ReplayNext
  <2>5. PICK l \in stored' : \A d \in stored' : d.id <= l.id
    BY <2>2 DEF TypeInv, HasLatest
  <2>6. LoadLatest' = l.offset
    <3>1. /\ stored' \subseteq Checkpoint
          /\ \A x, y \in stored' : x.id = y.id => x = y
      BY DEF TypeInv, TypeOK, MonoInv, Ckpts
    <3>2. (CHOOSE x \in stored' : \A d \in stored' : d.id <= x.id) = l
      BY <2>5, <3>1, LatestIs
    <3>3. QED
      BY <2>5, <3>2 DEF LoadLatest
  <2>7. l.offset \in 0 .. ReplayNext
    <3>1. l \in Ckpts /\ Ckpts \subseteq Checkpoint
      BY <2>2 DEF Ckpts, TypeInv, TypeOK
    <3>2. l.offset <= state
      BY <3>1 DEF MonoInv
    <3>3. QED
      BY <2>3, <2>4, <3>1, <3>2 DEF Checkpoint
  <2>8. LoadLatest # NoOffset => LoadLatest <= LoadLatest'
    BY MonoStep
  <2>9. Replay!Save
    BY <2>2, <2>3, <2>4, <2>6, <2>7, <2>8 DEF Replay!Save
  <2>10. QED
    BY <2>9 DEF Replay!Next
<1>5. CASE Crash
  <2>1. /\ up /\ up' = FALSE
        /\ UNCHANGED <<log, state, base, stored>>
    BY <1>5 DEF Crash
  <2>2. ReplayNext' = ReplayNext /\ LoadLatest' = LoadLatest
    BY <2>1 DEF ReplayNext, LoadLatest
  <2>3. QED
    BY <2>1, <2>2 DEF Replay!Next, Replay!Crash
<1>6. CASE Restart
  <2>1. /\ ~up /\ up' = TRUE /\ state' = LoadLatest
        /\ base' = IF LoadLatest = NoOffset THEN BeginOffset(NoOffset) ELSE base
        /\ UNCHANGED <<log, stored>>
    BY <1>6 DEF Restart
  <2>2. LoadLatest' = LoadLatest
    BY <2>1 DEF LoadLatest
  <2>3. ReplayNext' = IF LoadLatest = NoOffset THEN log ELSE LoadLatest
    <3>1. CASE LoadLatest = NoOffset
      BY <2>1, <3>1 DEF ReplayNext, BeginOffset
    <3>2. CASE LoadLatest # NoOffset
      <4>1. LoadLatest \in Nat
        BY <3>2, LoadLatestType DEF TypeInv
      <4>2. QED
        BY <2>1, <3>2, <4>1 DEF ReplayNext
    <3>3. QED
      BY <3>1, <3>2
  <2>4. QED
    BY <2>1, <2>2, <2>3 DEF Replay!Next, Replay!Restart
<1>7. CASE UNCHANGED vars
  BY <1>7, RefineStutter DEF vars
<1>8. QED
  BY <1>1, <1>2, <1>3, <1>4, <1>5, <1>6, <1>7 DEF Next

(* The Kafka source task with OffsetRange::None implements SourceReplay   *)
(* for every value of the constants (the ReplaySpec that MCPipeline_crash *)
(* checks): KafkaRecordIterator hands the partition on in order,           *)
(* snapshot_state and CheckpointStorage save give a recovery point never  *)
(* ahead of the iterator and never behind the previous one, and open      *)
(* after a crash resumes at the latest checkpoint or at Offset::End.      *)
THEOREM Refinement ==
  ASSUME OffsetRange = "None"
  PROVE  Spec => ReplaySpec
<1>1. Init => Replay!Init
  BY RefineInit
<1>2. Spec => []Inv
  BY InvInvariant
<1>3. Inv /\ Inv' /\ [Next]_vars => [Replay!Next]_Replay!avars
  BY RefineStep
<1>4. QED
  BY <1>1, <1>2, <1>3, PTL DEF Spec, ReplaySpec, Replay!Spec

=============================================================================
