--------------------------- MODULE PipelineProofs ---------------------------
(***************************************************************************)
(* Proofs about Pipeline for every value of its constants.                *)
(*                                                                         *)
(* TypeOK is not inductive by itself: Emit sets state to Head(srcHo) + 1, *)
(* which stays an offset only because every buffered offset is below the  *)
(* end of the partition, and Restart reads LoadLatest, which is an offset  *)
(* only because the stored checkpoints have one of greatest id.  TypeInv  *)
(* adds those two facts.                                                   *)
(***************************************************************************)
EXTENDS Pipeline, SequenceTheorems, TLAPS

\* Buffered and checkpointed offsets never pass the end of the partition.
Bounds ==
  /\ \A i \in 1 .. Len(srcHo) : srcHo[i] < log
  /\ \A i \in 1 .. Len(sinkHo) : sinkHo[i] < log
  /\ \A w \in Writers : \A i \in 1 .. Len(batch[w]) : batch[w][i] < log
  /\ state \in Nat => state <= log
  /\ \A c \in pending \cup stored : c.offset <= log

\* The storage holds a checkpoint of greatest id whenever it holds any.
HasLatest ==
  stored # {} => \E c \in stored : \A d \in stored : d.id <= c.id

TypeInv == TypeOK /\ Bounds /\ HasLatest

(***************************************************************************)
(* The invariant behind SourceAtLeastOnce.  While the worker runs, the    *)
(* source Handover holds exactly the offsets just below the consumer's     *)
(* position, and everything from base up to the Handover's first offset   *)
(* has been emitted.  The checkpoint state, and every acknowledged or     *)
(* stored checkpoint, names an offset below which everything from base    *)
(* has been emitted: that is what a restart resumes from.  A stopped       *)
(* worker has no Handover contents and no unsaved acknowledgements.       *)
(***************************************************************************)
HoStart == fetchPos - Len(srcHo)

EmittedBelow(n) == \A o \in base .. (n - 1) : o \in emitted

SourceInv ==
  /\ ~up => srcHo = << >> /\ pending = {}
  /\ Len(srcHo) <= fetchPos
  /\ \A i \in 1 .. Len(srcHo) : srcHo[i] = HoStart + (i - 1)
  /\ up => EmittedBelow(HoStart)
  /\ state \in Nat => EmittedBelow(state)
  /\ \A c \in pending \cup stored : EmittedBelow(c.offset)

IInv == TypeInv /\ SourceInv
-----------------------------------------------------------------------------
(* What LoadLatest returns, under HasLatest: NoOffset or the offset of a  *)
(* stored checkpoint.                                                      *)
LEMMA LoadLatestStored ==
  ASSUME TypeOK, HasLatest
  PROVE  \/ stored = {} /\ LoadLatest = NoOffset
         \/ \E c \in stored : LoadLatest = c.offset
BY DEF LoadLatest, HasLatest

LEMMA LoadLatestType ==
  ASSUME TypeInv
  PROVE  LoadLatest \in (0 .. log) \cup {NoOffset}
<1>1. CASE stored = {}
  BY <1>1 DEF LoadLatest
<1>2. CASE stored # {}
  <2>1. PICK c \in stored : LoadLatest = c.offset
    BY <1>2, LoadLatestStored DEF TypeInv
  <2>2. c.offset \in Offsets /\ c.offset <= log
    BY DEF TypeInv, TypeOK, Checkpoint, Bounds
  <2>3. QED
    BY <2>1, <2>2, BoundAssumption DEF Offsets
<1>3. QED
  BY <1>1, <1>2

\* The records of a sequence of offsets are offsets.
LEMMA ContentsType ==
  ASSUME NEW s \in Seq(Offsets)
  PROVE  Contents(s) \subseteq Offsets
BY DEF Contents, Range

\* Appending an offset below n to a sequence of offsets below n.
LEMMA AppendBelow ==
  ASSUME NEW s \in Seq(Offsets), NEW x \in Offsets, NEW n \in Nat,
         \A i \in 1 .. Len(s) : s[i] < n,
         x < n
  PROVE  /\ Append(s, x) \in Seq(Offsets)
         /\ \A i \in 1 .. Len(Append(s, x)) : Append(s, x)[i] < n
<1>1. Append(s, x) \in Seq(Offsets) /\ Len(Append(s, x)) = Len(s) + 1
  BY AppendProperties
<1>2. \A i \in 1 .. Len(s) : Append(s, x)[i] = s[i]
  BY AppendProperties
<1>3. Append(s, x)[Len(s) + 1] = x
  BY AppendProperties
<1>4. QED
  BY <1>1, <1>2, <1>3

\* Removing the head of a non-empty sequence of offsets below n.
LEMMA TailBelow ==
  ASSUME NEW s \in Seq(Offsets), s # << >>, NEW n \in Nat,
         \A i \in 1 .. Len(s) : s[i] < n
  PROVE  /\ Head(s) \in Offsets
         /\ Head(s) < n
         /\ Tail(s) \in Seq(Offsets)
         /\ \A i \in 1 .. Len(Tail(s)) : Tail(s)[i] < n
<1>1. Head(s) \in Offsets /\ Tail(s) \in Seq(Offsets) /\ Len(Tail(s)) = Len(s) - 1
  BY HeadTailProperties
<1>2. \A i \in 1 .. Len(Tail(s)) : Tail(s)[i] = s[i + 1]
  BY HeadTailProperties
<1>3. Head(s) = s[1] /\ Len(s) >= 1
  BY EmptySeq, LenProperties
<1>4. QED
  BY <1>1, <1>2, <1>3
-----------------------------------------------------------------------------
THEOREM TypeInvInit == Init => TypeInv
<1> SUFFICES ASSUME Init PROVE TypeInv
  OBVIOUS
<1>1. TypeOK
  <2>1. Len(srcHo) <= SrcCap /\ Len(sinkHo) <= SinkCap
        /\ \A w \in Writers : Len(batch[w]) <= BatchSize
    BY CapAssumption DEF Init
  <2>2. QED
    BY <2>1, BoundAssumption, WritersAssumption, RangeAssumption
       DEF Init, TypeOK, Offsets, BeginOffset
<1>2. Bounds
  BY FlagAssumption DEF Init, Bounds
<1>3. HasLatest
  BY DEF Init, HasLatest
<1>4. QED
  BY <1>1, <1>2, <1>3 DEF TypeInv

THEOREM TypeInvNext == TypeInv /\ [Next]_vars => TypeInv'
<1> SUFFICES ASSUME TypeInv, [Next]_vars PROVE TypeInv'
  OBVIOUS
<1> USE BoundAssumption, CapAssumption, FlagAssumption DEF TypeInv, Offsets, Checkpoint
<1>1. CASE Produce
  <2>1. TypeOK'
    BY <1>1 DEF Produce, TypeOK
  <2>2. Bounds'
    <3>1. log' = log + 1 /\ UNCHANGED <<fetchPos, srcHo, sinkHo, batch, state, pending, stored>>
      BY <1>1 DEF Produce
    <3>2. log \in Nat
      BY DEF TypeOK
    <3>4. \A i \in 1 .. Len(srcHo') : srcHo'[i] < log'
      BY <3>1, <3>2 DEF Bounds, TypeOK
    <3>5. \A i \in 1 .. Len(sinkHo') : sinkHo'[i] < log'
      BY <3>1, <3>2 DEF Bounds, TypeOK
    <3>6. \A w \in Writers : \A i \in 1 .. Len(batch'[w]) : batch'[w][i] < log'
      <4> SUFFICES ASSUME NEW w \in Writers, NEW i \in 1 .. Len(batch[w])
                   PROVE  batch[w][i] < log + 1
        BY <3>1
      <4>1. batch[w][i] < log
        BY DEF Bounds
      <4>2. batch[w] \in Seq(Offsets)
        BY DEF TypeOK
      <4>3. batch[w][i] \in Nat
        BY <4>2
      <4>4. QED
        BY <3>2, <4>1, <4>3
    <3>7. state' \in Nat => state' <= log'
      BY <3>1, <3>2 DEF Bounds, TypeOK
    <3>8. \A c \in pending' \cup stored' : c.offset <= log'
      BY <3>1, <3>2 DEF Bounds, TypeOK
    <3>9. QED
      BY <3>4, <3>5, <3>6, <3>7, <3>8 DEF Bounds
  <2>3. HasLatest'
    BY <1>1 DEF Produce, HasLatest
  <2>4. QED
    BY <2>1, <2>2, <2>3
<1>2. CASE ConsumerFetch
  <2>0. /\ log \in Nat /\ fetchPos \in Offsets /\ fetchPos < log
        /\ fetchPos + 1 \in Offsets
    BY <1>2 DEF ConsumerFetch, TypeOK
  <2>a. /\ Append(srcHo, fetchPos) \in Seq(Offsets)
        /\ \A i \in 1 .. Len(Append(srcHo, fetchPos)) : Append(srcHo, fetchPos)[i] < log
    BY <2>0, AppendBelow DEF TypeOK, Bounds
  <2>b. Len(srcHo') <= SrcCap
    BY <1>2, AppendProperties DEF ConsumerFetch, TypeOK
  <2>1. TypeOK'
    BY <1>2, <2>0, <2>a, <2>b DEF ConsumerFetch, TypeOK
  <2>2. Bounds'
    BY <1>2, <2>0, <2>a DEF ConsumerFetch, TypeOK, Bounds
  <2>3. HasLatest'
    BY <1>2 DEF ConsumerFetch, HasLatest
  <2>4. QED
    BY <2>1, <2>2, <2>3
<1>3. CASE Emit
  <2>1. log \in Nat /\ srcHo # << >>
    BY <1>3 DEF Emit, TypeOK
  <2>2. /\ Head(srcHo) \in Offsets /\ Head(srcHo) < log
        /\ Tail(srcHo) \in Seq(Offsets)
        /\ \A i \in 1 .. Len(Tail(srcHo)) : Tail(srcHo)[i] < log
    BY <2>1, TailBelow DEF TypeOK, Bounds
  <2>3. /\ Append(sinkHo, Head(srcHo)) \in Seq(Offsets)
        /\ \A i \in 1 .. Len(Append(sinkHo, Head(srcHo))) : Append(sinkHo, Head(srcHo))[i] < log
    BY <2>1, <2>2, AppendBelow DEF TypeOK, Bounds
  <2>4. Head(srcHo) + 1 \in Offsets /\ Head(srcHo) + 1 <= log
    <3>1. log \in Offsets
      BY DEF TypeOK
    <3>2. QED
      BY <2>1, <2>2, <3>1
  <2>9. Len(srcHo') <= SrcCap /\ Len(sinkHo') <= SinkCap
    <3>1. srcHo \in Seq(Offsets) /\ Len(srcHo) <= SrcCap /\ sinkHo \in Seq(Offsets)
          /\ Len(sinkHo) < SinkCap
      BY <1>3 DEF Emit, TypeOK
    <3>2. Len(Tail(srcHo)) = Len(srcHo) - 1
      BY <2>1, <3>1, HeadTailProperties
    <3>3. Len(Append(sinkHo, Head(srcHo))) = Len(sinkHo) + 1
      BY <2>2, <3>1, AppendProperties
    <3>4. srcHo' = Tail(srcHo) /\ sinkHo' = Append(sinkHo, Head(srcHo))
      BY <1>3 DEF Emit
    <3>5. QED
      BY <3>1, <3>2, <3>3, <3>4
  <2>5. TypeOK'
    BY <1>3, <2>2, <2>3, <2>4, <2>9 DEF Emit, TypeOK
  <2>6. Bounds'
    BY <1>3, <2>2, <2>3, <2>4 DEF Emit, Bounds
  <2>7. HasLatest'
    BY <1>3 DEF Emit, HasLatest
  <2>8. QED
    BY <2>5, <2>6, <2>7
<1>4. CASE TriggerCheckpoint
  <2>1. [id |-> nextId, offset |-> state] \in Checkpoint
    BY <1>4 DEF TriggerCheckpoint, TypeOK
  <2>2. pending' \subseteq Checkpoint /\ nextId' \in Nat \ {0}
    BY <1>4, <2>1 DEF TriggerCheckpoint, TypeOK
  <2>3. TypeOK'
    BY <1>4, <2>2 DEF TriggerCheckpoint, TypeOK
  <2>4. Bounds'
    BY <1>4 DEF TriggerCheckpoint, TypeOK, Bounds
  <2>5. HasLatest'
    BY <1>4 DEF TriggerCheckpoint, HasLatest
  <2>6. QED
    BY <2>3, <2>4, <2>5
<1>5. ASSUME NEW c \in pending, CompleteCheckpoint(c)
      PROVE TypeInv'
  <2>1. TypeOK'
    BY <1>5 DEF CompleteCheckpoint, TypeOK
  <2>2. Bounds'
    BY <1>5 DEF CompleteCheckpoint, TypeOK, Bounds
  <2>3. c.id \in Nat /\ stored' = stored \cup {c}
    BY <1>5 DEF CompleteCheckpoint, TypeOK
  <2>4. HasLatest'
    <3>1. CASE stored = {}
      BY <2>3, <3>1 DEF HasLatest
    <3>2. CASE stored # {}
      <4>1. PICK m \in stored : \A d \in stored : d.id <= m.id
        BY <3>2 DEF HasLatest
      <4>2. m.id \in Nat
        BY DEF TypeOK
      <4>3. CASE c.id <= m.id
        BY <2>3, <4>1, <4>2, <4>3 DEF HasLatest
      <4>4. CASE ~(c.id <= m.id)
        <5>1. \A d \in stored : d.id \in Nat
          BY DEF TypeOK, Checkpoint
        <5>2. \A d \in stored \cup {c} : d.id <= c.id
          BY <2>3, <4>1, <4>2, <4>4, <5>1
        <5>3. QED
          BY <2>3, <5>2 DEF HasLatest
      <4>5. QED
        BY <4>3, <4>4
    <3>3. QED
      BY <3>1, <3>2
  <2>5. QED
    BY <2>1, <2>2, <2>4
<1>6. ASSUME NEW w \in Writers, PollRecord(w)
      PROVE TypeInv'
  <2>1. log \in Nat /\ sinkHo # << >> /\ batch[w] \in Seq(Offsets)
    BY <1>6 DEF PollRecord, TypeOK
  <2>2. /\ Head(sinkHo) \in Offsets /\ Head(sinkHo) < log
        /\ Tail(sinkHo) \in Seq(Offsets)
        /\ \A i \in 1 .. Len(Tail(sinkHo)) : Tail(sinkHo)[i] < log
    BY <2>1, TailBelow DEF TypeOK, Bounds
  <2>3. /\ Append(batch[w], Head(sinkHo)) \in Seq(Offsets)
        /\ \A i \in 1 .. Len(Append(batch[w], Head(sinkHo))) : Append(batch[w], Head(sinkHo))[i] < log
    BY <2>1, <2>2, AppendBelow DEF Bounds
  <2>8. Len(sinkHo') <= SinkCap /\ \A v \in Writers : Len(batch'[v]) <= BatchSize
    BY <1>6, <2>1, HeadTailProperties, AppendProperties DEF PollRecord, TypeOK
  <2>4. TypeOK'
    BY <1>6, <2>2, <2>3, <2>8 DEF PollRecord, TypeOK
  <2>5. Bounds'
    BY <1>6, <2>2, <2>3 DEF PollRecord, TypeOK, Bounds
  <2>6. HasLatest'
    BY <1>6 DEF PollRecord, HasLatest
  <2>7. QED
    BY <2>4, <2>5, <2>6
<1>7. ASSUME NEW w \in Writers, BeginFlush(w)
      PROVE TypeInv'
  <2>1. TypeOK'
    BY <1>7 DEF BeginFlush, TypeOK
  <2>2. Bounds'
    BY <1>7 DEF BeginFlush, TypeOK, Bounds
  <2>3. HasLatest'
    BY <1>7 DEF BeginFlush, HasLatest
  <2>4. QED
    BY <2>1, <2>2, <2>3
<1>8. ASSUME NEW w \in Writers, FlushOk(w)
      PROVE TypeInv'
  <2>1. Contents(batch[w]) \subseteq Offsets
    <3>1. batch[w] \in Seq(Offsets)
      BY DEF TypeOK
    <3>2. QED
      BY <3>1, ContentsType
  <2>2. CountIndexed(Contents(batch[w])) \in [Offsets -> Nat]
    BY DEF CountIndexed, TypeOK
  <2>3. /\ batch' \in [Writers -> Seq(Offsets)]
        /\ wpc' \in [Writers -> {"poll", "flush"}]
        /\ indexed' \subseteq Offsets
        /\ idxCount' \in [Offsets -> Nat]
    <3>1. batch' \in [Writers -> Seq(Offsets)]
      BY <1>8, <2>1, <2>2 DEF FlushOk, TypeOK, EmptySeq
    <3>2. wpc' \in [Writers -> {"poll", "flush"}]
      BY <1>8, <2>1, <2>2 DEF FlushOk, TypeOK
    <3>3. indexed' \subseteq Offsets
      BY <1>8, <2>1, <2>2 DEF FlushOk, TypeOK
    <3>4. idxCount' \in [Offsets -> Nat]
      BY <1>8, <2>1, <2>2 DEF FlushOk, TypeOK
    <3>5. QED
      BY <3>1, <3>2, <3>3, <3>4
  <2>8. \A v \in Writers : Len(batch'[v]) <= BatchSize
    BY <1>8 DEF FlushOk, TypeOK
  <2>7. TypeOK'
    BY <1>8, <2>3, <2>8 DEF FlushOk, TypeOK
  <2>4. Bounds'
    BY <1>8 DEF FlushOk, TypeOK, Bounds
  <2>5. HasLatest'
    BY <1>8 DEF FlushOk, HasLatest
  <2>6. QED
    BY <2>7, <2>4, <2>5
<1>9. ASSUME NEW w \in Writers, FlushErr(w)
      PROVE TypeInv'
  <2>1. Contents(batch[w]) \subseteq Offsets
    <3>1. batch[w] \in Seq(Offsets)
      BY DEF TypeOK
    <3>2. QED
      BY <3>1, ContentsType
  <2>2. PICK applied \in SUBSET Contents(batch[w]) :
          /\ indexed' = indexed \cup applied
          /\ idxCount' = CountIndexed(applied)
    BY <1>9 DEF FlushErr
  <2>3. CountIndexed(applied) \in [Offsets -> Nat]
    BY DEF CountIndexed, TypeOK
  <2>8. /\ batch' \in [Writers -> Seq(Offsets)]
        /\ wpc' \in [Writers -> {"poll", "flush"}]
        /\ indexed' \subseteq Offsets
        /\ idxCount' \in [Offsets -> Nat]
    <3>1. batch' \in [Writers -> Seq(Offsets)]
      BY <1>9, <2>1, <2>2, <2>3 DEF FlushErr, TypeOK, EmptySeq
    <3>2. wpc' \in [Writers -> {"poll", "flush"}]
      BY <1>9, <2>1, <2>2, <2>3 DEF FlushErr, TypeOK
    <3>3. indexed' \subseteq Offsets
      BY <1>9, <2>1, <2>2, <2>3 DEF FlushErr, TypeOK
    <3>4. idxCount' \in [Offsets -> Nat]
      BY <1>9, <2>1, <2>2, <2>3 DEF FlushErr, TypeOK
    <3>5. QED
      BY <3>1, <3>2, <3>3, <3>4
  <2>9. \A v \in Writers : Len(batch'[v]) <= BatchSize
    BY <1>9 DEF FlushErr, TypeOK
  <2>4. TypeOK'
    BY <1>9, <2>8, <2>9 DEF FlushErr, TypeOK
  <2>5. Bounds'
    BY <1>9 DEF FlushErr, TypeOK, Bounds
  <2>6. HasLatest'
    BY <1>9 DEF FlushErr, HasLatest
  <2>7. QED
    BY <2>4, <2>5, <2>6
<1>10. CASE Crash
  <2>0. /\ up' = FALSE /\ crashes' = crashes + 1 /\ pending' = {}
        /\ srcHo' = << >> /\ sinkHo' = << >>
        /\ batch' = [w \in Writers |-> << >>] /\ wpc' = [w \in Writers |-> "poll"]
        /\ UNCHANGED <<log, fetchPos, state, nextId, stored, base, emitted>>
    BY <1>10 DEF Crash
  <2>1. \A w \in Writers : Contents(batch[w]) \subseteq Offsets
    <3>1. \A w \in Writers : batch[w] \in Seq(Offsets)
      BY DEF TypeOK
    <3>2. QED
      BY <3>1, ContentsType
  <2>2. PICK applied \in SUBSET UNION {Contents(batch[w]) : w \in {v \in Writers : wpc[v] = "flush"}} :
          /\ indexed' = indexed \cup applied
          /\ idxCount' = CountIndexed(applied)
    BY <1>10 DEF Crash
  <2>3. applied \subseteq Offsets
    BY <2>1, <2>2
  <2>4. CountIndexed(applied) \in [Offsets -> Nat]
    BY DEF CountIndexed, TypeOK
  <2>9. /\ batch' \in [Writers -> Seq(Offsets)]
        /\ wpc' \in [Writers -> {"poll", "flush"}]
        /\ indexed' \subseteq Offsets
        /\ idxCount' \in [Offsets -> Nat]
        /\ srcHo' \in Seq(Offsets) /\ sinkHo' \in Seq(Offsets)
        /\ crashes' \in Nat /\ up' \in BOOLEAN /\ pending' \subseteq Checkpoint
    <3>1. batch' \in [Writers -> Seq(Offsets)] /\ wpc' \in [Writers -> {"poll", "flush"}]
      BY <2>0, EmptySeq
    <3>2. indexed' \subseteq Offsets /\ idxCount' \in [Offsets -> Nat]
      BY <2>2, <2>3, <2>4 DEF TypeOK
    <3>3. srcHo' \in Seq(Offsets) /\ sinkHo' \in Seq(Offsets)
      BY <2>0, EmptySeq
    <3>4. crashes' \in Nat /\ up' \in BOOLEAN /\ pending' \subseteq Checkpoint
      <4>1. crashes' \in Nat
        BY <2>0 DEF TypeOK
      <4>2. up' \in BOOLEAN /\ pending' \subseteq Checkpoint
        BY <2>0, Zenon
      <4>3. QED
        BY <4>1, <4>2
    <3>5. QED
      BY <3>1, <3>2, <3>3, <3>4
  <2>5. TypeOK'
    BY <2>0, <2>9 DEF TypeOK
  <2>6. Bounds'
    BY <2>0, EmptySeq DEF TypeOK, Bounds
  <2>7. HasLatest'
    BY <2>0 DEF HasLatest
  <2>8. QED
    BY <2>5, <2>6, <2>7
<1>11. CASE Restart
  <2>1. LoadLatest \in (0 .. log) \cup {NoOffset}
    BY LoadLatestType
  <2>2. BeginOffset(LoadLatest) \in Offsets
    BY <2>1, RangeAssumption DEF BeginOffset, TypeOK
  <2>3. TypeOK'
    BY <1>11, <2>1, <2>2 DEF Restart, TypeOK
  <2>4. Bounds'
    BY <1>11, <2>1, <2>2 DEF Restart, TypeOK, Bounds
  <2>5. HasLatest'
    BY <1>11 DEF Restart, HasLatest
  <2>6. QED
    BY <2>3, <2>4, <2>5
<1>12. CASE UNCHANGED vars
  BY <1>12 DEF vars, TypeOK, Bounds, HasLatest
<1>13. QED
  BY <1>1, <1>2, <1>3, <1>4, <1>5, <1>6, <1>7, <1>8, <1>9, <1>10, <1>11, <1>12 DEF Next

(* Type correctness of the checkpointed pipeline: every reachable state   *)
(* gives each variable a value of its type (TypeOK, which MCPipeline_crash *)
(* checks), in particular the recovered state Restart reads from          *)
(* CheckpointStorage::load is an offset of the partition or NoOffset.     *)
THEOREM TypeCorrect == Spec => []TypeOK
<1>1. TypeInv => TypeOK
  BY DEF TypeInv
<1>2. QED
  BY TypeInvInit, TypeInvNext, <1>1, PTL DEF Spec
-----------------------------------------------------------------------------
(***************************************************************************)
(* SourceAtLeastOnce.                                                      *)
(***************************************************************************)

\* What Append does to the length and the elements of a sequence of offsets.
LEMMA AppendFacts ==
  ASSUME NEW s \in Seq(Offsets), NEW x \in Offsets
  PROVE  /\ Len(Append(s, x)) = Len(s) + 1
         /\ \A i \in 1 .. Len(s) : Append(s, x)[i] = s[i]
         /\ Append(s, x)[Len(s) + 1] = x
BY AppendProperties

\* What Head and Tail return for a non-empty sequence of offsets.
LEMMA TailFacts ==
  ASSUME NEW s \in Seq(Offsets), s # << >>
  PROVE  /\ Len(s) \in Nat \ {0}
         /\ Head(s) = s[1]
         /\ Len(Tail(s)) = Len(s) - 1
         /\ \A i \in 1 .. Len(Tail(s)) : Tail(s)[i] = s[i + 1]
<1>1. Len(Tail(s)) = Len(s) - 1 /\ \A i \in 1 .. Len(Tail(s)) : Tail(s)[i] = s[i + 1]
  BY HeadTailProperties
<1>2. Len(s) \in Nat \ {0} /\ Head(s) = s[1]
  BY EmptySeq, LenProperties
<1>3. QED
  BY <1>1, <1>2

THEOREM SourceInvInit == Init => SourceInv
<1> SUFFICES ASSUME Init PROVE SourceInv
  OBVIOUS
<1>1. fetchPos \in Nat /\ base = fetchPos /\ srcHo = << >> /\ Len(srcHo) = 0
  BY RangeAssumption, BoundAssumption DEF Init, BeginOffset
<1>2. HoStart = fetchPos
  BY <1>1 DEF HoStart
<1>3. QED
  BY <1>1, <1>2, FlagAssumption DEF Init, SourceInv, EmittedBelow

\* Steps that leave the source side, the checkpoints and the history alone.
LEMMA SourceInvUnchanged ==
  ASSUME SourceInv,
         UNCHANGED <<up, fetchPos, srcHo, state, pending, stored, base, emitted>>
  PROVE  SourceInv'
BY DEF SourceInv, HoStart, EmittedBelow

THEOREM SourceInvNext ==
  ASSUME OffsetRange = "None"
  PROVE  IInv /\ [Next]_vars => SourceInv'
<1> SUFFICES ASSUME TypeInv, SourceInv, [Next]_vars PROVE SourceInv'
  BY DEF IInv
<1> USE BoundAssumption, FlagAssumption DEF TypeInv, Offsets
<1>0. /\ fetchPos \in Nat /\ log \in Nat /\ base \in Nat
      /\ srcHo \in Seq(Offsets) /\ Len(srcHo) \in Nat
      /\ state \in Offsets \cup {NoOffset}
  BY LenProperties DEF TypeOK
<1>1. CASE Produce
  BY <1>1, SourceInvUnchanged DEF Produce
<1>2. CASE ConsumerFetch
  <2>1. /\ up /\ up' = up /\ srcHo' = Append(srcHo, fetchPos) /\ fetchPos' = fetchPos + 1
        /\ UNCHANGED <<state, pending, stored, base, emitted>>
    BY <1>2 DEF ConsumerFetch
  <2>2. fetchPos \in Offsets
    BY DEF TypeOK
  <2>3. /\ Len(srcHo') = Len(srcHo) + 1
        /\ \A i \in 1 .. Len(srcHo) : srcHo'[i] = srcHo[i]
        /\ srcHo'[Len(srcHo) + 1] = fetchPos
    BY <1>0, <2>1, <2>2, AppendFacts
  <2>4. HoStart' = HoStart
    BY <1>0, <2>1, <2>3 DEF HoStart
  <2>5. \A i \in 1 .. Len(srcHo') : srcHo'[i] = HoStart' + (i - 1)
    BY <1>0, <2>3, <2>4 DEF SourceInv, HoStart
  <2>6. QED
    BY <1>0, <2>1, <2>3, <2>4, <2>5 DEF SourceInv, EmittedBelow
<1>3. CASE Emit
  <2>1. /\ up /\ up' = up /\ srcHo # << >> /\ srcHo' = Tail(srcHo)
        /\ state' = Head(srcHo) + 1 /\ emitted' = emitted \cup {Head(srcHo)}
        /\ UNCHANGED <<fetchPos, pending, stored, base>>
    BY <1>3 DEF Emit
  <2>2. /\ Len(srcHo) \in Nat \ {0}
        /\ Head(srcHo) = srcHo[1]
        /\ Len(srcHo') = Len(srcHo) - 1
        /\ \A i \in 1 .. Len(srcHo') : srcHo'[i] = srcHo[i + 1]
    BY <1>0, <2>1, TailFacts
  <2>3. Head(srcHo) = HoStart
    <3>1. 1 \in 1 .. Len(srcHo)
      BY <2>2
    <3>2. srcHo[1] = HoStart + (1 - 1)
      BY <3>1 DEF SourceInv
    <3>3. QED
      BY <1>0, <2>2, <3>2 DEF HoStart
  <2>4. HoStart' = HoStart + 1 /\ state' = HoStart + 1
    BY <1>0, <2>1, <2>2, <2>3 DEF HoStart
  <2>5. \A i \in 1 .. Len(srcHo') : srcHo'[i] = HoStart' + (i - 1)
    BY <1>0, <2>2, <2>4 DEF SourceInv, HoStart
  <2>6. EmittedBelow(HoStart)' /\ EmittedBelow(state)'
    BY <1>0, <2>1, <2>3, <2>4 DEF SourceInv, EmittedBelow, HoStart
  <2>7. \A c \in pending' \cup stored' : EmittedBelow(c.offset)'
    BY <2>1 DEF SourceInv, EmittedBelow
  <2>8. Len(srcHo') <= fetchPos'
    BY <1>0, <2>1, <2>2 DEF SourceInv
  <2>9. QED
    BY <2>1, <2>5, <2>6, <2>7, <2>8 DEF SourceInv
<1>4. CASE TriggerCheckpoint
  <2>1. /\ up /\ state # NoOffset
        /\ pending' = pending \cup {[id |-> nextId, offset |-> state]}
        /\ UNCHANGED <<up, fetchPos, srcHo, state, stored, base, emitted>>
    BY <1>4 DEF TriggerCheckpoint
  <2>2. state \in Nat
    BY <1>0, <2>1
  <2>3. EmittedBelow(state)
    BY <2>2 DEF SourceInv
  <2>4. \A c \in pending' \cup stored' : EmittedBelow(c.offset)'
    BY <2>1, <2>3 DEF SourceInv, EmittedBelow
  <2>5. QED
    BY <2>1, <2>4 DEF SourceInv, HoStart, EmittedBelow
<1>5. ASSUME NEW c \in pending, CompleteCheckpoint(c)
      PROVE SourceInv'
  <2>1. /\ pending' = pending \ {c} /\ stored' = stored \cup {c}
        /\ UNCHANGED <<up, fetchPos, srcHo, state, base, emitted>>
    BY <1>5 DEF CompleteCheckpoint
  <2>2. up
    BY DEF SourceInv
  <2>3. pending' \cup stored' = pending \cup stored
    BY <2>1
  <2>4. QED
    BY <2>1, <2>2, <2>3 DEF SourceInv, HoStart, EmittedBelow
<1>6. ASSUME NEW w \in Writers,
             PollRecord(w) \/ BeginFlush(w) \/ FlushOk(w) \/ FlushErr(w)
      PROVE SourceInv'
  BY <1>6, SourceInvUnchanged DEF PollRecord, BeginFlush, FlushOk, FlushErr
<1>7. CASE Crash
  <2>1. /\ up' = FALSE /\ srcHo' = << >> /\ pending' = {}
        /\ UNCHANGED <<fetchPos, state, stored, base, emitted>>
    BY <1>7 DEF Crash
  <2>2. QED
    BY <1>0, <2>1 DEF SourceInv, HoStart, EmittedBelow
<1>8. CASE Restart
  <2>1. /\ ~up /\ up' = TRUE
        /\ state' = LoadLatest /\ fetchPos' = BeginOffset(LoadLatest)
        /\ base' = IF LoadLatest = NoOffset THEN BeginOffset(NoOffset) ELSE base
        /\ UNCHANGED <<srcHo, pending, stored, emitted>>
    BY <1>8 DEF Restart
  <2>2. srcHo = << >> /\ pending = {}
    BY <2>1 DEF SourceInv
  <2>3. srcHo' = << >> /\ Len(srcHo') = 0
    BY <2>1, <2>2, EmptySeq
  <2>4. CASE stored = {}
    <3>1. LoadLatest = NoOffset
      BY <2>4 DEF LoadLatest
    <3>2. state' = NoOffset /\ fetchPos' = log /\ base' = log
      BY <2>1, <3>1 DEF BeginOffset
    <3>3. HoStart' = log
      BY <1>0, <2>3, <3>2 DEF HoStart
    <3>4. QED
      BY <1>0, <2>1, <2>2, <2>3, <2>4, <3>2, <3>3 DEF SourceInv, EmittedBelow
  <2>5. CASE stored # {}
    <3>1. PICK c \in stored : LoadLatest = c.offset
      BY <2>5, LoadLatestStored
    <3>2. c.offset \in Nat
      BY DEF TypeOK, Checkpoint
    <3>3. state' = c.offset /\ fetchPos' = c.offset /\ base' = base
      BY <2>1, <3>1, <3>2 DEF BeginOffset
    <3>4. EmittedBelow(c.offset)
      BY DEF SourceInv
    <3>5. HoStart' = c.offset
      BY <2>3, <3>2, <3>3 DEF HoStart
    <3>6. QED
      BY <2>1, <2>2, <2>3, <3>2, <3>3, <3>4, <3>5 DEF SourceInv, EmittedBelow
  <2>6. QED
    BY <2>4, <2>5
<1>9. CASE UNCHANGED vars
  BY <1>9, SourceInvUnchanged DEF vars
<1>10. QED
  BY <1>1, <1>2, <1>3, <1>4, <1>5, <1>6, <1>7, <1>8, <1>9 DEF Next

\* The invariant gives the property: an offset between base and the
\* consumer's position is below the Handover's first offset (emitted) or
\* at a position of the Handover.
LEMMA SourceInvImplies == TypeInv /\ SourceInv => SourceAtLeastOnce
<1> SUFFICES ASSUME TypeInv, SourceInv, up, NEW o \in base .. (fetchPos - 1)
             PROVE  o \in emitted \/ o \in Contents(srcHo)
  BY DEF SourceAtLeastOnce
<1>1. srcHo \in Seq(Offsets) /\ Len(srcHo) \in Nat /\ fetchPos \in Nat
  BY LenProperties DEF TypeInv, TypeOK, Offsets
<1>0. o \in Int /\ HoStart \in Int
  BY <1>1 DEF HoStart, TypeInv, TypeOK, Offsets
<1>2. CASE o < HoStart
  <2>1. EmittedBelow(HoStart)
    BY DEF SourceInv
  <2>2. o \in base .. (HoStart - 1)
    BY <1>0, <1>2
  <2>3. QED
    BY <2>1, <2>2 DEF EmittedBelow
<1>3. CASE o >= HoStart
  <2>1. o - HoStart + 1 \in 1 .. Len(srcHo) /\ srcHo[o - HoStart + 1] = o
    BY <1>1, <1>3 DEF SourceInv, HoStart
  <2>2. DOMAIN srcHo = 1 .. Len(srcHo)
    BY <1>1, LenProperties
  <2>3. QED
    BY <2>1, <2>2 DEF Contents, Range
<1>4. QED
  BY <1>0, <1>2, <1>3

(* Source side at-least-once for every value of the constants (the       *)
(* SourceAtLeastOnce that MCPipeline_crash checks): across crashes and    *)
(* restarts from CheckpointStorage::load, every record from base up to the *)
(* consumer position was handed on by KafkaRecordIterator or is still in   *)
(* the source Handover, because snapshot_state records the iterator's       *)
(* offset and open resumes the consumer there.                            *)
THEOREM SourceSafe ==
  ASSUME OffsetRange = "None"
  PROVE  Spec => []SourceAtLeastOnce
<1>1. Init => IInv
  BY TypeInvInit, SourceInvInit DEF IInv
<1>2. IInv /\ [Next]_vars => IInv'
  BY TypeInvNext, SourceInvNext DEF IInv
<1>3. IInv => SourceAtLeastOnce
  BY SourceInvImplies DEF IInv
<1>4. QED
  BY <1>1, <1>2, <1>3, PTL DEF Spec
-----------------------------------------------------------------------------
(***************************************************************************)
(* RecoveryPointMonotone.  Checkpoint ids are handed out in increasing     *)
(* order, and the offset of each is the checkpoint state at the barrier,   *)
(* which never moves back while the worker runs and restarts at the       *)
(* latest stored offset: so a checkpoint of greater id never names a       *)
(* smaller offset, whatever order the acknowledgements are saved in.       *)
(***************************************************************************)
Ckpts == pending \cup stored

MonoInv ==
  /\ up /\ state \in Nat => state = HoStart
  /\ \A c \in Ckpts : state \in Nat /\ c.offset <= state
  /\ \A c, d \in Ckpts : c.id < d.id => c.offset <= d.offset
  /\ \A c \in Ckpts : c.id < nextId
  /\ \A c, d \in Ckpts : c.id = d.id => c = d

\* With distinct ids, the checkpoint LoadLatest chooses in a set of
\* checkpoints is the one of greatest id.
LEMMA LatestIs ==
  ASSUME NEW S, S \subseteq Checkpoint,
         \A c, d \in S : c.id = d.id => c = d,
         NEW l \in S, \A d \in S : d.id <= l.id
  PROVE  (CHOOSE c \in S : \A d \in S : d.id <= c.id) = l
<1>1. PICK x \in S : x = CHOOSE y \in S : \A d \in S : d.id <= y.id
  OBVIOUS
<1>2. \A d \in S : d.id <= x.id
  BY <1>1
<1>3. x.id = l.id
  BY <1>2 DEF Checkpoint
<1>4. QED
  BY <1>1, <1>3

\* Steps that leave the worker's position, its state, the ids and the set
\* of checkpoints alone.
LEMMA MonoInvUnchanged ==
  ASSUME MonoInv, UNCHANGED <<up, fetchPos, srcHo, state, nextId>>, Ckpts' = Ckpts
  PROVE  MonoInv'
BY DEF MonoInv, HoStart

THEOREM MonoInvInit == Init => MonoInv
BY FlagAssumption DEF Init, MonoInv, Ckpts, HoStart

THEOREM MonoInvNext ==
  ASSUME OffsetRange = "None"
  PROVE  IInv /\ MonoInv /\ [Next]_vars => MonoInv'
<1> SUFFICES ASSUME TypeInv, SourceInv, MonoInv, [Next]_vars PROVE MonoInv'
  BY DEF IInv
<1> USE BoundAssumption, FlagAssumption DEF TypeInv, Offsets
<1>0. /\ fetchPos \in Nat /\ log \in Nat /\ nextId \in Nat
      /\ srcHo \in Seq(Offsets) /\ Len(srcHo) \in Nat
      /\ state \in Offsets \cup {NoOffset}
      /\ Ckpts \subseteq Checkpoint
  BY LenProperties DEF TypeOK, Ckpts
<1>1. CASE Produce
  BY <1>1, MonoInvUnchanged DEF Produce, Ckpts
<1>2. CASE ConsumerFetch
  <2>1. /\ up' = up /\ srcHo' = Append(srcHo, fetchPos) /\ fetchPos' = fetchPos + 1
        /\ UNCHANGED <<state, pending, stored, nextId>>
    BY <1>2 DEF ConsumerFetch
  <2>2. Len(srcHo') = Len(srcHo) + 1
    BY <1>0, <2>1, AppendFacts DEF TypeOK
  <2>3. HoStart' = HoStart
    BY <1>0, <2>1, <2>2 DEF HoStart
  <2>4. QED
    BY <2>1, <2>3 DEF MonoInv, Ckpts
<1>3. CASE Emit
  <2>1. /\ up /\ up' = up /\ srcHo # << >> /\ srcHo' = Tail(srcHo)
        /\ state' = Head(srcHo) + 1
        /\ UNCHANGED <<fetchPos, pending, stored, nextId>>
    BY <1>3 DEF Emit
  <2>2. /\ Len(srcHo) \in Nat \ {0}
        /\ Head(srcHo) = srcHo[1]
        /\ Len(srcHo') = Len(srcHo) - 1
    BY <1>0, <2>1, TailFacts
  <2>3. Head(srcHo) = HoStart
    <3>1. 1 \in 1 .. Len(srcHo)
      BY <2>2
    <3>2. srcHo[1] = HoStart + (1 - 1)
      BY <3>1 DEF SourceInv
    <3>3. QED
      BY <1>0, <2>2, <3>2 DEF HoStart
  <2>4. HoStart' = HoStart + 1 /\ state' = HoStart + 1 /\ HoStart \in Nat
    BY <1>0, <2>1, <2>2, <2>3 DEF HoStart, SourceInv
  <2>5. \A c \in Ckpts : c.offset <= HoStart
    BY <1>0, <2>1 DEF MonoInv
  <2>6. \A c \in Ckpts' : state' \in Nat /\ c.offset <= state'
    BY <1>0, <2>1, <2>4, <2>5 DEF Ckpts, Checkpoint
  <2>7. QED
    BY <2>1, <2>4, <2>6 DEF MonoInv, Ckpts
<1>4. CASE TriggerCheckpoint
  <2> DEFINE n == [id |-> nextId, offset |-> state]
  <2>1. /\ state # NoOffset
        /\ pending' = pending \cup {n} /\ nextId' = nextId + 1
        /\ UNCHANGED <<up, fetchPos, srcHo, state, stored>>
    BY <1>4 DEF TriggerCheckpoint
  <2>2. state \in Nat /\ Ckpts' = Ckpts \cup {n}
    BY <1>0, <2>1 DEF Ckpts
  <2>3. \A c \in Ckpts : c.id < n.id /\ c.offset <= n.offset /\ c # n
    BY <1>0, <2>2 DEF MonoInv
  <2>4. \A c \in Ckpts' : state' \in Nat /\ c.offset <= state'
    BY <2>1, <2>2 DEF MonoInv
  <2>5. \A c, d \in Ckpts' : c.id < d.id => c.offset <= d.offset
    BY <1>0, <2>2, <2>3 DEF MonoInv, Checkpoint
  <2>6. \A c \in Ckpts' : c.id < nextId'
    BY <1>0, <2>1, <2>2 DEF MonoInv, Checkpoint
  <2>7. \A c, d \in Ckpts' : c.id = d.id => c = d
    BY <1>0, <2>2, <2>3 DEF MonoInv, Checkpoint
  <2>8. QED
    BY <2>1, <2>4, <2>5, <2>6, <2>7 DEF MonoInv, HoStart
<1>5. ASSUME NEW c \in pending, CompleteCheckpoint(c)
      PROVE MonoInv'
  <2>1. /\ pending' = pending \ {c} /\ stored' = stored \cup {c}
        /\ UNCHANGED <<up, fetchPos, srcHo, state, nextId>>
    BY <1>5 DEF CompleteCheckpoint
  <2>2. Ckpts' = Ckpts
    BY <2>1 DEF Ckpts
  <2>3. QED
    BY <2>1, <2>2, MonoInvUnchanged
<1>6. ASSUME NEW w \in Writers,
             PollRecord(w) \/ BeginFlush(w) \/ FlushOk(w) \/ FlushErr(w)
      PROVE MonoInv'
  BY <1>6, MonoInvUnchanged DEF PollRecord, BeginFlush, FlushOk, FlushErr, Ckpts
<1>7. CASE Crash
  <2>1. /\ up' = FALSE /\ pending' = {}
        /\ UNCHANGED <<state, stored, nextId>>
    BY <1>7 DEF Crash
  <2>2. Ckpts' \subseteq Ckpts
    BY <2>1 DEF Ckpts
  <2>3. QED
    BY <2>1, <2>2 DEF MonoInv
<1>8. CASE Restart
  <2>1. /\ ~up /\ up' = TRUE
        /\ state' = LoadLatest /\ fetchPos' = BeginOffset(LoadLatest)
        /\ UNCHANGED <<srcHo, pending, stored, nextId>>
    BY <1>8 DEF Restart
  <2>2. srcHo' = << >> /\ Len(srcHo') = 0 /\ pending = {}
    BY <2>1, EmptySeq DEF SourceInv
  <2>3. Ckpts' = stored /\ Ckpts = stored
    BY <2>1, <2>2 DEF Ckpts
  <2>4. CASE stored = {}
    <3>1. state' = NoOffset
      BY <2>1, <2>4 DEF LoadLatest
    <3>2. QED
      BY <2>3, <2>4, <3>1 DEF MonoInv
  <2>5. CASE stored # {}
    <3>1. PICK l \in stored : \A d \in stored : d.id <= l.id
      BY <2>5 DEF HasLatest
    <3>2. stored \subseteq Checkpoint /\ \A c, d \in stored : c.id = d.id => c = d
      BY <1>0, <2>3 DEF MonoInv
    <3>3. LoadLatest = l.offset /\ l.offset \in Nat
      <4>1. (CHOOSE c \in stored : \A d \in stored : d.id <= c.id) = l
        BY <3>1, <3>2, LatestIs
      <4>2. QED
        BY <2>5, <3>1, <3>2, <4>1 DEF LoadLatest, Checkpoint
    <3>4. state' = l.offset /\ fetchPos' = l.offset /\ HoStart' = l.offset
      BY <2>1, <2>2, <3>3 DEF BeginOffset, HoStart
    <3>5. \A c \in stored : c.offset <= l.offset
      <4>1. SUFFICES ASSUME NEW c \in stored PROVE c.offset <= l.offset
        OBVIOUS
      <4>2. CASE c.id < l.id
        BY <2>3, <4>2 DEF MonoInv
      <4>3. CASE c.id = l.id
        BY <3>2, <3>3, <4>3
      <4>4. QED
        BY <3>1, <3>2, <4>2, <4>3 DEF Checkpoint
    <3>6. QED
      BY <2>1, <2>3, <3>3, <3>4, <3>5 DEF MonoInv
  <2>6. QED
    BY <2>4, <2>5
<1>9. CASE UNCHANGED vars
  BY <1>9, MonoInvUnchanged DEF vars, Ckpts
<1>10. QED
  BY <1>1, <1>2, <1>3, <1>4, <1>5, <1>6, <1>7, <1>8, <1>9 DEF Next

\* One step of Next moves the recovery point forward or leaves it: only
\* CompleteCheckpoint changes the storage, and the checkpoint it saves
\* either is older than the latest or names a greater offset.
LEMMA MonoStep ==
  ASSUME TypeInv, MonoInv, [Next]_vars
  PROVE  LoadLatest # NoOffset => /\ LoadLatest' # NoOffset
                                  /\ LoadLatest' >= LoadLatest
<1> USE FlagAssumption DEF TypeInv
<1>0. /\ stored \subseteq Checkpoint /\ pending \subseteq Checkpoint
      /\ \A c, d \in stored : c.id = d.id => c = d
  BY DEF TypeOK, MonoInv, Ckpts
<1>1. CASE \E c \in pending : CompleteCheckpoint(c)
  <2>1. PICK c \in pending : CompleteCheckpoint(c)
    BY <1>1
  <2>2. stored' = stored \cup {c}
    BY <2>1 DEF CompleteCheckpoint
  <2>3. SUFFICES ASSUME LoadLatest # NoOffset
                 PROVE  LoadLatest' # NoOffset /\ LoadLatest' >= LoadLatest
    OBVIOUS
  <2>4. PICK l \in stored : \A d \in stored : d.id <= l.id
    BY <2>3 DEF LoadLatest, HasLatest
  <2>5. LoadLatest = l.offset
    <3>1. (CHOOSE x \in stored : \A d \in stored : d.id <= x.id) = l
      BY <1>0, <2>4, LatestIs
    <3>2. QED
      BY <2>4, <3>1 DEF LoadLatest
  <2>6. /\ stored' \subseteq Checkpoint
        /\ \A x, y \in stored' : x.id = y.id => x = y
    BY <1>0, <2>2 DEF MonoInv, Ckpts
  <2>7. l.offset \in Nat /\ c.offset \in Nat /\ l.id \in Nat /\ c.id \in Nat
    BY <1>0 DEF Checkpoint, Offsets
  <2>8. CASE c.id <= l.id
    <3>1. \A d \in stored' : d.id <= l.id
      BY <2>2, <2>4, <2>8
    <3>2. LoadLatest' = l.offset
      <4>1. (CHOOSE x \in stored' : \A d \in stored' : d.id <= x.id) = l
        BY <2>2, <2>6, <3>1, LatestIs
      <4>2. QED
        BY <2>2, <4>1 DEF LoadLatest
    <3>3. QED
      BY <2>5, <2>7, <3>2
  <2>9. CASE l.id < c.id
    <3>1. \A d \in stored' : d.id <= c.id
      BY <1>0, <2>2, <2>4, <2>7, <2>9 DEF Checkpoint
    <3>2. LoadLatest' = c.offset
      <4>1. (CHOOSE x \in stored' : \A d \in stored' : d.id <= x.id) = c
        BY <2>2, <2>6, <3>1, LatestIs
      <4>2. QED
        BY <2>2, <4>1 DEF LoadLatest
    <3>3. l.offset <= c.offset
      BY <2>9 DEF MonoInv, Ckpts
    <3>4. QED
      BY <2>5, <2>7, <3>2, <3>3
  <2>10. QED
    BY <2>7, <2>8, <2>9
<1>2. CASE stored' = stored
  <2>1. LoadLatest' = LoadLatest
    BY <1>2 DEF LoadLatest
  <2>2. LoadLatest \in (0 .. log) \cup {NoOffset}
    BY LoadLatestType DEF TypeInv
  <2>3. QED
    BY <2>1, <2>2
<1>3. QED
  BY <1>1, <1>2 DEF Next, vars, Produce, ConsumerFetch, Emit, TriggerCheckpoint,
     PollRecord, BeginFlush, FlushOk, FlushErr, Crash, Restart

(* The recovery point never moves back, for every value of the constants  *)
(* (the RecoveryPointMonotone that MCPipeline_crash checks): whatever      *)
(* order the coordinator saves acknowledged checkpoints in, the           *)
(* checkpoint CheckpointStorage::load returns, and so the offset a restart *)
(* resumes from, never names a smaller offset than before.               *)
THEOREM RecoveryMonotone ==
  ASSUME OffsetRange = "None"
  PROVE  Spec => RecoveryPointMonotone
<1>1. Init => IInv /\ MonoInv
  BY TypeInvInit, SourceInvInit, MonoInvInit DEF IInv
<1>2. IInv /\ MonoInv /\ [Next]_vars => (IInv /\ MonoInv)'
  BY TypeInvNext, SourceInvNext, MonoInvNext DEF IInv
<1>3. IInv /\ MonoInv /\ [Next]_vars =>
        [LoadLatest # NoOffset => /\ LoadLatest' # NoOffset
                                  /\ LoadLatest' >= LoadLatest]_vars
  BY MonoStep DEF IInv
<1>4. QED
  BY <1>1, <1>2, <1>3, PTL DEF Spec, RecoveryPointMonotone
=============================================================================
