----------------------------- MODULE SinkProofs -----------------------------
(***************************************************************************)
(* DuplicatesOnlyFromRecovery for every value of the constants: within one *)
(* incarnation of the worker, ElasticsearchWriteThread sends each record   *)
(* at most once, so across crashes a record reaches Elasticsearch at most  *)
(* 1 + crashes times.                                                      *)
(*                                                                         *)
(* The property is not inductive.  It rests on the record being in one     *)
(* place at a time: the consumer thread fetches each offset once per       *)
(* incarnation (everything buffered is below fetchPos), and an offset is   *)
(* held by at most one of the source Handover, the sink Handover and the   *)
(* batches of the writer tasks, and at most once in a Handover.  Then the *)
(* bulk request of a batch removes its records from every place they could *)
(* be sent again from.  It does not need OffsetRange = "None": a restart   *)
(* may begin anywhere, since the crash before it counts.                   *)
(***************************************************************************)
EXTENDS PipelineProofs

\* Every buffered offset lies below the consumer's position.
InFlightBelow == \A o \in InFlight : o < fetchPos

\* A stopped worker buffers nothing.
Stopped == ~up => InFlight = {}

\* No offset is held twice: each Handover holds an offset at most once, and
\* the two Handovers and the batches of different writers share none.
Disjoint ==
  /\ IsInjective(srcHo)
  /\ IsInjective(sinkHo)
  /\ Contents(srcHo) \cap Contents(sinkHo) = {}
  /\ \A w \in Writers :
       Contents(batch[w]) \cap (Contents(srcHo) \cup Contents(sinkHo)) = {}
  /\ \A w, v \in Writers :
       w # v => Contents(batch[w]) \cap Contents(batch[v]) = {}

\* Offset o may still be sent in this incarnation: it is buffered, or the
\* consumer has not fetched it yet.
MaySend(o) == o \in InFlight \/ fetchPos <= o

\* A record was sent at most once per incarnation so far ...
CountBound == \A o \in Offsets : idxCount[o] <= crashes + (IF up THEN 1 ELSE 0)

\* ... and a record that may still be sent was sent at most once per
\* earlier incarnation.
SendBound == up => \A o \in Offsets : MaySend(o) => idxCount[o] <= crashes
-----------------------------------------------------------------------------
(***************************************************************************)
(* What Append and Tail do to the records a sequence holds, and to its    *)
(* holding each at most once.                                              *)
(***************************************************************************)
LEMMA ContentsEmpty == Contents(<< >>) = {} /\ IsInjective(<< >>)
BY DEF Contents, Range, IsInjective

LEMMA ContentsAppend ==
  ASSUME NEW s \in Seq(Offsets), NEW x \in Offsets
  PROVE  /\ Contents(Append(s, x)) = Contents(s) \cup {x}
         /\ IsInjective(s) /\ x \notin Contents(s) => IsInjective(Append(s, x))
<1>1. /\ DOMAIN Append(s, x) = 1 .. (Len(s) + 1)
      /\ \A i \in 1 .. Len(s) : Append(s, x)[i] = s[i]
      /\ Append(s, x)[Len(s) + 1] = x
      /\ DOMAIN s = 1 .. Len(s)
      /\ Len(s) \in Nat
  BY AppendProperties
<1>2. Contents(Append(s, x)) = Contents(s) \cup {x}
  BY <1>1 DEF Contents, Range
<1>3. ASSUME IsInjective(s), x \notin Contents(s) PROVE IsInjective(Append(s, x))
  <2>1. \A i \in 1 .. Len(s) : s[i] # x
    BY <1>1, <1>3 DEF Contents, Range
  <2>2. QED
    BY <1>1, <1>3, <2>1 DEF IsInjective
<1>4. QED
  BY <1>2, <1>3

LEMMA ContentsTail ==
  ASSUME NEW s \in Seq(Offsets), s # << >>
  PROVE  /\ Head(s) \in Offsets
         /\ Tail(s) \in Seq(Offsets)
         /\ Contents(s) = Contents(Tail(s)) \cup {Head(s)}
         /\ IsInjective(s) => /\ Head(s) \notin Contents(Tail(s))
                              /\ IsInjective(Tail(s))
<1>1. /\ Len(s) \in Nat \ {0}
      /\ Head(s) = s[1]
      /\ Len(Tail(s)) = Len(s) - 1
      /\ \A i \in 1 .. Len(Tail(s)) : Tail(s)[i] = s[i + 1]
  BY TailFacts
<1>2. /\ Head(s) \in Offsets /\ Tail(s) \in Seq(Offsets)
      /\ DOMAIN s = 1 .. Len(s) /\ DOMAIN Tail(s) = 1 .. Len(Tail(s))
  BY HeadTailProperties
<1>3. Contents(s) = Contents(Tail(s)) \cup {Head(s)}
  <2>1. ASSUME NEW i \in 1 .. Len(s) PROVE s[i] \in Contents(Tail(s)) \cup {Head(s)}
    <3>1. CASE i = 1
      BY <1>1, <3>1
    <3>2. CASE i # 1
      <4>1. i - 1 \in 1 .. Len(Tail(s)) /\ Tail(s)[i - 1] = s[i]
        BY <1>1, <3>2
      <4>2. QED
        BY <1>2, <4>1 DEF Contents, Range
    <3>3. QED
      BY <3>1, <3>2
  <2>2. ASSUME NEW j \in 1 .. Len(Tail(s)) PROVE Tail(s)[j] \in Contents(s)
    <3>1. j + 1 \in 1 .. Len(s) /\ Tail(s)[j] = s[j + 1]
      BY <1>1
    <3>2. QED
      BY <1>2, <3>1 DEF Contents, Range
  <2>3. Head(s) \in Contents(s)
    BY <1>1, <1>2 DEF Contents, Range
  <2>4. QED
    BY <1>2, <2>1, <2>2, <2>3 DEF Contents, Range
<1>4. ASSUME IsInjective(s)
      PROVE  Head(s) \notin Contents(Tail(s)) /\ IsInjective(Tail(s))
  BY <1>1, <1>2, <1>4 DEF Contents, Range, IsInjective
<1>5. QED
  BY <1>2, <1>3, <1>4

\* The invariant behind DuplicatesOnlyFromRecovery.
DupInv == TypeInv /\ Stopped /\ InFlightBelow /\ Disjoint /\ CountBound /\ SendBound
\* The parts of DupInv beside TypeInv.
DupParts == Stopped /\ InFlightBelow /\ Disjoint /\ CountBound /\ SendBound
-----------------------------------------------------------------------------
THEOREM DupInvInit == Init => DupInv
<1> SUFFICES ASSUME Init PROVE DupInv
  OBVIOUS
<1>1. TypeInv
  BY TypeInvInit
<1>2. /\ Contents(srcHo) = {} /\ Contents(sinkHo) = {}
      /\ \A w \in Writers : Contents(batch[w]) = {}
      /\ IsInjective(srcHo) /\ IsInjective(sinkHo)
  BY ContentsEmpty DEF Init
<1>3. InFlight = {}
  BY <1>2 DEF InFlight
<1>4. up /\ crashes = 0 /\ \A o \in Offsets : idxCount[o] = 0
  BY DEF Init
<1>5. QED
  BY <1>1, <1>2, <1>3, <1>4
  DEF DupInv, Stopped, InFlightBelow, Disjoint, CountBound, SendBound

\* A bulk request of writer w ends, having applied the records S of its
\* batch (FlushOk: all of them; FlushErr: any subset), and the batch is
\* dropped: no applied record can be sent again in this incarnation.
LEMMA FlushStep ==
  ASSUME DupInv, NEW w \in Writers, NEW S \in SUBSET Contents(batch[w]),
         up,
         batch' = [batch EXCEPT ![w] = << >>],
         idxCount' = CountIndexed(S),
         UNCHANGED <<up, fetchPos, srcHo, sinkHo, crashes>>
  PROVE  DupParts'
<1> USE DEF DupInv, TypeInv, TypeOK
<1>1. /\ Contents(batch'[w]) = {}
      /\ \A v \in Writers \ {w} : batch'[v] = batch[v]
  BY ContentsEmpty
<1>2. ASSUME NEW o \in Contents(batch[w]) PROVE o \notin InFlight'
  <2>1. o \notin Contents(srcHo) \cup Contents(sinkHo)
    BY DEF Disjoint
  <2>2. \A v \in Writers \ {w} : o \notin Contents(batch[v])
    BY DEF Disjoint
  <2>3. QED
    BY <1>1, <2>1, <2>2 DEF InFlight
<1>3. InFlight' \subseteq InFlight
  BY <1>1 DEF InFlight
<1>4. \A o \in Offsets : idxCount'[o] = IF o \in S THEN idxCount[o] + 1 ELSE idxCount[o]
  BY DEF CountIndexed
<1>5. \A o \in S : o \in InFlight
  BY DEF InFlight
<1>6. Stopped' /\ InFlightBelow'
  BY <1>3 DEF Stopped, InFlightBelow
<1>7. Disjoint'
  BY <1>1 DEF Disjoint
<1>8. CountBound'
  <2>1. ASSUME NEW o \in Offsets PROVE idxCount'[o] <= crashes' + 1
    <3>1. CASE o \in S
      <4>1. idxCount[o] <= crashes
        BY <1>5, <3>1 DEF SendBound, MaySend
      <4>2. QED
        BY <1>4, <3>1, <4>1
    <3>2. CASE o \notin S
      BY <1>4, <3>2 DEF CountBound
    <3>3. QED
      BY <3>1, <3>2
  <2>2. QED
    BY <2>1 DEF CountBound
<1>9. SendBound'
  <2>1. ASSUME NEW o \in Offsets, MaySend(o)' PROVE idxCount'[o] <= crashes'
    <3>1. o \notin S
      <4>1. SUFFICES ASSUME o \in S PROVE FALSE
        OBVIOUS
      <4>2. o \in InFlight /\ o \notin InFlight'
        BY <1>2, <1>5, <4>1
      <4>3. o < fetchPos /\ fetchPos \in Nat
        BY <4>2 DEF InFlightBelow, Offsets
      <4>4. QED
        BY <2>1, <4>2, <4>3 DEF MaySend
    <3>2. MaySend(o)
      BY <1>3, <2>1 DEF MaySend
    <3>3. QED
      BY <1>4, <3>1, <3>2 DEF SendBound
  <2>2. QED
    BY <2>1 DEF SendBound
<1>10. QED
  BY <1>6, <1>7, <1>8, <1>9 DEF DupParts
\* Steps that change none of the buffers, the consumer position, the
\* counts or whether the worker runs.
LEMMA DupUnchanged ==
  ASSUME DupInv, UNCHANGED <<up, fetchPos, srcHo, sinkHo, batch, crashes, idxCount>>
  PROVE  DupParts'
BY DEF DupInv, DupParts, Stopped, InFlightBelow, Disjoint, CountBound, SendBound,
       MaySend, InFlight, Contents

THEOREM DupInvNext == DupInv /\ [Next]_vars => DupInv'
<1> SUFFICES ASSUME DupInv, [Next]_vars PROVE DupParts'
  BY TypeInvNext DEF DupInv, DupParts
<1>0. /\ srcHo \in Seq(Offsets) /\ sinkHo \in Seq(Offsets)
      /\ \A v \in Writers : batch[v] \in Seq(Offsets)
      /\ fetchPos \in Nat /\ crashes \in Nat
      /\ \A o \in Offsets : idxCount[o] \in Nat
  BY BoundAssumption DEF DupInv, TypeInv, TypeOK, Offsets
<1>0a. InFlight \subseteq Offsets
  BY <1>0, ContentsType DEF InFlight
<1>1. CASE ConsumerFetch
  <2>1. /\ up /\ fetchPos \in Offsets
        /\ srcHo' = Append(srcHo, fetchPos) /\ fetchPos' = fetchPos + 1
        /\ UNCHANGED <<up, sinkHo, batch, crashes, idxCount>>
    BY <1>1 DEF ConsumerFetch, DupInv, TypeInv, TypeOK
  <2>2. fetchPos \notin InFlight
    BY <1>0 DEF DupInv, InFlightBelow
  <2>3. Contents(srcHo') = Contents(srcHo) \cup {fetchPos} /\ IsInjective(srcHo')
    BY <1>0, <2>1, <2>2, ContentsAppend DEF InFlight, DupInv, Disjoint
  <2>4. InFlight' = InFlight \cup {fetchPos}
    BY <2>1, <2>3 DEF InFlight
  <2>5. Stopped' /\ InFlightBelow'
    BY <1>0, <1>0a, <2>1, <2>4 DEF DupInv, Stopped, InFlightBelow, Offsets
  <2>6. Disjoint'
    <3>1. /\ fetchPos \notin Contents(sinkHo)
          /\ \A v \in Writers : fetchPos \notin Contents(batch[v])
      BY <2>2 DEF InFlight
    <3>2. Contents(srcHo') \cap Contents(sinkHo') = {}
      BY <2>1, <2>3, <3>1 DEF DupInv, Disjoint
    <3>3. \A v \in Writers :
            Contents(batch'[v]) \cap (Contents(srcHo') \cup Contents(sinkHo')) = {}
      BY <2>1, <2>3, <3>1 DEF DupInv, Disjoint
    <3>4. QED
      BY <2>1, <2>3, <3>2, <3>3 DEF DupInv, Disjoint
  <2>7. CountBound' /\ SendBound'
    BY <1>0, <2>1, <2>4 DEF DupInv, CountBound, SendBound, MaySend
  <2>8. QED
    BY <2>5, <2>6, <2>7 DEF DupParts
<1>2. CASE Emit
  <2> DEFINE h == Head(srcHo)
  <2>1. /\ up /\ srcHo # << >>
        /\ srcHo' = Tail(srcHo) /\ sinkHo' = Append(sinkHo, h)
        /\ UNCHANGED <<up, fetchPos, batch, crashes, idxCount>>
    BY <1>2 DEF Emit
  <2>2. /\ h \in Offsets /\ Tail(srcHo) \in Seq(Offsets)
        /\ Contents(srcHo) = Contents(Tail(srcHo)) \cup {h}
        /\ h \notin Contents(Tail(srcHo)) /\ IsInjective(Tail(srcHo))
    BY <1>0, <2>1, ContentsTail DEF DupInv, Disjoint
  <2>3. h \notin Contents(sinkHo)
    BY <2>2 DEF DupInv, Disjoint
  <2>4. Contents(sinkHo') = Contents(sinkHo) \cup {h} /\ IsInjective(sinkHo')
    BY <1>0, <2>1, <2>2, <2>3, ContentsAppend DEF DupInv, Disjoint
  <2>5. Contents(srcHo') \cup Contents(sinkHo') = Contents(srcHo) \cup Contents(sinkHo)
    BY <2>1, <2>2, <2>4
  <2>6. InFlight' = InFlight
    BY <2>1, <2>5 DEF InFlight
  <2>7. Disjoint'
    BY <2>1, <2>2, <2>3, <2>4, <2>5 DEF DupInv, Disjoint
  <2>8. Stopped' /\ InFlightBelow' /\ CountBound' /\ SendBound'
    BY <2>1, <2>6 DEF DupInv, Stopped, InFlightBelow, CountBound, SendBound, MaySend
  <2>9. QED
    BY <2>7, <2>8 DEF DupParts
<1>3. CASE Produce
  BY <1>3, DupUnchanged DEF Produce
<1>4. CASE TriggerCheckpoint
  BY <1>4, DupUnchanged DEF TriggerCheckpoint
<1>5. CASE \E c \in pending : CompleteCheckpoint(c)
  BY <1>5, DupUnchanged DEF CompleteCheckpoint
<1>6. CASE UNCHANGED vars
  BY <1>6, DupUnchanged DEF vars
<1>7. CASE Restart
  <2>1. /\ ~up /\ up'
        /\ UNCHANGED <<srcHo, sinkHo, batch, crashes, idxCount>>
    BY <1>7 DEF Restart
  <2>2. InFlight = {} /\ InFlight' = {}
    BY <2>1 DEF DupInv, Stopped, InFlight
  <2>3. \A o \in Offsets : idxCount[o] <= crashes
    BY <1>0, <2>1 DEF DupInv, CountBound
  <2>4. Stopped' /\ InFlightBelow' /\ Disjoint'
    BY <2>1, <2>2 DEF DupInv, Stopped, InFlightBelow, Disjoint
  <2>5. CountBound' /\ SendBound'
    BY <1>0, <2>1, <2>3 DEF CountBound, SendBound
  <2>6. QED
    BY <2>4, <2>5 DEF DupParts
<1>8. CASE Crash
  <2>1. PICK applied \in SUBSET UNION {Contents(batch[w]) : w \in {v \in Writers : wpc[v] = "flush"}} :
          idxCount' = CountIndexed(applied)
    BY <1>8 DEF Crash
  <2>2. /\ up /\ ~up' /\ crashes' = crashes + 1
        /\ srcHo' = << >> /\ sinkHo' = << >> /\ batch' = [w \in Writers |-> << >>]
    BY <1>8 DEF Crash
  <2>3. applied \subseteq InFlight
    BY <2>1 DEF InFlight
  <2>4. InFlight' = {} /\ Disjoint'
    BY <2>2, ContentsEmpty DEF InFlight, Disjoint
  <2>5. \A o \in Offsets : idxCount'[o] = IF o \in applied THEN idxCount[o] + 1 ELSE idxCount[o]
    BY <2>1 DEF CountIndexed
  <2>6. CountBound'
    <3>1. ASSUME NEW o \in Offsets PROVE idxCount'[o] <= crashes'
      <4>1. CASE o \in applied
        <5>1. idxCount[o] <= crashes
          BY <2>2, <2>3, <4>1 DEF DupInv, SendBound, MaySend
        <5>2. QED
          BY <1>0, <2>2, <2>5, <4>1, <5>1
      <4>2. CASE o \notin applied
        BY <1>0, <2>2, <2>5, <4>2 DEF DupInv, CountBound
      <4>3. QED
        BY <4>1, <4>2
    <3>2. QED
      BY <1>0, <2>2, <3>1 DEF CountBound
  <2>7. QED
    BY <2>2, <2>4, <2>6 DEF DupParts, Stopped, InFlightBelow, SendBound
<1>9. ASSUME NEW w \in Writers, PollRecord(w) PROVE DupParts'
  <2> DEFINE h == Head(sinkHo)
  <2>1. /\ up /\ sinkHo # << >>
        /\ batch' = [batch EXCEPT ![w] = Append(batch[w], h)]
        /\ sinkHo' = Tail(sinkHo)
        /\ UNCHANGED <<up, fetchPos, srcHo, crashes, idxCount>>
    BY <1>9 DEF PollRecord
  <2>2. /\ h \in Offsets /\ Tail(sinkHo) \in Seq(Offsets)
        /\ Contents(sinkHo) = Contents(Tail(sinkHo)) \cup {h}
        /\ h \notin Contents(Tail(sinkHo)) /\ IsInjective(Tail(sinkHo))
    BY <1>0, <2>1, ContentsTail DEF DupInv, Disjoint
  <2>3. /\ Contents(batch'[w]) = Contents(batch[w]) \cup {h}
        /\ \A v \in Writers \ {w} : batch'[v] = batch[v]
    BY <1>0, <2>1, <2>2, ContentsAppend DEF DupInv, TypeInv, TypeOK
  <2>4. /\ h \notin Contents(srcHo)
        /\ \A v \in Writers : h \notin Contents(batch[v])
    BY <2>2 DEF DupInv, Disjoint
  <2>5. InFlight' \subseteq InFlight
    <3>1. ASSUME NEW v \in Writers PROVE Contents(batch'[v]) \subseteq InFlight
      BY <2>2, <2>3 DEF InFlight
    <3>2. QED
      BY <2>1, <2>2, <3>1 DEF InFlight
  <2>6. Disjoint'
    <3>1. IsInjective(srcHo') /\ IsInjective(sinkHo')
      BY <2>1, <2>2 DEF DupInv, Disjoint
    <3>2. Contents(srcHo') \cap Contents(sinkHo') = {}
      BY <2>1, <2>2 DEF DupInv, Disjoint
    <3>3. ASSUME NEW v \in Writers
          PROVE  Contents(batch'[v]) \cap (Contents(srcHo') \cup Contents(sinkHo')) = {}
      BY <2>1, <2>2, <2>3, <2>4 DEF DupInv, Disjoint
    <3>4. ASSUME NEW v \in Writers, NEW u \in Writers, v # u
          PROVE  Contents(batch'[v]) \cap Contents(batch'[u]) = {}
      <4>1. Contents(batch[v]) \cap Contents(batch[u]) = {}
        BY <3>4 DEF DupInv, Disjoint
      <4>2. QED
        BY <2>3, <2>4, <3>4, <4>1
    <3>5. QED
      BY <3>1, <3>2, <3>3, <3>4 DEF Disjoint
  <2>7. Stopped' /\ InFlightBelow' /\ CountBound' /\ SendBound'
    BY <2>1, <2>5 DEF DupInv, Stopped, InFlightBelow, CountBound, SendBound, MaySend
  <2>8. QED
    BY <2>6, <2>7 DEF DupParts
<1>10. ASSUME NEW w \in Writers, BeginFlush(w) PROVE DupParts'
  BY <1>10, DupUnchanged DEF BeginFlush
<1>11. ASSUME NEW w \in Writers, FlushOk(w) PROVE DupParts'
  <2>1. Contents(batch[w]) \in SUBSET Contents(batch[w])
    OBVIOUS
  <2>2. QED
    BY <1>11, <2>1, FlushStep DEF FlushOk
<1>12. ASSUME NEW w \in Writers, FlushErr(w) PROVE DupParts'
  <2>1. PICK applied \in SUBSET Contents(batch[w]) : idxCount' = CountIndexed(applied)
    BY <1>12 DEF FlushErr
  <2>2. QED
    BY <1>12, <2>1, FlushStep DEF FlushErr
<1>13. QED
  BY <1>1, <1>2, <1>3, <1>4, <1>5, <1>6, <1>7, <1>8, <1>9, <1>10, <1>11, <1>12
  DEF Next
LEMMA DupInvImplies == DupInv => DuplicatesOnlyFromRecovery
<1> SUFFICES ASSUME DupInv, NEW o \in Offsets PROVE idxCount[o] <= 1 + crashes
  BY DEF DuplicatesOnlyFromRecovery
<1>1. crashes \in Nat /\ idxCount[o] \in Nat
  BY DEF DupInv, TypeInv, TypeOK
<1>2. QED
  BY <1>1 DEF DupInv, CountBound

(* Duplicates only come from recovery, for every value of the constants:  *)
(* the writer tasks of ElasticsearchWriteThread, polling one Handover      *)
(* concurrently and dropping or partly applying failed bulk requests, send *)
(* a record at most once per incarnation of the worker, so at most         *)
(* 1 + crashes times in all, whatever offset a restart begins at.          *)
THEOREM SinkNoDuplicates == Spec => []DuplicatesOnlyFromRecovery
<1>1. Init => DupInv
  BY DupInvInit
<1>2. DupInv /\ [Next]_vars => DupInv'
  BY DupInvNext
<1>3. QED
  BY <1>1, <1>2, DupInvImplies, PTL DEF Spec
-----------------------------------------------------------------------------
(***************************************************************************)
(* AtLeastOnce when Elasticsearch answers every bulk request without      *)
(* errors and the worker does not crash: the two ways the code loses a    *)
(* record (findings of runs pipeline_esfail and pipeline_crashloss) are   *)
(* then absent, and every fetched record is buffered or indexed.  The     *)
(* invariant adds that the worker keeps running.                           *)
(***************************************************************************)
RelInv == TypeInv /\ up /\ AtLeastOnce

\* A step that keeps the worker running, base and fetchPos, and buffers or
\* indexes everything it buffered or indexed before.
LEMMA KeepsFetched ==
  ASSUME RelInv, up', UNCHANGED <<base, fetchPos>>,
         InFlight \cup indexed \subseteq InFlight' \cup indexed'
  PROVE  AtLeastOnce'
BY DEF RelInv, AtLeastOnce

THEOREM RelInvNext ==
  ASSUME ~EsMayFail, MaxCrashes = 0
  PROVE  RelInv /\ [Next]_vars => RelInv'
<1> SUFFICES ASSUME RelInv, [Next]_vars PROVE up' /\ AtLeastOnce'
  BY TypeInvNext DEF RelInv
<1>0. /\ srcHo \in Seq(Offsets) /\ sinkHo \in Seq(Offsets)
      /\ \A v \in Writers : batch[v] \in Seq(Offsets)
      /\ fetchPos \in Nat /\ crashes \in Nat /\ up
  BY BoundAssumption DEF RelInv, TypeInv, TypeOK, Offsets
<1>1. CASE ConsumerFetch
  <2>1. /\ fetchPos \in Offsets
        /\ srcHo' = Append(srcHo, fetchPos) /\ fetchPos' = fetchPos + 1
        /\ UNCHANGED <<up, base, sinkHo, batch, indexed>>
    BY <1>1 DEF ConsumerFetch, RelInv, TypeInv, TypeOK
  <2>2. Contents(srcHo') = Contents(srcHo) \cup {fetchPos}
    BY <1>0, <2>1, ContentsAppend
  <2>3. InFlight' = InFlight \cup {fetchPos}
    BY <2>1, <2>2 DEF InFlight
  <2>4. QED
    BY <1>0, <2>1, <2>3 DEF RelInv, AtLeastOnce
<1>2. CASE Emit
  <2>1. /\ srcHo # << >>
        /\ srcHo' = Tail(srcHo) /\ sinkHo' = Append(sinkHo, Head(srcHo))
        /\ UNCHANGED <<up, base, fetchPos, batch, indexed>>
    BY <1>2 DEF Emit
  <2>2. /\ Head(srcHo) \in Offsets
        /\ Contents(srcHo) = Contents(Tail(srcHo)) \cup {Head(srcHo)}
    BY <1>0, <2>1, ContentsTail
  <2>3. Contents(sinkHo') = Contents(sinkHo) \cup {Head(srcHo)}
    BY <1>0, <2>1, <2>2, ContentsAppend
  <2>4. InFlight \subseteq InFlight'
    BY <2>1, <2>2, <2>3 DEF InFlight
  <2>5. QED
    BY <1>0, <2>1, <2>4, KeepsFetched
<1>3. ASSUME NEW w \in Writers, PollRecord(w) PROVE up' /\ AtLeastOnce'
  <2>1. /\ sinkHo # << >>
        /\ batch' = [batch EXCEPT ![w] = Append(batch[w], Head(sinkHo))]
        /\ sinkHo' = Tail(sinkHo)
        /\ UNCHANGED <<up, base, fetchPos, srcHo, indexed>>
    BY <1>3 DEF PollRecord
  <2>2. /\ Head(sinkHo) \in Offsets
        /\ Contents(sinkHo) = Contents(Tail(sinkHo)) \cup {Head(sinkHo)}
    BY <1>0, <2>1, ContentsTail
  <2>3. /\ Contents(batch'[w]) = Contents(batch[w]) \cup {Head(sinkHo)}
        /\ \A v \in Writers \ {w} : batch'[v] = batch[v]
    BY <1>0, <2>1, <2>2, ContentsAppend DEF RelInv, TypeInv, TypeOK
  <2>4. InFlight \subseteq InFlight'
    <3>1. \A v \in Writers : Contents(batch[v]) \subseteq Contents(batch'[v])
      BY <2>3
    <3>2. Contents(sinkHo) \subseteq Contents(sinkHo') \cup Contents(batch'[w])
      BY <2>1, <2>2, <2>3
    <3>3. QED
      BY <2>1, <3>1, <3>2 DEF InFlight
  <2>5. QED
    BY <1>0, <2>1, <2>4, KeepsFetched
<1>4. ASSUME NEW w \in Writers, FlushOk(w) PROVE up' /\ AtLeastOnce'
  <2>1. /\ indexed' = indexed \cup Contents(batch[w])
        /\ batch' = [batch EXCEPT ![w] = << >>]
        /\ UNCHANGED <<up, base, fetchPos, srcHo, sinkHo>>
    BY <1>4 DEF FlushOk
  <2>2. \A v \in Writers \ {w} : batch'[v] = batch[v]
    BY <2>1 DEF RelInv, TypeInv, TypeOK
  <2>3. InFlight \cup indexed \subseteq InFlight' \cup indexed'
    BY <2>1, <2>2 DEF InFlight
  <2>4. QED
    BY <1>0, <2>1, <2>3, KeepsFetched
<1>5. ASSUME NEW w \in Writers, FlushErr(w) PROVE FALSE
  BY <1>5 DEF FlushErr
<1>6. ~Crash
  BY <1>0 DEF Crash
<1>7. ~Restart
  BY <1>0 DEF Restart
<1>8. ASSUME NEW w \in Writers, BeginFlush(w) PROVE up' /\ AtLeastOnce'
  BY <1>0, <1>8, KeepsFetched DEF BeginFlush, InFlight
<1>9. CASE Produce \/ TriggerCheckpoint \/ (\E c \in pending : CompleteCheckpoint(c))
       \/ UNCHANGED vars
  BY <1>0, <1>9, KeepsFetched
  DEF Produce, TriggerCheckpoint, CompleteCheckpoint, vars, InFlight
<1>10. QED
  BY <1>1, <1>2, <1>3, <1>4, <1>5, <1>6, <1>7, <1>8, <1>9 DEF Next

(* At-least-once delivery to Elasticsearch with a reliable Elasticsearch *)
(* and no crash, for every value of the other constants: every record the *)
(* Kafka consumer thread fetched is in a Handover or a writer's batch, or  *)
(* indexed; run0's error path and a crash are the only ways to lose one.  *)
THEOREM ReliableAtLeastOnce ==
  ASSUME ~EsMayFail, MaxCrashes = 0
  PROVE  Spec => []AtLeastOnce
<1>1. Init => RelInv
  <2> SUFFICES ASSUME Init PROVE RelInv
    OBVIOUS
  <2>1. TypeInv
    BY TypeInvInit
  <2>2. fetchPos \in Nat /\ base = fetchPos /\ up
    BY BoundAssumption, RangeAssumption DEF Init, BeginOffset
  <2>3. QED
    BY <2>1, <2>2 DEF RelInv, AtLeastOnce
<1>2. RelInv /\ [Next]_vars => RelInv'
  BY RelInvNext
<1>3. QED
  BY <1>1, <1>2, PTL DEF Spec, RelInv
=============================================================================
