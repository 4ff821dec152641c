------------------------- MODULE SinkRefinement -------------------------
(***************************************************************************)
(* Proof that the sink of Pipeline implements BulkSink under the mapping   *)
(* SinkQueued / SinkRequests, for every value of the constants.           *)
(*                                                                         *)
(* The argument rests on DupInv (SinkProofs): the source Handover, the     *)
(* sink Handover and the writers' batches share no offset.  So the record *)
(* Emit writes is held nowhere in the sink (Write); a poll moves a record *)
(* from the Handover into a batch of the buffer (a stutter); BeginFlush   *)
(* takes the whole batch out of the buffer (Take); and the batch of a     *)
(* writer in flush is a request that no other writer's batch equals, so   *)
(* its answer removes exactly that request (Answer).  This needs one more  *)
(* fact: a writer awaits a bulk call only with a non-empty batch.         *)
(***************************************************************************)
EXTENDS SinkProofs

\* batch_send sends no empty batch.
FlushNonEmpty == \A w \in Writers : wpc[w] = "flush" => batch[w] # << >>

SInv == DupInv /\ FlushNonEmpty
-----------------------------------------------------------------------------
\* A non-empty sequence holds some record.
LEMMA ContentsNonEmpty ==
  ASSUME NEW s \in Seq(Offsets), s # << >>
  PROVE  Contents(s) # {}
BY ContentsTail

THEOREM FlushNonEmptyInit == Init => FlushNonEmpty
BY DEF Init, FlushNonEmpty

THEOREM FlushNonEmptyNext ==
  TypeInv /\ FlushNonEmpty /\ [Next]_vars => FlushNonEmpty'
<1> SUFFICES ASSUME TypeInv, FlushNonEmpty, [Next]_vars PROVE FlushNonEmpty'
  OBVIOUS
<1>1. ASSUME NEW w \in Writers, PollRecord(w) PROVE FlushNonEmpty'
  BY <1>1 DEF PollRecord, FlushNonEmpty, TypeInv, TypeOK
<1>2. ASSUME NEW w \in Writers, BeginFlush(w) PROVE FlushNonEmpty'
  BY <1>2 DEF BeginFlush, FlushNonEmpty, TypeInv, TypeOK
<1>3. ASSUME NEW w \in Writers, FlushOk(w) \/ FlushErr(w) PROVE FlushNonEmpty'
  BY <1>3 DEF FlushOk, FlushErr, FlushNonEmpty, TypeInv, TypeOK
<1>4. CASE Crash
  BY <1>4 DEF Crash, FlushNonEmpty
<1>5. CASE Produce \/ ConsumerFetch \/ Emit \/ TriggerCheckpoint \/ Restart
          \/ (\E c \in pending : CompleteCheckpoint(c)) \/ UNCHANGED vars
  BY <1>5 DEF Produce, ConsumerFetch, Emit, TriggerCheckpoint, Restart,
              CompleteCheckpoint, vars, FlushNonEmpty
<1> QED
  BY <1>1, <1>2, <1>3, <1>4, <1>5 DEF Next

THEOREM SInvInvariant == Spec => []SInv
<1>1. Init => SInv
  BY DupInvInit, FlushNonEmptyInit DEF SInv
<1>2. SInv /\ [Next]_vars => SInv'
  BY DupInvNext, FlushNonEmptyNext DEF SInv, DupInv
<1> QED
  BY <1>1, <1>2, PTL DEF Spec
-----------------------------------------------------------------------------
THEOREM SinkRefineInit == Init => Sink!Init
<1> SUFFICES ASSUME Init PROVE Sink!Init
  OBVIOUS
<1>1. SinkQueued = {} /\ SinkRequests = {}
  <2>1. Contents(sinkHo) = {} /\ \A w \in Writers : Contents(batch[w]) = {}
    BY ContentsEmpty DEF Init
  <2>2. {v \in Writers : wpc[v] = "flush"} = {}
    BY DEF Init
  <2> QED
    BY <2>1, <2>2 DEF SinkQueued, SinkRequests
<1> QED
  BY <1>1 DEF Init, Sink!Init

\* Steps that leave the worker, the sink Handover, the batches, the writers,
\* the index and the crash count alone are stutters of BulkSink.
LEMMA SinkStutter ==
  ASSUME UNCHANGED <<up, sinkHo, batch, wpc, indexed, idxCount, crashes>>
  PROVE  UNCHANGED Sink!bvars
BY DEF Sink!bvars, SinkQueued, SinkRequests

THEOREM SinkRefineStep == SInv /\ [Next]_vars => [Sink!Next]_Sink!bvars
<1> SUFFICES ASSUME TypeInv, Disjoint, FlushNonEmpty, [Next]_vars
             PROVE  [Sink!Next]_Sink!bvars
  BY DEF SInv, DupInv
<1>0. /\ srcHo \in Seq(Offsets) /\ sinkHo \in Seq(Offsets)
      /\ batch \in [Writers -> Seq(Offsets)]
      /\ wpc \in [Writers -> {"poll", "flush"}]
  BY DEF TypeInv, TypeOK
<1>1. CASE Produce \/ ConsumerFetch \/ TriggerCheckpoint
          \/ (\E c \in pending : CompleteCheckpoint(c)) \/ UNCHANGED vars
  <2>1. UNCHANGED <<up, sinkHo, batch, wpc, indexed, idxCount, crashes>>
    BY <1>1 DEF Produce, ConsumerFetch, TriggerCheckpoint, CompleteCheckpoint, vars
  <2> QED
    BY <2>1, SinkStutter
<1>2. CASE Emit
  <2> DEFINE h == Head(srcHo)
  <2>1. /\ up /\ srcHo # << >> /\ sinkHo' = Append(sinkHo, h)
        /\ UNCHANGED <<up, batch, wpc, indexed, idxCount, crashes>>
    BY <1>2 DEF Emit
  <2>2. h \in Offsets /\ h \in Contents(srcHo)
    BY <1>0, <2>1, ContentsTail
  <2>3. /\ h \notin Contents(sinkHo)
        /\ \A w \in Writers : h \notin Contents(batch[w])
    BY <2>2 DEF Disjoint
  <2>4. h \notin SinkQueued \cup UNION SinkRequests
    BY <2>3 DEF SinkQueued, SinkRequests
  <2>5. Contents(sinkHo') = Contents(sinkHo) \cup {h}
    BY <1>0, <2>1, <2>2, ContentsAppend
  <2>6. SinkQueued' = SinkQueued \cup {h} /\ SinkRequests' = SinkRequests
    BY <2>1, <2>5 DEF SinkQueued, SinkRequests
  <2> QED
    BY <2>1, <2>2, <2>4, <2>6 DEF Sink!Next, Sink!Write
<1>3. CASE Restart
  <2>1. /\ ~up /\ up'
        /\ UNCHANGED <<sinkHo, batch, wpc, indexed, idxCount, crashes>>
    BY <1>3 DEF Restart
  <2>2. SinkQueued' = SinkQueued /\ SinkRequests' = SinkRequests
    BY <2>1 DEF SinkQueued, SinkRequests
  <2> QED
    BY <2>1, <2>2 DEF Sink!Next, Sink!Restart
<1>4. ASSUME NEW w \in Writers, PollRecord(w) PROVE [Sink!Next]_Sink!bvars
  <2> DEFINE h == Head(sinkHo)
  <2>1. /\ wpc[w] = "poll" /\ sinkHo # << >>
        /\ batch' = [batch EXCEPT ![w] = Append(@, h)] /\ sinkHo' = Tail(sinkHo)
        /\ UNCHANGED <<up, wpc, indexed, idxCount, crashes>>
    BY <1>4 DEF PollRecord
  <2>2. h \in Offsets /\ Contents(sinkHo) = Contents(sinkHo') \cup {h}
    BY <1>0, <2>1, ContentsTail
  <2>3. /\ Contents(batch'[w]) = Contents(batch[w]) \cup {h}
        /\ \A v \in Writers \ {w} : batch'[v] = batch[v]
    BY <1>0, <2>1, <2>2, ContentsAppend
  <2>4. SinkQueued' = SinkQueued
    <3>1. SinkQueued' \subseteq SinkQueued
      BY <2>1, <2>2, <2>3 DEF SinkQueued
    <3>2. SinkQueued \subseteq SinkQueued'
      BY <2>1, <2>2, <2>3 DEF SinkQueued
    <3> QED
      BY <3>1, <3>2
  <2>5. SinkRequests' = SinkRequests
    BY <2>1, <2>3 DEF SinkRequests
  <2> QED
    BY <2>1, <2>4, <2>5 DEF Sink!bvars
<1>5. ASSUME NEW w \in Writers, BeginFlush(w) PROVE [Sink!Next]_Sink!bvars
  <2> DEFINE S == Contents(batch[w])
  <2>1. /\ up /\ wpc[w] = "poll" /\ batch[w] # << >>
        /\ wpc' = [wpc EXCEPT ![w] = "flush"]
        /\ UNCHANGED <<up, sinkHo, batch, indexed, idxCount, crashes>>
    BY <1>5 DEF BeginFlush
  <2>2. S # {}
    BY <1>0, <2>1, ContentsNonEmpty
  <2>3. /\ S \cap Contents(sinkHo) = {}
        /\ \A v \in Writers \ {w} : S \cap Contents(batch[v]) = {}
    BY DEF Disjoint
  <2>4. /\ {v \in Writers : wpc'[v] = "poll"} = {v \in Writers : wpc[v] = "poll"} \ {w}
        /\ {v \in Writers : wpc'[v] = "flush"} = {v \in Writers : wpc[v] = "flush"} \cup {w}
    BY <1>0, <2>1
  <2>5. S \subseteq SinkQueued
    BY <2>1 DEF SinkQueued
  <2>6. SinkQueued' = SinkQueued \ S
    <3>1. SinkQueued' \subseteq SinkQueued \ S
      BY <2>1, <2>3, <2>4 DEF SinkQueued
    <3>2. SinkQueued \ S \subseteq SinkQueued'
      BY <2>1, <2>4 DEF SinkQueued
    <3> QED
      BY <3>1, <3>2
  <2>7. SinkRequests' = SinkRequests \cup {S}
    BY <2>1, <2>4 DEF SinkRequests
  <2> QED
    BY <2>1, <2>2, <2>5, <2>6, <2>7 DEF Sink!Next, Sink!Take
<1>6. ASSUME NEW w \in Writers, FlushOk(w) \/ FlushErr(w) PROVE [Sink!Next]_Sink!bvars
  <2> DEFINE S == Contents(batch[w])
  <2>1. /\ up /\ wpc[w] = "flush"
        /\ batch' = [batch EXCEPT ![w] = << >>]
        /\ wpc' = [wpc EXCEPT ![w] = "poll"]
        /\ UNCHANGED <<up, sinkHo, crashes>>
    BY <1>6 DEF FlushOk, FlushErr
  <2>2. PICK applied \in SUBSET S :
          /\ EsMayFail \/ applied = S
          /\ indexed' = indexed \cup applied
          /\ idxCount' = CountIndexed(applied)
    BY <1>6 DEF FlushOk, FlushErr
  <2>3. /\ Contents(batch'[w]) = {}
        /\ \A v \in Writers \ {w} : batch'[v] = batch[v]
    BY <1>0, <2>1, ContentsEmpty
  <2>4. /\ {v \in Writers : wpc'[v] = "poll"} = {v \in Writers : wpc[v] = "poll"} \cup {w}
        /\ {v \in Writers : wpc'[v] = "flush"} = {v \in Writers : wpc[v] = "flush"} \ {w}
    BY <1>0, <2>1
  <2>5. S \in SinkRequests
    BY <2>1 DEF SinkRequests
  <2>6. SinkQueued' = SinkQueued
    BY <2>1, <2>3, <2>4 DEF SinkQueued
  <2>7. \A v \in Writers \ {w} : wpc[v] = "flush" => Contents(batch[v]) # S
    <3> SUFFICES ASSUME NEW v \in Writers \ {w}, wpc[v] = "flush" PROVE Contents(batch[v]) # S
      OBVIOUS
    <3>1. Contents(batch[v]) # {}
      BY <1>0, ContentsNonEmpty DEF FlushNonEmpty
    <3>2. Contents(batch[v]) \cap S = {}
      BY DEF Disjoint
    <3> QED
      BY <3>1, <3>2
  <2>8. SinkRequests' = SinkRequests \ {S}
    <3>1. SinkRequests' \subseteq SinkRequests \ {S}
      BY <2>3, <2>4, <2>7 DEF SinkRequests
    <3>2. SinkRequests \ {S} \subseteq SinkRequests'
      BY <2>3, <2>4 DEF SinkRequests
    <3> QED
      BY <3>1, <3>2
  <2>9. CountIndexed(applied) = Sink!Sent(applied)
    BY DEF CountIndexed, Sink!Sent
  <2> QED
    BY <2>1, <2>2, <2>5, <2>6, <2>8, <2>9 DEF Sink!Next, Sink!Answer
<1>7. CASE Crash
  <2>1. /\ up /\ crashes < MaxCrashes /\ ~up' /\ crashes' = crashes + 1
        /\ sinkHo' = << >> /\ batch' = [v \in Writers |-> << >>]
        /\ wpc' = [v \in Writers |-> "poll"]
    BY <1>7 DEF Crash
  <2>2. PICK applied \in SUBSET UNION {Contents(batch[v]) : v \in {u \in Writers : wpc[u] = "flush"}} :
          /\ indexed' = indexed \cup applied
          /\ idxCount' = CountIndexed(applied)
    BY <1>7 DEF Crash
  <2>3. applied \in SUBSET UNION SinkRequests
    BY <2>2 DEF SinkRequests
  <2>4. SinkQueued' = {} /\ SinkRequests' = {}
    BY <2>1, ContentsEmpty DEF SinkQueued, SinkRequests
  <2>5. CountIndexed(applied) = Sink!Sent(applied)
    BY DEF CountIndexed, Sink!Sent
  <2> QED
    BY <2>1, <2>2, <2>3, <2>4, <2>5 DEF Sink!Next, Sink!Crash
<1>9. QED
  BY <1>1, <1>2, <1>3, <1>4, <1>5, <1>6, <1>7 DEF Next
(* ElasticsearchOutputFormat and the writer tasks of                       *)
(* ElasticsearchWriteThread implement BulkSink for every value of the      *)
(* constants (the SinkSpec that MCPipeline_crash checks): write_record     *)
(* hands the sink no record it still holds, concurrent batch_send loops   *)
(* never share a record, each bulk call sends its batch as one request,   *)
(* and records reach Elasticsearch only by the answer of that request or  *)
(* a crash while it is in flight.                                          *)
THEOREM SinkImplementsBulk == Spec => SinkSpec
<1>1. Init => Sink!Init
  BY SinkRefineInit
<1>2. Spec => []SInv
  BY SInvInvariant
<1>3. SInv /\ [Next]_vars => [Sink!Next]_Sink!bvars
  BY SinkRefineStep
<1> QED
  BY <1>1, <1>2, <1>3, PTL DEF Spec, SinkSpec, Sink!Spec
=============================================================================
