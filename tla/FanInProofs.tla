----------------------------- MODULE FanInProofs -----------------------------
(***************************************************************************)
(* Proofs about FanIn for every value of its constants: a channel made by  *)
(* named_channel_with_base never holds more than its capacity.             *)
(***************************************************************************)
EXTENDS FanIn, SequenceTheorems, TLAPS

\* Elements: the numbers of a channel, cyclically.
Elems == 0 .. (Wrap - 1)

\* What taking the head of a non-empty channel does to its type and length.
LEMMA TailChannel ==
  ASSUME NEW s \in Seq(Elems), s # << >>
  PROVE  Tail(s) \in Seq(Elems) /\ Len(Tail(s)) < Len(s)
BY HeadTailProperties

\* The next number of a channel is again a number of it.
LEMMA NextElem ==
  ASSUME NEW n \in Elems
  PROVE  (n + 1) % Wrap \in Elems
BY FanInAssumption DEF Elems

\* One receive of an iterator (ChannelIteratorNext, MultiChannelIteratorNext)
\* on a non-empty channel k keeps the types: it removes the head and, while
\* the coordinator runs, advances got[k].
LEMMA ReceiveType ==
  ASSUME TypeOK, NEW k \in Kinds, ch[k] # << >>,
         ch' = [ch EXCEPT ![k] = Tail(@)],
         \/ got' = got
         \/ got' = [got EXCEPT ![k] = (@ + 1) % Wrap],
         it' \in {"new", "opened", "single", "multi", "done", "panic"},
         UNCHANGED <<parents, base, receivers, alive, sent, status>>
  PROVE  TypeOK'
<1>1. Tail(ch[k]) \in Seq(Elems) /\ Len(Tail(ch[k])) < Len(ch[k])
  BY TailChannel DEF TypeOK, Elems
<1>2. (got[k] + 1) % Wrap \in Elems
  BY NextElem DEF TypeOK, Elems
<1>3. ch' \in [Kinds -> Seq(Elems)] /\ \A j \in Kinds : Len(ch'[j]) <= Capacity'
  <2>1. Capacity' = Capacity /\ Capacity \in Nat
    BY FanInAssumption DEF Capacity
  <2>2. ch'[k] = Tail(ch[k]) /\ \A j \in Kinds \ {k} : ch'[j] = ch[j]
    BY DEF TypeOK
  <2>3. Len(ch'[k]) <= Capacity
    BY <1>1, <2>1, <2>2 DEF TypeOK
  <2>4. QED
    BY <1>1, <2>1, <2>2, <2>3 DEF TypeOK, Elems
<1>4. got' \in [Kinds -> Elems]
  BY <1>2 DEF TypeOK, Elems
<1>5. QED
  BY <1>3, <1>4 DEF TypeOK, Elems

THEOREM TypeOKNext == TypeOK /\ [Next]_vars => TypeOK'
<1> SUFFICES ASSUME TypeOK, [Next]_vars PROVE TypeOK'
  OBVIOUS
<1>0. Capacity \in Nat
  BY FanInAssumption DEF Capacity
<1>1. CASE Open
  BY <1>1 DEF Open, TypeOK, Capacity
<1>2. CASE ElementIter
  BY <1>2 DEF ElementIter, TypeOK, Capacity
<1>3. ASSUME NEW k \in Kinds, Publish(k) PROVE TypeOK'
  <2>1. /\ Append(ch[k], sent[k]) \in Seq(Elems)
        /\ Len(Append(ch[k], sent[k])) = Len(ch[k]) + 1
    BY AppendProperties DEF TypeOK, Elems
  <2>2. (sent[k] + 1) % Wrap \in Elems
    BY NextElem DEF TypeOK, Elems
  <2>3. QED
    BY <1>0, <1>3, <2>1, <2>2 DEF Publish, TypeOK, Capacity, Elems
<1>4. ASSUME NEW k \in Kinds, Disconnect(k) PROVE TypeOK'
  BY <1>4 DEF Disconnect, TypeOK, Capacity
<1>5. CASE Terminate
  BY <1>5 DEF Terminate, TypeOK, Capacity
<1>6. CASE ChannelIteratorNext
  <2>1. PICK k \in receivers :
          /\ ch[k] # << >> \/ ~alive[k]
          /\ IF ch[k] = << >>
               THEN it' = "panic" /\ UNCHANGED <<ch, got>>
               ELSE /\ ch' = [ch EXCEPT ![k] = Tail(@)]
                    /\ IF status = "Terminated"
                         THEN it' = "done" /\ got' = got
                         ELSE it' = it /\ got' = [got EXCEPT ![k] = (@ + 1) % Wrap]
    BY <1>6 DEF ChannelIteratorNext
  <2>2. UNCHANGED <<parents, base, receivers, alive, sent, status>> /\ it = "single"
    BY <1>6 DEF ChannelIteratorNext
  <2>3. CASE ch[k] = << >>
    BY <2>1, <2>2, <2>3 DEF TypeOK, Capacity
  <2>4. CASE ch[k] # << >>
    BY <2>1, <2>2, <2>4, ReceiveType DEF TypeOK
  <2>5. QED
    BY <2>3, <2>4
<1>7. ASSUME NEW k \in Kinds, MultiChannelIteratorNext(k) PROVE TypeOK'
  <2>1. UNCHANGED <<parents, base, receivers, alive, sent, status>> /\ it = "multi"
    BY <1>7 DEF MultiChannelIteratorNext
  <2>2. CASE ch[k] = << >>
    BY <1>7, <2>1, <2>2 DEF MultiChannelIteratorNext, TypeOK, Capacity
  <2>3. CASE ch[k] # << >>
    BY <1>7, <2>1, <2>3, ReceiveType DEF MultiChannelIteratorNext
  <2>4. QED
    BY <2>2, <2>3
<1>8. CASE UNCHANGED vars
  BY <1>8 DEF vars, TypeOK, Capacity
<1>9. QED
  BY <1>1, <1>2, <1>3, <1>4, <1>5, <1>6, <1>7, <1>8 DEF Next

(* Backpressure, for every channel size and bound: no channel of the head *)
(* ever holds more elements than its capacity, since send blocks on a     *)
(* full bounded channel, and every element number, counter, status and   *)
(* iterator state keeps its type.                                          *)
THEOREM FanInTypeCorrect == Spec => []TypeOK
<1>1. Init => TypeOK
  BY FanInAssumption DEF Init, TypeOK, Capacity
<1>2. QED
  BY <1>1, TypeOKNext, PTL DEF Spec
=============================================================================
