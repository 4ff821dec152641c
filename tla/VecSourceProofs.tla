---------------------------- MODULE VecSourceProofs ----------------------------
(***************************************************************************)
(* Proofs about vec_source for every length of data, every parallelism    *)
(* and every width of the cast.  TaskData lists the kept indices by rank:  *)
(* the j-th record of a task is the kept index with j - 1 kept indices     *)
(* below it.  The lemmas below show, by counting and without induction,    *)
(* that an index of every rank exists, so that the list is the kept       *)
(* indices in increasing order.                                            *)
(***************************************************************************)
EXTENDS VecSource, FiniteSetTheorems, TLAPS

\* The indices a task with task_number t of n > 1 tasks keeps.
Kept(n, t) == {i \in 0 .. (len - 1) : AsU16(i) % n = t}

\* The rank of i in S: how many members of S are below it.
Rank(S, i) == Cardinality({x \in S : x < i})

\* The members of S listed by rank, as TaskData builds them.
Enum(S) == [j \in 1 .. Cardinality(S) |-> CHOOSE i \in S : Rank(S, i) = j - 1]

\* The inductive invariant: an opened task is one of the num_tasks, and a
\* task's output is its TaskData once it built its iterator, empty before.
VInv ==
  /\ TypeOK
  /\ \A t \in Tasks : opened[t] => t < num_tasks
  /\ \A t \in Tasks : out[t] = IF built[t] THEN TaskData(num_tasks, t) ELSE << >>
-----------------------------------------------------------------------------
\* The rank of a member of S is a number below the size of S, and a
\* smaller member has a smaller rank.
LEMMA RankBounds ==
  ASSUME NEW S \in SUBSET Int, IsFiniteSet(S)
  PROVE  /\ Cardinality(S) \in Nat
         /\ \A i \in S : Rank(S, i) \in 0 .. (Cardinality(S) - 1)
         /\ \A i, k \in S : i < k => Rank(S, i) < Rank(S, k)
<1>1. Cardinality(S) \in Nat
  BY FS_CardinalityType
<1>2. ASSUME NEW i \in S PROVE Rank(S, i) \in 0 .. (Cardinality(S) - 1)
  <2> DEFINE B == {x \in S : x < i}
  <2>1. B \subseteq S \ {i}
    OBVIOUS
  <2>2. IsFiniteSet(S \ {i}) /\ Cardinality(S \ {i}) = Cardinality(S) - 1
    BY FS_RemoveElement
  <2>3. IsFiniteSet(B) /\ Cardinality(B) <= Cardinality(S) - 1
    BY <2>1, <2>2, FS_Subset
  <2>4. Cardinality(B) \in Nat
    BY <2>3, FS_CardinalityType
  <2>5. QED
    BY <1>1, <2>3, <2>4 DEF Rank
<1>3. \A i, k \in S : i < k => Rank(S, i) < Rank(S, k)
  <2> SUFFICES ASSUME NEW i \in S, NEW k \in S, i < k PROVE Rank(S, i) < Rank(S, k)
    OBVIOUS
  <2> DEFINE Bi == {x \in S : x < i}
             Bk == {x \in S : x < k}
  <2>1. Bi \subseteq Bk \ {i}
    <3> SUFFICES ASSUME NEW x \in S, x < i PROVE x < k /\ x # i
      BY DEF Bi, Bk
    <3> QED
      OBVIOUS
  <2>2. IsFiniteSet(Bk) /\ Cardinality(Bk) \in Nat
    BY FS_Subset, FS_CardinalityType
  <2>3. IsFiniteSet(Bk \ {i}) /\ Cardinality(Bk \ {i}) = Cardinality(Bk) - 1
    BY <2>2, FS_RemoveElement
  <2>4. IsFiniteSet(Bi) /\ Cardinality(Bi) <= Cardinality(Bk) - 1
    BY <2>1, <2>3, FS_Subset
  <2>5. QED
    BY <2>2, <2>4, FS_CardinalityType DEF Rank
<1>4. QED
  BY <1>1, <1>2, <1>3
\* Every number below the size of S is the rank of a member of S: the
\* ranks are distinct and there are as many of them as numbers.
LEMMA RankOnto ==
  ASSUME NEW S \in SUBSET Int, IsFiniteSet(S),
         NEW j \in 0 .. (Cardinality(S) - 1)
  PROVE  \E i \in S : Rank(S, i) = j
<1> DEFINE C == Cardinality(S)
           T == 0 .. (C - 1)
           r == [i \in S |-> Rank(S, i)]
<1>1. C \in Nat /\ r \in [S -> T]
  BY RankBounds
<1>2. IsInjective(r)
  <2> SUFFICES ASSUME NEW a \in S, NEW b \in S, a # b PROVE r[a] # r[b]
    BY DEF IsInjective
  <2>1. a < b \/ b < a
    OBVIOUS
  <2> QED
    BY <2>1, RankBounds
<1>3. IsFiniteSet(T) /\ Cardinality(T) = C
  BY <1>1, FS_Interval
<1>4. r \in Surjection(S, T)
  BY <1>1, <1>2, <1>3, FS_Injection DEF Injection
<1> QED
  BY <1>4 DEF Surjection
\* Enum(S) lists the members of S in increasing order, each once: its
\* j-th element is the member of rank j - 1.
LEMMA EnumProps ==
  ASSUME NEW S \in SUBSET Int, IsFiniteSet(S)
  PROVE  /\ Enum(S) \in Seq(S)
         /\ Len(Enum(S)) = Cardinality(S)
         /\ \A j \in 1 .. (Len(Enum(S)) - 1) : Enum(S)[j] < Enum(S)[j + 1]
         /\ \A i \in S : \E j \in DOMAIN Enum(S) : Enum(S)[j] = i
<1>0. /\ Cardinality(S) \in Nat
      /\ \A i \in S : Rank(S, i) \in 0 .. (Cardinality(S) - 1)
      /\ \A i, k \in S : i < k => Rank(S, i) < Rank(S, k)
  BY RankBounds
<1>1. \A j \in 1 .. Cardinality(S) : Enum(S)[j] \in S /\ Rank(S, Enum(S)[j]) = j - 1
  <2> SUFFICES ASSUME NEW j \in 1 .. Cardinality(S)
               PROVE  Enum(S)[j] \in S /\ Rank(S, Enum(S)[j]) = j - 1
    OBVIOUS
  <2>1. \E i \in S : Rank(S, i) = j - 1
    BY <1>0, RankOnto
  <2> QED
    BY <2>1 DEF Enum
<1>2. Enum(S) \in [1 .. Cardinality(S) -> S]
  BY <1>1 DEF Enum
<1>3. Enum(S) \in Seq(S) /\ Len(Enum(S)) = Cardinality(S)
  BY <1>0, <1>2
<1>4. \A j \in 1 .. (Cardinality(S) - 1) : Enum(S)[j] < Enum(S)[j + 1]
  <2> SUFFICES ASSUME NEW j \in 1 .. (Cardinality(S) - 1)
               PROVE  Enum(S)[j] < Enum(S)[j + 1]
    OBVIOUS
  <2>1. /\ Enum(S)[j] \in S /\ Rank(S, Enum(S)[j]) = j - 1
        /\ Enum(S)[j + 1] \in S /\ Rank(S, Enum(S)[j + 1]) = j
    BY <1>0, <1>1
  <2>2. Enum(S)[j] \in Int /\ Enum(S)[j + 1] \in Int
    BY <2>1
  <2>3. ~(Enum(S)[j + 1] < Enum(S)[j])
    BY <1>0, <2>1, <2>2
  <2>4. Enum(S)[j] # Enum(S)[j + 1]
    BY <2>1
  <2> QED
    BY <2>2, <2>3, <2>4
<1>5. \A i \in S : \E j \in DOMAIN Enum(S) : Enum(S)[j] = i
  <2> SUFFICES ASSUME NEW i \in S PROVE \E j \in DOMAIN Enum(S) : Enum(S)[j] = i
    OBVIOUS
  <2>1. Rank(S, i) + 1 \in 1 .. Cardinality(S)
    BY <1>0
  <2>2. Enum(S)[Rank(S, i) + 1] \in S /\ Rank(S, Enum(S)[Rank(S, i) + 1]) = Rank(S, i)
    <3>1. Rank(S, Enum(S)[Rank(S, i) + 1]) = (Rank(S, i) + 1) - 1
      BY <1>1, <2>1
    <3> QED
      BY <1>0, <1>1, <2>1, <3>1
  <2>3. Enum(S)[Rank(S, i) + 1] = i
    <3>0. Enum(S)[Rank(S, i) + 1] \in Int /\ i \in Int
      BY <2>2
    <3>1. ~(Enum(S)[Rank(S, i) + 1] < i) /\ ~(i < Enum(S)[Rank(S, i) + 1])
      BY <1>0, <2>2, <3>0
    <3> QED
      BY <3>0, <3>1
  <2> QED
    BY <1>2, <2>1, <2>3
<1> QED
  BY <1>3, <1>4, <1>5
\* With more than one task, TaskData lists the task's kept indices by rank.
LEMMA TaskDataIsEnum ==
  ASSUME NEW n, n # 1, NEW t
  PROVE  TaskData(n, t) = Enum(Kept(n, t))
BY DEF TaskData, Enum, Kept, Rank

\* The kept indices of a task are a finite set of indices of data.
LEMMA KeptFinite ==
  ASSUME len \in Nat, NEW n, NEW t
  PROVE  /\ Kept(n, t) \subseteq 0 .. (len - 1)
         /\ IsFiniteSet(Kept(n, t))
<1>1. Kept(n, t) \subseteq 0 .. (len - 1)
  BY DEF Kept
<1>2. IsFiniteSet(0 .. (len - 1))
  BY FS_Interval
<1> QED
  BY <1>1, <1>2, FS_Subset

\* What the builder gives a task is a sequence of indices of data.
LEMMA TaskDataType ==
  ASSUME len \in Nat, NEW n, NEW t
  PROVE  TaskData(n, t) \in Seq(0 .. (len - 1))
<1>1. CASE n = 1
  <2>1. TaskData(n, t) = [i \in 1 .. len |-> i - 1]
    BY <1>1 DEF TaskData
  <2> QED
    BY <2>1
<1>2. CASE n # 1
  <2>1. Enum(Kept(n, t)) \in Seq(Kept(n, t))
    BY KeptFinite, EnumProps
  <2>2. Seq(Kept(n, t)) \subseteq Seq(0 .. (len - 1))
    BY KeptFinite
  <2> QED
    BY <1>2, <2>1, <2>2, TaskDataIsEnum
<1> QED
  BY <1>1, <1>2
-----------------------------------------------------------------------------
THEOREM VInvInit == Init => VInv
BY DEF Init, VInv, TypeOK

THEOREM VInvNext == VInv /\ [Next]_vars => VInv'
<1> SUFFICES ASSUME VInv, [Next]_vars PROVE VInv'
  OBVIOUS
<1>0. len \in Nat /\ num_tasks \in 1 .. MaxTasks
  BY DEF VInv, TypeOK
<1>1. ASSUME NEW t \in Tasks, Open(t) PROVE VInv'
  <2>1. \A u \in Tasks : TaskData(num_tasks, u)' = TaskData(num_tasks, u)
    BY <1>1 DEF Open, TaskData, AsU16
  <2> QED
    BY <1>1, <2>1 DEF Open, VInv, TypeOK
<1>2. ASSUME NEW t \in Tasks, RecordIter(t) PROVE VInv'
  <2>1. TaskData(num_tasks, t) \in Seq(0 .. (len - 1))
    BY <1>0, TaskDataType
  <2>2. TaskData(num_tasks, t)' = TaskData(num_tasks, t)
    BY <1>2 DEF RecordIter, TaskData, AsU16
  <2>3. TypeOK'
    BY <1>2, <2>1 DEF RecordIter, VInv, TypeOK
  <2>4. \A u \in Tasks : out'[u] = IF built'[u] THEN TaskData(num_tasks, u)' ELSE << >>
    <3> SUFFICES ASSUME NEW u \in Tasks
                 PROVE  out'[u] = IF built'[u] THEN TaskData(num_tasks, u)' ELSE << >>
      OBVIOUS
    <3>1. CASE u = t
      BY <1>2, <2>2, <3>1 DEF RecordIter, VInv, TypeOK
    <3>2. CASE u # t
      <4>1. TaskData(num_tasks, u)' = TaskData(num_tasks, u)
        BY <1>2 DEF RecordIter, TaskData, AsU16
      <4> QED
        BY <1>2, <3>2, <4>1 DEF RecordIter, VInv, TypeOK
    <3> QED
      BY <3>1, <3>2
  <2> QED
    BY <1>2, <2>3, <2>4 DEF RecordIter, VInv
<1>3. CASE UNCHANGED vars
  <2>1. \A u \in Tasks : TaskData(num_tasks, u)' = TaskData(num_tasks, u)
    BY <1>3 DEF vars, TaskData, AsU16
  <2> QED
    BY <1>3, <2>1 DEF vars, VInv, TypeOK
<1> QED
  BY <1>1, <1>2, <1>3 DEF Next
\* Under the invariant, once every task built its iterator each record is
\* yielded by exactly one task, in data order.
LEMMA VInvEveryRecordOnce == VInv => EveryRecordOnce
<1> SUFFICES ASSUME VInv, Done
             PROVE  /\ \A i \in 0 .. (len - 1) :
                          Cardinality({t \in 0 .. (num_tasks - 1) :
                                         \E j \in DOMAIN out[t] : out[t][j] = i}) = 1
                    /\ \A t \in 0 .. (num_tasks - 1) :
                          \A j \in 1 .. (Len(out[t]) - 1) : out[t][j] < out[t][j + 1]
  BY DEF EveryRecordOnce
<1>0. /\ len \in Nat /\ num_tasks \in 1 .. MaxTasks
      /\ 0 .. (num_tasks - 1) \subseteq Tasks
      /\ \A t \in 0 .. (num_tasks - 1) : out[t] = TaskData(num_tasks, t)
  <2>1. /\ len \in Nat /\ num_tasks \in 1 .. MaxTasks
        /\ 0 .. (num_tasks - 1) \subseteq Tasks
    BY VecAssumption DEF VInv, TypeOK, Tasks
  <2> QED
    BY <2>1 DEF VInv, Done
<1>1. CASE num_tasks = 1
  <2>1. out[0] = [i \in 1 .. len |-> i - 1] /\ 0 .. (num_tasks - 1) = {0}
    BY <1>0, <1>1 DEF TaskData
  <2>2. ASSUME NEW i \in 0 .. (len - 1)
        PROVE  {t \in 0 .. (num_tasks - 1) : \E j \in DOMAIN out[t] : out[t][j] = i} = {0}
    <3>1. (i + 1) \in DOMAIN out[0] /\ out[0][i + 1] = i
      BY <1>0, <2>1
    <3> QED
      BY <2>1, <3>1
  <2>3. \A i \in 0 .. (len - 1) :
          Cardinality({t \in 0 .. (num_tasks - 1) :
                         \E j \in DOMAIN out[t] : out[t][j] = i}) = 1
    BY <2>2, FS_Singleton
  <2>4. \A j \in 1 .. (Len(out[0]) - 1) : out[0][j] < out[0][j + 1]
    BY <1>0, <2>1
  <2> QED
    BY <2>1, <2>3, <2>4
<1>2. CASE num_tasks # 1
  <2>1. \A t \in 0 .. (num_tasks - 1) :
          /\ out[t] = Enum(Kept(num_tasks, t))
          /\ Kept(num_tasks, t) \subseteq 0 .. (len - 1)
          /\ IsFiniteSet(Kept(num_tasks, t))
    BY <1>0, <1>2, TaskDataIsEnum, KeptFinite
  <2>2. ASSUME NEW i \in 0 .. (len - 1)
        PROVE  {t \in 0 .. (num_tasks - 1) : \E j \in DOMAIN out[t] : out[t][j] = i}
                 = {AsU16(i) % num_tasks}
    <3>1. AsU16(i) % num_tasks \in 0 .. (num_tasks - 1)
      <4>1. AsU16(i) \in Nat
        BY <1>0, VecAssumption DEF AsU16
      <4> QED
        BY <1>0, <4>1
    <3>2. ASSUME NEW t \in 0 .. (num_tasks - 1)
          PROVE  (\E j \in DOMAIN out[t] : out[t][j] = i) <=> i \in Kept(num_tasks, t)
      <4>1. Enum(Kept(num_tasks, t)) \in Seq(Kept(num_tasks, t))
            /\ \A x \in Kept(num_tasks, t) :
                 \E j \in DOMAIN Enum(Kept(num_tasks, t)) : Enum(Kept(num_tasks, t))[j] = x
        BY <2>1, EnumProps
      <4>2. (\E j \in DOMAIN out[t] : out[t][j] = i) => i \in Kept(num_tasks, t)
        BY <2>1, <4>1
      <4> QED
        BY <2>1, <4>1, <4>2
    <3>3. \A t \in 0 .. (num_tasks - 1) :
            i \in Kept(num_tasks, t) <=> t = AsU16(i) % num_tasks
      BY DEF Kept
    <3> QED
      BY <3>1, <3>2, <3>3
  <2>3. \A i \in 0 .. (len - 1) :
          Cardinality({t \in 0 .. (num_tasks - 1) :
                         \E j \in DOMAIN out[t] : out[t][j] = i}) = 1
    BY <2>2, FS_Singleton
  <2>4. ASSUME NEW t \in 0 .. (num_tasks - 1)
        PROVE  \A j \in 1 .. (Len(out[t]) - 1) : out[t][j] < out[t][j + 1]
    <3>1. Kept(num_tasks, t) \in SUBSET Int /\ IsFiniteSet(Kept(num_tasks, t))
      BY <2>1
    <3> QED
      BY <2>1, <3>1, EnumProps
  <2> QED
    BY <2>3, <2>4
<1> QED
  BY <1>1, <1>2

(* Types, for every length of data, parallelism and cast width: every     *)
(* task's iterator yields indices of data, and IteratorInputFormat builds *)
(* it only after open of one of the num_tasks tasks.                       *)
THEOREM VecTypeCorrect == Spec => []TypeOK
<1>1. VInv => TypeOK
  BY DEF VInv
<1> QED
  BY <1>1, VInvInit, VInvNext, PTL DEF Spec

(* vec_source's filter by `index as u16 % num_tasks == task_number` gives  *)
(* each record of data to exactly one task, in data order, for every       *)
(* length of data, also one longer than the range of the cast.             *)
THEOREM EveryRecordOnceHolds == Spec => []EveryRecordOnce
BY VInvInit, VInvNext, VInvEveryRecordOnce, PTL DEF Spec
=============================================================================
