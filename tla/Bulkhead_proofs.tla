-------------------------- MODULE Bulkhead_proofs ---------------------------
(***************************************************************************)
(* Proofs about Bulkhead, for any number of callers, slots and places to   *)
(* wait: the slots are accounted for, the queue holds exactly the calls    *)
(* that wait, and nobody waits beside a free slot.                         *)
(***************************************************************************)
EXTENDS Bulkhead, FiniteSetTheorems, SequenceTheorems, TLAPS

BulkheadInv == BulkheadTypeOK /\ SlotsAccounted /\ QueueHoldsWaiters /\ NoIdleSlot

-----------------------------------------------------------------------------
(* Counting holders                                                        *)

(* The calls holding a slot are finitely many.                             *)
LEMMA HoldersFinite == IsFiniteSet(Holders) /\ Cardinality(Holders) \in Nat
<1>1. Holders \in SUBSET Callers
  BY DEF Holders
<1>2. IsFiniteSet(Holders)
  BY <1>1, CallersAssumption, FS_Subset
<1>3. QED
  BY <1>2, FS_CardinalityType

(* One more, one less, and one for another.                                *)
LEMMA HoldersGain ==
  ASSUME NEW c \in Callers, c \notin Holders, Holders' = Holders \cup {c}
  PROVE  Cardinality(Holders') = Cardinality(Holders) + 1
  BY HoldersFinite, FS_AddElement

LEMMA HoldersLose ==
  ASSUME NEW c \in Holders, Holders' = Holders \ {c}
  PROVE  Cardinality(Holders') = Cardinality(Holders) - 1
  BY HoldersFinite, FS_RemoveElement

LEMMA HoldersSwap ==
  ASSUME NEW c \in Holders, NEW d, d \notin Holders,
         Holders' = (Holders \ {c}) \cup {d}
  PROVE  Cardinality(Holders') = Cardinality(Holders)
<1>1. IsFiniteSet(Holders \ {c}) /\ Cardinality(Holders \ {c}) = Cardinality(Holders) - 1
  BY HoldersFinite, FS_RemoveElement
<1>2. d \notin Holders \ {c}
  OBVIOUS
<1>3. Cardinality(Holders') = Cardinality(Holders \ {c}) + 1
  BY <1>1, <1>2, FS_AddElement
<1>4. QED
  BY <1>1, <1>3, HoldersFinite

-----------------------------------------------------------------------------
(* The queue                                                               *)

(* Taking the entry at place i out of a queue.                             *)
LEMMA SpliceParts ==
  ASSUME NEW S, NEW q \in Seq(S), NEW i \in 1 .. Len(q)
  PROVE  /\ Splice(q, i) \in Seq(S)
         /\ Len(Splice(q, i)) = Len(q) - 1
         /\ \A j \in 1 .. Len(q) - 1 :
              Splice(q, i)[j] = IF j < i THEN q[j] ELSE q[j + 1]
<1>1. Len(q) \in Nat /\ q \in [1 .. Len(q) -> S]
  BY LenProperties
<1>2. Len(q) - 1 \in Nat
  BY <1>1
<1>3. \A j \in 1 .. Len(q) - 1 : j \in 1 .. Len(q) /\ j + 1 \in 1 .. Len(q)
  BY <1>1
<1>4. Splice(q, i) \in [1 .. Len(q) - 1 -> S]
  BY <1>1, <1>3 DEF Splice
<1>5. Splice(q, i) \in Seq(S)
  BY <1>2, <1>4, IsASeq
<1>6. DOMAIN Splice(q, i) = 1 .. Len(q) - 1
  BY DEF Splice
<1>7. Len(Splice(q, i)) = Len(q) - 1
  BY <1>2, <1>5, <1>6, LenProperties
<1>8. QED
  BY <1>5, <1>7 DEF Splice

-----------------------------------------------------------------------------
LEMMA BulkheadInitInv == BulkheadInit => BulkheadInv
<1> SUFFICES ASSUME BulkheadInit PROVE BulkheadInv
  OBVIOUS
<1>1. BulkheadTypeOK
  BY CapacityAssumption DEF BulkheadInit, BulkheadTypeOK, Phases
<1>2. Holders = {}
  BY DEF BulkheadInit, Holders
<1>3. SlotsAccounted
  BY <1>2, FS_EmptySet, CapacityAssumption DEF BulkheadInit, SlotsAccounted
<1>4. QueueHoldsWaiters /\ NoIdleSlot
  BY CapacityAssumption DEF BulkheadInit, QueueHoldsWaiters, NoIdleSlot
<1>5. QED
  BY <1>1, <1>3, <1>4 DEF BulkheadInv

(* A call that finds a free slot: nobody was waiting then.                 *)
LEMMA EnterKeepsInv ==
  ASSUME BulkheadInv, NEW c \in Callers, Enter(c)
  PROVE  BulkheadInv'
<1> USE CapacityAssumption DEF BulkheadInv, BulkheadTypeOK, Phases
<1>1. BulkheadTypeOK'
  BY DEF Enter
<1>2. SlotsAccounted'
  <2>1. c \notin Holders /\ Holders' = Holders \cup {c}
    BY DEF Enter, Holders
  <2>2. Cardinality(Holders') = Cardinality(Holders) + 1
    BY <2>1, HoldersGain
  <2>3. QED
    BY <2>2, HoldersFinite DEF Enter, SlotsAccounted
<1>3. queue = <<>>
  BY DEF Enter, NoIdleSlot
<1>4. QueueHoldsWaiters' /\ NoIdleSlot'
  BY <1>3 DEF Enter, QueueHoldsWaiters, NoIdleSlot
<1>5. QED
  BY <1>1, <1>2, <1>4

(* A call that waits: it is a new entry at the end of the queue.           *)
LEMMA WaitKeepsInv ==
  ASSUME BulkheadInv, NEW c \in Callers, Wait(c)
  PROVE  BulkheadInv'
<1> USE CapacityAssumption DEF BulkheadInv, BulkheadTypeOK, Phases
<1>1. BulkheadTypeOK'
  BY DEF Wait
<1>2. SlotsAccounted'
  <2>1. Holders' = Holders
    BY DEF Wait, Holders
  <2>2. QED
    BY <2>1 DEF Wait, SlotsAccounted
<1>3. /\ Len(queue') = Len(queue) + 1
      /\ \A i \in 1 .. Len(queue) : queue'[i] = queue[i]
      /\ queue'[Len(queue) + 1] = c
      /\ Len(queue) \in Nat
  BY DEF Wait
<1>4. \A i \in 1 .. Len(queue) : queue[i] \in Callers /\ queue[i] # c
  BY DEF Wait, QueueHoldsWaiters
<1>5. QueueHoldsWaiters'
  <2>1. \A i \in 1 .. Len(queue') : phase'[queue'[i]] = "queued"
    BY <1>3, <1>4 DEF Wait, QueueHoldsWaiters
  <2>2. ASSUME NEW d \in Callers, phase'[d] = "queued"
        PROVE  \E i \in 1 .. Len(queue') : queue'[i] = d
    <3>1. CASE d = c
      BY <3>1, <1>3
    <3>2. CASE d # c
      <4>1. PICK i \in 1 .. Len(queue) : queue[i] = d
        BY <2>2, <3>2 DEF Wait, QueueHoldsWaiters
      <4>2. QED
        BY <4>1, <1>3
    <3>3. QED
      BY <3>1, <3>2
  <2>3. \A i, j \in 1 .. Len(queue') : queue'[i] = queue'[j] => i = j
    BY <1>3, <1>4 DEF QueueHoldsWaiters
  <2>4. Len(queue') <= MaxQueue
    BY <1>3 DEF Wait
  <2>5. QED
    BY <2>1, <2>2, <2>3, <2>4 DEF QueueHoldsWaiters
<1>6. NoIdleSlot'
  BY DEF Wait, NoIdleSlot
<1>7. QED
  BY <1>1, <1>2, <1>5, <1>6

(* A waiter that leaves: the others move up.                               *)
LEMMA AbortKeepsInv ==
  ASSUME BulkheadInv, NEW c \in Callers, Abort(c)
  PROVE  BulkheadInv'
<1> USE CapacityAssumption DEF BulkheadInv, BulkheadTypeOK, Phases
<1>0. PICK i \in 1 .. Len(queue) : queue[i] = c /\ queue' = Splice(queue, i)
  BY DEF Abort
<1>1. /\ queue' \in Seq(Callers)
      /\ Len(queue') = Len(queue) - 1
      /\ \A j \in 1 .. Len(queue) - 1 :
           queue'[j] = IF j < i THEN queue[j] ELSE queue[j + 1]
      /\ Len(queue) \in Nat
  <2>1. queue \in Seq(Callers) /\ queue' = Splice(queue, i)
    BY <1>0
  <2>2. /\ Splice(queue, i) \in Seq(Callers)
        /\ Len(Splice(queue, i)) = Len(queue) - 1
        /\ \A j \in 1 .. Len(queue) - 1 :
             Splice(queue, i)[j] = IF j < i THEN queue[j] ELSE queue[j + 1]
    BY <2>1, SpliceParts
  <2>3. QED
    BY <2>1, <2>2, LenProperties
<1>2. BulkheadTypeOK'
  BY <1>1 DEF Abort
<1>3. SlotsAccounted'
  <2>1. Holders' = Holders
    BY DEF Abort, Holders
  <2>2. QED
    BY <2>1 DEF Abort, SlotsAccounted
<1>4. QueueHoldsWaiters'
  <2>1. ASSUME NEW j \in 1 .. Len(queue') PROVE phase'[queue'[j]] = "queued"
    <3>1. PICK k \in 1 .. Len(queue) : k # i /\ queue'[j] = queue[k]
      <4>1. CASE j < i
        BY <4>1, <1>1
      <4>2. CASE ~(j < i)
        BY <4>2, <1>1
      <4>3. QED
        BY <4>1, <4>2
    <3>2. queue[k] # c /\ queue[k] \in Callers /\ phase[queue[k]] = "queued"
      BY <1>0, <3>1 DEF QueueHoldsWaiters
    <3>3. QED
      BY <3>1, <3>2 DEF Abort
  <2>2. ASSUME NEW d \in Callers, phase'[d] = "queued"
        PROVE  \E j \in 1 .. Len(queue') : queue'[j] = d
    <3>1. d # c /\ phase[d] = "queued"
      BY <2>2 DEF Abort
    <3>2. PICK k \in 1 .. Len(queue) : queue[k] = d
      BY <3>1 DEF QueueHoldsWaiters
    <3>3. k # i
      BY <1>0, <3>1, <3>2
    <3>4. CASE k < i
      <4>1. k \in 1 .. Len(queue')
        BY <1>1, <3>4
      <4>2. queue'[k] = queue[k]
        BY <1>1, <3>4, <4>1
      <4>3. QED
        BY <3>2, <4>1, <4>2
    <3>5. CASE k > i
      <4>1. k - 1 \in 1 .. Len(queue') /\ ~(k - 1 < i) /\ (k - 1) + 1 = k
        BY <1>1, <3>5
      <4>2. queue'[k - 1] = queue[k]
        BY <1>1, <4>1
      <4>3. QED
        BY <3>2, <4>1, <4>2
    <3>6. QED
      BY <3>3, <3>4, <3>5
  <2>3. ASSUME NEW j \in 1 .. Len(queue'), NEW k \in 1 .. Len(queue'),
               queue'[j] = queue'[k]
        PROVE  j = k
    <3> DEFINE Old(n) == IF n < i THEN n ELSE n + 1
    <3>1. Old(j) \in 1 .. Len(queue) /\ Old(k) \in 1 .. Len(queue)
      BY <1>1
    <3>2. queue'[j] = queue[Old(j)] /\ queue'[k] = queue[Old(k)]
      BY <1>1
    <3> HIDE DEF Old
    <3>3. Old(j) = Old(k)
      BY <2>3, <3>1, <3>2 DEF QueueHoldsWaiters
    <3>4. QED
      BY <3>3 DEF Old
  <2>4. Len(queue') <= MaxQueue
    BY <1>1 DEF QueueHoldsWaiters
  <2>5. QED
    BY <2>1, <2>2, <2>3, <2>4 DEF QueueHoldsWaiters
<1>5. NoIdleSlot'
  BY <1>0, <1>1 DEF Abort, NoIdleSlot
<1>6. QED
  BY <1>2, <1>3, <1>4, <1>5

(* A granted call that continues keeps its slot.                           *)
LEMMA ResumeKeepsInv ==
  ASSUME BulkheadInv, NEW c \in Callers, Resume(c)
  PROVE  BulkheadInv'
<1> USE CapacityAssumption DEF BulkheadInv, BulkheadTypeOK, Phases
<1>1. BulkheadTypeOK'
  BY DEF Resume
<1>2. SlotsAccounted'
  <2>1. Holders' = Holders
    BY DEF Resume, Holders
  <2>2. QED
    BY <2>1 DEF Resume, SlotsAccounted
<1>3. QueueHoldsWaiters'
  BY DEF Resume, QueueHoldsWaiters
<1>4. NoIdleSlot'
  BY DEF Resume, NoIdleSlot
<1>5. QED
  BY <1>1, <1>2, <1>3, <1>4

(* A call that ends frees its slot.                                        *)
LEMMA FinishFreesSlot ==
  ASSUME BulkheadInv, NEW c \in Callers, Finish(c), queue = <<>>
  PROVE  BulkheadInv'
<1> USE CapacityAssumption DEF BulkheadInv, BulkheadTypeOK, Phases
<1>1. /\ active' = active - 1
      /\ phase' = [phase EXCEPT ![c] = "out"]
      /\ queue' = queue
      /\ phase[c] = "running"
  BY DEF Finish
<1>2. c \in Holders /\ Holders' = Holders \ {c}
  BY <1>1 DEF Holders
<1>3. Cardinality(Holders') = Cardinality(Holders) - 1 /\ Cardinality(Holders') \in Nat
  <2>1. IsFiniteSet(Holders \ {c})
    BY HoldersFinite, FS_RemoveElement
  <2>2. QED
    BY <1>2, <2>1, HoldersLose, FS_CardinalityType
<1>4. BulkheadTypeOK' /\ SlotsAccounted'
  BY <1>1, <1>3, HoldersFinite DEF SlotsAccounted
<1>5. QueueHoldsWaiters' /\ NoIdleSlot'
  BY <1>1 DEF QueueHoldsWaiters, NoIdleSlot
<1>6. QED
  BY <1>4, <1>5

(* Or it hands the slot to the first waiter; the count stays.              *)
LEMMA FinishHandsOver ==
  ASSUME BulkheadInv, NEW c \in Callers, Finish(c), queue # <<>>
  PROVE  BulkheadInv'
<1> USE CapacityAssumption DEF BulkheadInv, BulkheadTypeOK, Phases
<1> DEFINE d == Head(queue)
<1>1. /\ active' = active
      /\ phase' = [phase EXCEPT ![c] = "out", ![d] = "granted"]
      /\ queue' = Tail(queue)
      /\ phase[c] = "running"
  BY DEF Finish
<1>2. /\ Len(queue) \in Nat \ {0}
      /\ d \in Callers /\ d = queue[1]
      /\ queue' \in Seq(Callers)
      /\ Len(queue') = Len(queue) - 1
      /\ \A i \in 1 .. Len(queue') : queue'[i] = queue[i + 1] /\ i + 1 \in 1 .. Len(queue)
  BY <1>1, HeadTailProperties, EmptySeq, LenProperties
<1>3. phase[d] = "queued" /\ d # c
  BY <1>1, <1>2 DEF QueueHoldsWaiters
<1> HIDE DEF d
<1>4. BulkheadTypeOK'
  BY <1>1, <1>2
<1>5. SlotsAccounted'
  <2>1. c \in Holders /\ d \notin Holders /\ Holders' = (Holders \ {c}) \cup {d}
    BY <1>1, <1>2, <1>3 DEF Holders
  <2>2. Cardinality(Holders') = Cardinality(Holders)
    BY <2>1, HoldersSwap
  <2>3. QED
    BY <1>1, <2>2 DEF SlotsAccounted
<1>6. QueueHoldsWaiters'
  <2>1. ASSUME NEW i \in 1 .. Len(queue') PROVE phase'[queue'[i]] = "queued"
    <3>1. queue'[i] = queue[i + 1] /\ i + 1 \in 1 .. Len(queue) /\ i + 1 # 1
      BY <1>2
    <3>2. queue[i + 1] # d /\ phase[queue[i + 1]] = "queued" /\ queue[i + 1] \in Callers
      BY <1>2, <3>1 DEF QueueHoldsWaiters
    <3>3. QED
      BY <1>1, <3>1, <3>2
  <2>2. ASSUME NEW e \in Callers, phase'[e] = "queued"
        PROVE  \E i \in 1 .. Len(queue') : queue'[i] = e
    <3>1. e # d /\ phase[e] = "queued"
      BY <1>1, <1>2, <2>2
    <3>2. PICK k \in 1 .. Len(queue) : queue[k] = e
      BY <3>1 DEF QueueHoldsWaiters
    <3>3. k - 1 \in 1 .. Len(queue') /\ (k - 1) + 1 = k
      BY <1>2, <3>1, <3>2
    <3>4. QED
      BY <1>2, <3>2, <3>3
  <2>3. \A i, j \in 1 .. Len(queue') : queue'[i] = queue'[j] => i = j
    BY <1>2 DEF QueueHoldsWaiters
  <2>4. Len(queue') <= MaxQueue
    BY <1>2 DEF QueueHoldsWaiters
  <2>5. QED
    BY <2>1, <2>2, <2>3, <2>4 DEF QueueHoldsWaiters
<1>7. NoIdleSlot'
  BY <1>1 DEF NoIdleSlot
<1>8. QED
  BY <1>4, <1>5, <1>6, <1>7

LEMMA BulkheadStep == BulkheadInv /\ [BulkheadNext]_bulkheadVars => BulkheadInv'
<1> SUFFICES ASSUME BulkheadInv, [BulkheadNext]_bulkheadVars PROVE BulkheadInv'
  OBVIOUS
<1>1. CASE UNCHANGED bulkheadVars
  BY <1>1 DEF bulkheadVars, BulkheadInv, BulkheadTypeOK, SlotsAccounted, Holders,
              QueueHoldsWaiters, NoIdleSlot
<1>2. QED
  BY <1>1, EnterKeepsInv, WaitKeepsInv, AbortKeepsInv, ResumeKeepsInv,
     FinishFreesSlot, FinishHandsOver DEF BulkheadNext, Arrive

-----------------------------------------------------------------------------
(* The inductive invariant holds in every reachable state.                 *)
THEOREM BulkheadInvariant == BulkheadSpec => []BulkheadInv
  BY BulkheadInitInv, BulkheadStep, PTL DEF BulkheadSpec

(* The bulkhead keeps its shape.                                           *)
THEOREM BulkheadTypeCorrect == BulkheadSpec => []BulkheadTypeOK
<1>1. BulkheadInv => BulkheadTypeOK BY DEF BulkheadInv
<1>2. QED BY <1>1, BulkheadInvariant, PTL

(* No slot is lost or minted, and at most MaxConcurrent calls hold one.    *)
THEOREM NoSlotLost == BulkheadSpec => []SlotsAccounted
<1>1. BulkheadInv => SlotsAccounted BY DEF BulkheadInv
<1>2. QED BY <1>1, BulkheadInvariant, PTL

(* The queue holds exactly the calls that wait.                            *)
THEOREM NoGhostInQueue == BulkheadSpec => []QueueHoldsWaiters
<1>1. BulkheadInv => QueueHoldsWaiters BY DEF BulkheadInv
<1>2. QED BY <1>1, BulkheadInvariant, PTL

(* Nobody waits beside a free slot.                                        *)
THEOREM NobodyWaitsForNothing == BulkheadSpec => []NoIdleSlot
<1>1. BulkheadInv => NoIdleSlot BY DEF BulkheadInv
<1>2. QED BY <1>1, BulkheadInvariant, PTL
=============================================================================
