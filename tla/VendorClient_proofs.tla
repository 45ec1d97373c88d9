------------------------ MODULE VendorClient_proofs -------------------------
(***************************************************************************)
(* Proofs about VendorClient, for any number of requests and any limits:   *)
(* what it does to the breaker is a behaviour of CircuitBreaker, what it   *)
(* does to the bulkhead is one of Bulkhead, and what was proved about the  *)
(* two alone therefore holds for the two together.  The breaker's own      *)
(* theorems come first.                                                    *)
(***************************************************************************)
EXTENDS VendorClient, FiniteSetTheorems, TLAPS

-----------------------------------------------------------------------------
(* The breaker alone                                                       *)

BreakerInv == BreakerTypeOK /\ NoLeakedProbe

-----------------------------------------------------------------------------
(* Counting probes                                                         *)

(* The probes are finitely many.                                           *)
LEMMA ProbesFinite == IsFiniteSet(Probes) /\ Cardinality(Probes) \in Nat
<1>1. Probes \in SUBSET Callers
  BY DEF Probes
<1>2. IsFiniteSet(Probes)
  BY <1>1, CallersAssumption, FS_Subset
<1>3. QED
  BY <1>2, FS_CardinalityType

(* A probe that starts is one more.                                        *)
LEMMA ProbeStarts ==
  ASSUME BreakerTypeOK, NEW c \in Callers, admitted[c] = "none",
         admitted' = [admitted EXCEPT ![c] = "half_open"]
  PROVE  Cardinality(Probes') = Cardinality(Probes) + 1
<1>1. Probes' = Probes \cup {c}
  BY DEF BreakerTypeOK, Probes
<1>2. c \notin Probes
  BY DEF Probes
<1>3. QED
  BY <1>1, <1>2, ProbesFinite, FS_AddElement

(* A call that settles is at most one probe less, and then it was one.     *)
LEMMA ProbeEnds ==
  ASSUME BreakerTypeOK, NEW c \in Callers, Return(c)
  PROVE  /\ Cardinality(Probes') \in Nat
         /\ Cardinality(Probes') >= Cardinality(Probes) - 1
<1>1. Probes' = Probes \ {c}
  BY DEF BreakerTypeOK, Probes, Return
<1>2. Cardinality(Probes \ {c}) =
        IF c \in Probes THEN Cardinality(Probes) - 1 ELSE Cardinality(Probes)
  BY ProbesFinite, FS_RemoveElement
<1>3. c \in Probes => Cardinality(Probes) # 0
  BY ProbesFinite, FS_EmptySet
<1>4. QED
  BY <1>1, <1>2, <1>3, ProbesFinite

-----------------------------------------------------------------------------
LEMMA BreakerInitInv == BreakerInit => BreakerInv
  BY LimitsAssumption
     DEF BreakerInit, BreakerInv, BreakerTypeOK, NoLeakedProbe, States

(* The type invariant, action by action.                                   *)
LEMMA BreakerTypeStep == BreakerTypeOK /\ [BreakerNext]_breakerVars => BreakerTypeOK'
<1> SUFFICES ASSUME BreakerTypeOK, [BreakerNext]_breakerVars PROVE BreakerTypeOK'
  OBVIOUS
<1> USE LimitsAssumption DEF BreakerTypeOK, States
<1>1. CASE UNCHANGED breakerVars
  BY <1>1 DEF breakerVars
<1>2. CASE Elapse
  BY <1>2 DEF Elapse
<1>3. ASSUME NEW c \in Callers, ExecClosed(c) PROVE BreakerTypeOK'
  BY <1>3 DEF ExecClosed
<1>4. ASSUME NEW c \in Callers, ExecProbe(c) PROVE BreakerTypeOK'
  BY <1>4 DEF ExecProbe, ProbesCounted
<1>5. ASSUME NEW c \in Callers, Succeed(c) PROVE BreakerTypeOK'
  BY <1>5 DEF Succeed, Return
<1>6. ASSUME NEW c \in Callers, Fail(c) PROVE BreakerTypeOK'
  <2>1. FailuresCounted \in 0 .. FailureThreshold /\ FreedProbe \in 0 .. HalfOpenMax
    BY DEF FailuresCounted, FreedProbe
  <2>2. (state' = "open" /\ resetDue' = FALSE) \/ UNCHANGED <<state, resetDue>>
    BY <1>6 DEF Fail
  <2>3. QED
    BY <1>6, <2>1, <2>2 DEF Fail, Return
<1>7. ASSUME NEW c \in Callers, Dismiss(c) PROVE BreakerTypeOK'
  BY <1>7 DEF Dismiss, Return, FreedProbe
<1>8. QED
  BY <1>1, <1>2, <1>3, <1>4, <1>5, <1>6, <1>7 DEF BreakerNext, Exec, Settle

(* The count of probes: a late call can only lower it.                     *)
LEMMA NoLeakStep ==
  BreakerInv /\ [BreakerNext]_breakerVars => NoLeakedProbe'
<1> SUFFICES ASSUME BreakerInv, [BreakerNext]_breakerVars, state' = "half_open"
             PROVE  halfOpenActive' <= Cardinality(Probes')
  BY DEF NoLeakedProbe
<1> USE LimitsAssumption, ProbesFinite DEF BreakerInv, BreakerTypeOK
<1>1. CASE UNCHANGED breakerVars \/ Elapse
  BY <1>1 DEF breakerVars, Elapse, NoLeakedProbe, Probes
<1>2. ASSUME NEW c \in Callers, ExecClosed(c)
      PROVE  halfOpenActive' <= Cardinality(Probes')
  BY <1>2 DEF ExecClosed
<1>3. ASSUME NEW c \in Callers, ExecProbe(c)
      PROVE  halfOpenActive' <= Cardinality(Probes')
  <2>1. Cardinality(Probes') = Cardinality(Probes) + 1
    BY <1>3, ProbeStarts DEF ExecProbe
  <2>2. ProbesCounted <= Cardinality(Probes)
    BY <1>3 DEF ExecProbe, ProbesCounted, Elapsed, NoLeakedProbe
  <2>3. ProbesCounted \in Nat /\ halfOpenActive' = ProbesCounted + 1
    BY <1>3 DEF ExecProbe, ProbesCounted
  <2>4. QED
    BY <2>1, <2>2, <2>3
<1>4. ASSUME NEW c \in Callers, Settle(c)
      PROVE  halfOpenActive' <= Cardinality(Probes')
  <2>1. CASE Dismiss(c)
    <3>1. state = "half_open"
      BY <2>1 DEF Dismiss
    <3>2. halfOpenActive <= Cardinality(Probes)
      BY <3>1 DEF NoLeakedProbe
    <3>3. Cardinality(Probes') \in Nat /\ Cardinality(Probes') >= Cardinality(Probes) - 1
      BY <2>1, ProbeEnds DEF Dismiss
    <3>4. halfOpenActive' = IF halfOpenActive > 0 THEN halfOpenActive - 1 ELSE 0
      BY <2>1, <3>1 DEF Dismiss, FreedProbe
    <3>5. QED
      BY <3>2, <3>3, <3>4
  <2>2. CASE Succeed(c) \/ Fail(c)
    BY <2>2 DEF Succeed, Fail
  <2>3. QED
    BY <1>4, <2>1, <2>2 DEF Settle
<1>5. QED
  BY <1>1, <1>2, <1>3, <1>4 DEF BreakerNext, Exec

-----------------------------------------------------------------------------
(* The breaker keeps its shape, and its count of probes its limit.         *)
THEOREM BreakerTypeCorrect == BreakerSpec => []BreakerTypeOK
<1>1. BreakerInit => BreakerTypeOK
  BY BreakerInitInv DEF BreakerInv
<1>2. QED
  BY <1>1, BreakerTypeStep, PTL DEF BreakerSpec

(* No leaked probe slot: a half-open circuit that rejects calls has a      *)
(* probe running whose end will change that.                               *)
THEOREM NoProbeSlotLeaks == BreakerSpec => []NoLeakedProbe
<1>1. BreakerInv /\ [BreakerNext]_breakerVars => BreakerInv'
  BY BreakerTypeStep, NoLeakStep DEF BreakerInv
<1>2. BreakerInv => NoLeakedProbe
  BY DEF BreakerInv
<1>3. QED
  BY <1>1, <1>2, BreakerInitInv, PTL DEF BreakerSpec

-----------------------------------------------------------------------------
(* The breaker and the bulkhead in the client                              *)

(* The theorems about the bulkhead, about this client's variables.         *)
SlotsProofs == INSTANCE Bulkhead_proofs

-----------------------------------------------------------------------------
(* Every step of the client is a step of the breaker or leaves it alone.   *)
LEMMA BreakerSteps == [Next]_vars => [BreakerNext]_breakerVars
<1> SUFFICES ASSUME [Next]_vars PROVE [BreakerNext]_breakerVars
  OBVIOUS
<1>1. CASE UNCHANGED vars
  BY <1>1 DEF vars
<1>2. CASE WindowPasses
  BY <1>2 DEF WindowPasses, BreakerNext
<1>3. ASSUME NEW c \in Callers, Request(c) PROVE BreakerNext
  BY <1>3 DEF Request, BreakerNext
<1>4. ASSUME NEW c \in Callers, Proceed(c)
      PROVE  BreakerNext \/ UNCHANGED breakerVars
  BY <1>4 DEF Proceed, Resume, Retry, SendAgain, Answer, Report,
              BreakerNext, Settle
<1>5. QED
  BY <1>1, <1>2, <1>3, <1>4 DEF Next

(* Every step of the client is a step of the bulkhead or leaves it alone.  *)
LEMMA SlotsSteps == [Next]_vars => [Slots!BulkheadNext]_bulkheadVars
<1> SUFFICES ASSUME [Next]_vars PROVE [Slots!BulkheadNext]_bulkheadVars
  OBVIOUS
<1>1. CASE UNCHANGED vars
  BY <1>1 DEF vars
<1>2. CASE WindowPasses
  BY <1>2 DEF WindowPasses
<1>3. ASSUME NEW c \in Callers, Request(c)
      PROVE  Slots!BulkheadNext \/ UNCHANGED bulkheadVars
  BY <1>3 DEF Request, Slots!BulkheadNext, Slots!Arrive
<1>4. ASSUME NEW c \in Callers, Proceed(c)
      PROVE  Slots!BulkheadNext \/ UNCHANGED bulkheadVars
  BY <1>4 DEF Proceed, Resume, Retry, SendAgain, Answer, Report, Slots!BulkheadNext
<1>5. QED
  BY <1>1, <1>2, <1>3, <1>4 DEF Next

-----------------------------------------------------------------------------
(* The client's breaker is a CircuitBreaker.                               *)
THEOREM BreakerIsUsed == Spec => BreakerSpec
<1>1. Init => BreakerInit
  BY DEF Init
<1>2. [Next]_vars => [BreakerNext]_breakerVars
  BY BreakerSteps
<1>3. QED
  BY <1>1, <1>2, PTL DEF Spec, BreakerSpec

(* The client's bulkhead is a Bulkhead.                                    *)
THEOREM BulkheadIsUsed == Spec => Slots!BulkheadSpec
<1>1. Init => Slots!BulkheadInit
  BY DEF Init
<1>2. [Next]_vars => [Slots!BulkheadNext]_(Slots!bulkheadVars)
  BY SlotsSteps DEF bulkheadVars, Slots!bulkheadVars
<1>3. QED
  BY <1>1, <1>2, PTL DEF Spec, Slots!BulkheadSpec

-----------------------------------------------------------------------------
(* What was proved about the parts                                         *)

(* The theorems about the bulkhead come with an instance of their own of   *)
(* its module; its definitions are those of Slots.                         *)
LEMMA SlotsAssumptions ==
  SlotsProofs!CallersAssumption /\ SlotsProofs!CapacityAssumption
  BY CallersAssumption, ClientAssumption
     DEF SlotsProofs!CallersAssumption, SlotsProofs!CapacityAssumption,
         IsFiniteSet, SlotsProofs!IsFiniteSet

LEMMA SameBulkhead ==
  /\ SlotsProofs!BulkheadSpec <=> Slots!BulkheadSpec
  /\ SlotsProofs!BulkheadTypeOK <=> Slots!BulkheadTypeOK
  /\ SlotsProofs!SlotsAccounted <=> Slots!SlotsAccounted
  /\ SlotsProofs!QueueHoldsWaiters <=> Slots!QueueHoldsWaiters
<1>1. SlotsProofs!BulkheadSpec <=> Slots!BulkheadSpec
  BY PTL
     DEF SlotsProofs!BulkheadSpec, Slots!BulkheadSpec,
         SlotsProofs!BulkheadInit, Slots!BulkheadInit,
         SlotsProofs!BulkheadNext, Slots!BulkheadNext,
         SlotsProofs!bulkheadVars, Slots!bulkheadVars,
         SlotsProofs!Arrive, Slots!Arrive, SlotsProofs!Enter, Slots!Enter,
         SlotsProofs!Wait, Slots!Wait, SlotsProofs!Abort, Slots!Abort,
         SlotsProofs!Splice, Slots!Splice, SlotsProofs!Resume, Slots!Resume,
         SlotsProofs!Finish, Slots!Finish
<1>2. SlotsProofs!BulkheadTypeOK <=> Slots!BulkheadTypeOK
  BY DEF SlotsProofs!BulkheadTypeOK, Slots!BulkheadTypeOK,
         SlotsProofs!Phases, Slots!Phases
<1>3. SlotsProofs!SlotsAccounted <=> Slots!SlotsAccounted
  BY DEF SlotsProofs!SlotsAccounted, Slots!SlotsAccounted,
         SlotsProofs!Holders, Slots!Holders,
         SlotsProofs!Cardinality, Slots!Cardinality,
         SlotsProofs!IsFiniteSet, Slots!IsFiniteSet
<1>4. SlotsProofs!QueueHoldsWaiters <=> Slots!QueueHoldsWaiters
  BY DEF SlotsProofs!QueueHoldsWaiters, Slots!QueueHoldsWaiters
<1>5. QED
  BY <1>1, <1>2, <1>3, <1>4

(* Requests that queue, retry or are shed lose no slot of either layer:    *)
(* what holds of the parts holds of the client.                            *)
THEOREM LayersKeepAccount == Spec => []LayersAccounted
<1>1. Spec => []Slots!SlotsAccounted
  BY BulkheadIsUsed, SameBulkhead, SlotsAssumptions, SlotsProofs!NoSlotLost, PTL
<1>2. Spec => []NoLeakedProbe
  BY BreakerIsUsed, NoProbeSlotLeaks, PTL
<1>3. QED
  BY <1>1, <1>2, PTL DEF LayersAccounted

-----------------------------------------------------------------------------
(* The client's own state                                                  *)

(* The part of TypeOK that the breaker and the bulkhead do not answer for, *)
(* with the reason why the counter stays within its budget.                *)
Agreement ==
  /\ work    \in [Callers -> Works]
  /\ attempt \in [Callers -> 0 .. TotalAttempts]
  /\ \A c \in Callers :
       /\ admitted[c] = "none" <=> work[c] = "none"
       /\ phase[c] = "running" <=> work[c] \in {"fetch", "backoff"}
       /\ phase[c] \in {"queued", "granted"} <=> work[c] = "slot"
       /\ work[c] = "backoff" => attempt[c] < TotalAttempts

Layers == BreakerTypeOK /\ Slots!BulkheadTypeOK /\ Slots!QueueHoldsWaiters

(* A request that is sent, waits or is shed.                               *)
LEMMA RequestKeepsAgreement ==
  ASSUME Agreement, Layers, NEW c \in Callers, Request(c)
  PROVE  Agreement'
<1> USE LimitsAssumption, ClientAssumption
     DEF Agreement, Layers, BreakerTypeOK, Slots!BulkheadTypeOK, Works, Outcomes
<1>1. \E s \in {"closed", "half_open"} : admitted' = [admitted EXCEPT ![c] = s]
  BY DEF Request, Exec, ExecClosed, ExecProbe
<1>2. CASE Slots!Enter(c) /\ Send(c, 1)
  BY <1>1, <1>2 DEF Request, Slots!Enter, Send
<1>3. CASE Slots!Wait(c) /\ work' = [work EXCEPT ![c] = "slot"] /\ UNCHANGED attempt
  BY <1>1, <1>3 DEF Request, Slots!Wait
<1>4. CASE UNCHANGED <<bulkheadVars, attempt>> /\ work' = [work EXCEPT ![c] = "refused"]
  BY <1>1, <1>4 DEF Request, bulkheadVars
<1>5. QED
  BY <1>2, <1>3, <1>4 DEF Request

(* An answer that ends the loop: the slot goes to a request that waits.    *)
LEMMA AnswerKeepsAgreement ==
  ASSUME Agreement, Layers, NEW c \in Callers, NEW outcome \in Outcomes,
         Answer(c, outcome)
  PROVE  Agreement'
<1> USE DEF Agreement, Layers, Slots!BulkheadTypeOK, Works, Outcomes
<1>1. /\ work' = [work EXCEPT ![c] = outcome]
      /\ UNCHANGED <<attempt, admitted>>
      /\ work[c] = "fetch" /\ phase[c] = "running"
  BY DEF Answer, breakerVars
<1>2. CASE phase' = [phase EXCEPT ![c] = "out"]
  BY <1>1, <1>2
<1>3. CASE queue # <<>> /\ phase' = [phase EXCEPT ![c] = "out", ![Head(queue)] = "granted"]
  <2>1. Len(queue) \in Nat /\ Len(queue) # 0 /\ Head(queue) = queue[1]
    BY <1>3
  <2>2. Head(queue) \in Callers /\ phase[Head(queue)] = "queued"
    BY <2>1, 1 \in 1 .. Len(queue) DEF Slots!QueueHoldsWaiters
  <2>3. QED
    BY <1>1, <1>3, <2>2
<1>4. QED
  BY <1>2, <1>3 DEF Answer, Slots!Finish

(* The other steps of a request.                                           *)
LEMMA ProceedKeepsAgreement ==
  ASSUME Agreement, Layers, NEW c \in Callers, Proceed(c)
  PROVE  Agreement'
<1> USE LimitsAssumption, ClientAssumption
     DEF Agreement, Layers, BreakerTypeOK, Slots!BulkheadTypeOK, Works, Outcomes
<1>1. CASE Resume(c)
  BY <1>1 DEF Resume, Slots!Resume, Send, breakerVars
<1>2. CASE Retry(c)
  BY <1>2 DEF Retry, breakerVars, bulkheadVars
<1>3. CASE SendAgain(c)
  BY <1>3 DEF SendAgain, Send, breakerVars, bulkheadVars
<1>4. ASSUME NEW outcome \in Outcomes, Answer(c, outcome) PROVE Agreement'
  BY <1>4, AnswerKeepsAgreement
<1>5. CASE Report(c)
  <2>1. admitted' = [admitted EXCEPT ![c] = "none"]
    BY <1>5 DEF Report, Succeed, Fail, Dismiss, Return
  <2>2. work[c] \in Outcomes
    BY <1>5 DEF Report
  <2>3. QED
    BY <1>5, <2>1, <2>2 DEF Report, bulkheadVars
<1>6. QED
  BY <1>1, <1>2, <1>3, <1>4, <1>5 DEF Proceed

(* Type correctness: the three layers agree on where each request is.      *)
THEOREM ClientTypeCorrect == Spec => []TypeOK
<1>1. Spec => []Layers
  <2>1. Spec => []BreakerTypeOK
    BY BreakerIsUsed, BreakerTypeCorrect, PTL
  <2>2. Spec => []Slots!BulkheadTypeOK /\ []Slots!QueueHoldsWaiters
    BY BulkheadIsUsed, SameBulkhead, SlotsAssumptions,
       SlotsProofs!BulkheadTypeCorrect, SlotsProofs!NoGhostInQueue, PTL
  <2>3. QED
    BY <2>1, <2>2, PTL DEF Layers
<1>2. Init => Agreement
  BY LimitsAssumption, ClientAssumption
     DEF Init, Agreement, Works, Outcomes, BreakerInit, Slots!BulkheadInit
<1>3. Agreement /\ Layers /\ [Next]_vars => Agreement'
  <2> SUFFICES ASSUME Agreement, Layers, [Next]_vars PROVE Agreement'
    OBVIOUS
  <2>1. CASE UNCHANGED vars \/ WindowPasses
    BY <2>1 DEF Agreement, vars, breakerVars, bulkheadVars, WindowPasses, Elapse
  <2>2. QED
    BY <2>1, RequestKeepsAgreement, ProceedKeepsAgreement DEF Next
<1>4. Agreement /\ Layers => TypeOK
  BY DEF Agreement, Layers, TypeOK
<1>5. QED
  BY <1>1, <1>2, <1>3, <1>4, PTL DEF Spec

(* The circuit opens only on a request that found the vendor down.         *)
THEOREM OnlyOutagesTrip == Spec => OnlyDownTrips
<1>1. ASSUME TypeOK, [Next]_vars, state # "open", state' = "open"
      PROVE  \E c \in Callers : work[c] = "down" /\ work'[c] = "none"
  <2> USE DEF TypeOK
  <2>1. ASSUME NEW c \in Callers, Report(c)
        PROVE  work[c] = "down" /\ work'[c] = "none"
    <3>1. work' = [work EXCEPT ![c] = "none"]
      BY <2>1 DEF Report
    <3>2. ~Succeed(c) /\ ~Dismiss(c)
      BY <1>1 DEF Succeed, Dismiss
    <3>3. QED
      BY <1>1, <2>1, <3>1, <3>2 DEF Report
  <2>2. ASSUME NEW c \in Callers, Request(c) PROVE FALSE
    BY <1>1, <2>2 DEF Request, Exec, ExecClosed, ExecProbe
  <2>3. ASSUME NEW c \in Callers, Proceed(c), ~Report(c) PROVE FALSE
    BY <1>1, <2>3 DEF Proceed, Resume, Retry, SendAgain, Answer, breakerVars
  <2>4. ~UNCHANGED vars /\ ~WindowPasses
    BY <1>1 DEF vars, breakerVars, WindowPasses, Elapse
  <2>5. QED
    BY <1>1, <2>1, <2>2, <2>3, <2>4 DEF Next
<1>2. QED
  BY <1>1, ClientTypeCorrect, PTL DEF Spec, OnlyDownTrips
=============================================================================
