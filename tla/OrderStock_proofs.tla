------------------------- MODULE OrderStock_proofs --------------------------
(***************************************************************************)
(* Proofs about OrderStock, for any orders, holds, shelves and clerks.     *)
(*                                                                         *)
(* Most actions leave the holds alone.  StepKinds says what the others can *)
(* do to a hold and its row; what is reserved, and that a hold settles     *)
(* once, both follow from it.                                              *)
(***************************************************************************)
EXTENDS OrderStock, FiniteSetTheorems, TLAPS

-----------------------------------------------------------------------------
(* Operators                                                               *)

(* Subtraction that stops at zero.                                         *)
LEMMA LessIsNat ==
  ASSUME NEW a \in Nat, NEW b \in Nat
  PROVE  Less(a, b) \in Nat /\ (b <= a => Less(a, b) = a - b) /\ Less(a, b) <= a
  BY DEF Less

(* An order reserves a natural number of units, and only of rows it finds. *)
LEMMA AskedIsNat ==
  ASSUME NEW o \in Orders, NEW s \in Skus
  PROVE  Asked(o, s) \in Nat /\ (s \notin InDb => Asked(o, s) = 0)
<1>1. CASE s \in InDb /\ \E h \in Lines(o) : SkuOf[h] = s
  <2>1. (CHOOSE h \in Lines(o) : SkuOf[h] = s) \in Holds
    BY <1>1 DEF Lines
  <2>2. QED
    BY <1>1, <2>1, HoldsAssumption DEF Asked
<1>2. QED
  BY <1>1 DEF Asked

(* The units of one hold can be counted.                                   *)
LEMMA UnitsOfOne ==
  ASSUME NEW h \in Holds
  PROVE  /\ IsFiniteSet({h} \X (1 .. Units[h]))
         /\ Cardinality({h} \X (1 .. Units[h])) = Units[h]
<1>1. Units[h] \in Nat \ {0}
  BY HoldsAssumption
<1>2. IsFiniteSet(1 .. Units[h]) /\ Cardinality(1 .. Units[h]) = Units[h]
  BY <1>1, FS_Interval
<1>3. IsFiniteSet({h}) /\ Cardinality({h}) = 1
  BY FS_Singleton
<1>4. /\ IsFiniteSet({h} \X (1 .. Units[h]))
      /\ Cardinality({h} \X (1 .. Units[h])) = Cardinality({h}) * Cardinality(1 .. Units[h])
  BY <1>2, <1>3, FS_Product
<1>5. QED
  BY <1>1, <1>2, <1>3, <1>4

(* So can those of all holds on a row.                                     *)
LEMMA HeldUnitsFinite ==
  ASSUME NEW s \in Skus
  PROVE  IsFiniteSet(HeldUnits(s)) /\ Cardinality(HeldUnits(s)) \in Nat
<1> DEFINE U == [h \in ActiveOn(s) |-> {h} \X (1 .. Units[h])]
           T == {U[h] : h \in ActiveOn(s)}
<1>1. IsFiniteSet(ActiveOn(s))
  BY FS_Subset, HoldsAssumption DEF ActiveOn
<1>2. U \in Surjection(ActiveOn(s), T)
  BY DEF Surjection
<1>3. IsFiniteSet(T)
  BY <1>1, <1>2, FS_Surjection
<1>4. \A x \in T : IsFiniteSet(x)
  BY UnitsOfOne DEF ActiveOn
<1>5. IsFiniteSet(UNION T)
  BY <1>3, <1>4, FS_UNION
<1>6. HeldUnits(s) = UNION T
  BY DEF HeldUnits
<1>7. QED
  BY <1>5, <1>6, FS_CardinalityType

-----------------------------------------------------------------------------
(* Types                                                                   *)

LEMMA StockTypeInit == StockInit => StockTypeOK
  BY StockAssumption, HoldsAssumption
     DEF StockInit, StockTypeOK, HoldStates, OnFile, Settled

(* A hold and its row end up well typed whatever frees it.                 *)
LEMMA FreeTypes ==
  ASSUME StockTypeOK, NEW h \in Holds, NEW status \in Settled, Free(h, status)
  PROVE  /\ hold' \in [Holds -> HoldStates] /\ lapsed' \subseteq Holds
         /\ reserved' \in [Skus -> Nat]
<1>1. SkuOf[h] \in Skus /\ Units[h] \in Nat
  BY HoldsAssumption
<1>2. Less(reserved[SkuOf[h]], Units[h]) \in Nat
  BY <1>1, LessIsNat DEF StockTypeOK
<1>3. QED
  BY <1>2 DEF Free, StockTypeOK, HoldStates, OnFile

LEMMA ReleaseTypes ==
  ASSUME StockTypeOK, NEW h \in Holds, Release(h) PROVE StockTypeOK'
<1>1. CASE hold[h] = "active"
  <2>1. Free(h, "released") /\ "released" \in Settled
    BY <1>1 DEF Release, Settled
  <2>2. QED
    BY <2>1, FreeTypes DEF Release, StockTypeOK
<1>2. CASE hold[h] # "active"
  BY <1>2 DEF Release, StockTypeOK
<1>3. QED
  BY <1>1, <1>2

LEMMA ConfirmTypes ==
  ASSUME StockTypeOK, NEW h \in Holds, Confirm(h) PROVE StockTypeOK'
<1>1. CASE hold[h] = "active"
  <2>1. Free(h, "confirmed") /\ "confirmed" \in Settled
    BY <1>1 DEF Confirm, Settled
  <2>2. quantity' \in [Skus -> Nat]
    <3>1. SkuOf[h] \in Skus /\ Units[h] \in Nat
      BY HoldsAssumption
    <3>2. Less(quantity[SkuOf[h]], Units[h]) \in Nat
      BY <3>1, LessIsNat DEF StockTypeOK
    <3>3. QED
      BY <1>1, <3>2 DEF Confirm, StockTypeOK
  <2>3. QED
    BY <2>1, <2>2, FreeTypes DEF Confirm, StockTypeOK
<1>2. CASE hold[h] # "active"
  BY <1>2 DEF Confirm, StockTypeOK
<1>3. QED
  BY <1>1, <1>2

LEMMA LockTypes ==
  ASSUME StockTypeOK, NEW h \in Holds, Lock(h) PROVE StockTypeOK'
  BY DEF Lock, StockTypeOK, HoldStates

LEMMA StockNextTypes ==
  ASSUME StockTypeOK, StockNext PROVE StockTypeOK'
<1>1. ASSUME NEW h \in Holds, Lapse(h) PROVE StockTypeOK'
  BY <1>1 DEF Lapse, StockTypeOK
<1>2. ASSUME NEW h \in Holds, Reserve(h) PROVE StockTypeOK'
  <2>1. SkuOf[h] \in Skus /\ Units[h] \in Nat
    BY HoldsAssumption
  <2>2. reserved' \in [Skus -> Nat]
    BY <1>2, <2>1 DEF Reserve, StockTypeOK
  <2>3. QED
    BY <1>2, <2>2 DEF Reserve, StockTypeOK, HoldStates, OnFile
<1>3. ASSUME NEW h \in Holds, Refuse(h) PROVE StockTypeOK'
  BY <1>3 DEF Refuse, StockTypeOK, HoldStates
<1>4. ASSUME NEW h \in Holds, NEW r \in Holds, Sweep(h, r) PROVE StockTypeOK'
  <2>1. stale' \in [Holds -> SUBSET Holds]
    BY <1>4 DEF Sweep, StockTypeOK
  <2>2. CASE hold[r] = "active"
    <3>1. Free(r, "expired") /\ "expired" \in Settled
      BY <1>4, <2>2 DEF Sweep, Settled
    <3>2. QED
      BY <1>4, <2>1, <3>1, FreeTypes DEF Sweep, StockTypeOK
  <2>3. CASE hold[r] # "active"
    BY <1>4, <2>1, <2>3 DEF Sweep, StockTypeOK
  <2>4. QED
    BY <2>2, <2>3
<1>5. ASSUME NEW k \in Clerks, Count(k) PROVE StockTypeOK'
  BY <1>5, StockAssumption DEF Count, StockTypeOK
<1>6. ASSUME NEW k \in Clerks, NEW n \in 0 .. MaxQuantity, Post(k, n) PROVE StockTypeOK'
  <2>1. n \in Nat
    BY <1>6, StockAssumption
  <2>2. QED
    BY <1>6, <2>1 DEF Post, StockTypeOK
<1>7. QED
  BY <1>1, <1>2, <1>3, <1>4, <1>5, <1>6 DEF StockNext

(* Unwinding an order keeps rows natural.                                  *)
LEMMA UnreserveTypes ==
  ASSUME StockTypeOK, NEW o \in Orders, Unreserve(o)
  PROVE  reserved' \in [Skus -> Nat]
  BY LessIsNat, AskedIsNat DEF Unreserve, StockTypeOK

LEMMA FulfillTypes ==
  ASSUME StockTypeOK, NEW o \in Orders, Fulfill(o)
  PROVE  reserved' \in [Skus -> Nat] /\ quantity' \in [Skus -> Nat]
<1>1. \A s \in Skus : Asked(o, s) \in Nat /\ quantity[s] \in Nat /\ reserved[s] \in Nat
  BY AskedIsNat DEF StockTypeOK
<1>2. \A s \in Skus :
        Less(quantity[s], IF Asked(o, s) <= reserved[s] THEN Asked(o, s) ELSE reserved[s]) \in Nat
  BY <1>1, LessIsNat
<1>3. QED
  BY <1>2, UnreserveTypes DEF Fulfill

(* The order actions, and what they do to the stock.                       *)
LEMMA OrderNextTypes ==
  ASSUME TypeOK, OrderNext PROVE TypeOK'
<1> USE DEF TypeOK
<1>1. ASSUME NEW o \in Orders, Place(o) PROVE TypeOK'
  BY <1>1, AskedIsNat DEF Place, StockTypeOK, OrderTypeOK, Steps
<1>2. ASSUME NEW o \in Orders, Decline(o) PROVE TypeOK'
  BY <1>2 DEF Decline, stockVars, StockTypeOK, OrderTypeOK, Steps
<1>3. ASSUME NEW o \in Orders, Persist(o) PROVE TypeOK'
  BY <1>3 DEF Persist, Lines, stockVars, StockTypeOK, OrderTypeOK, Steps
<1>4. ASSUME NEW o \in Orders, Reject(o) PROVE TypeOK'
  <2>1. reserved' \in [Skus -> Nat]
    BY <1>4, UnreserveTypes DEF Reject, StockTypeOK
  <2>2. QED
    BY <1>4, <2>1 DEF Reject, StockTypeOK, OrderTypeOK, Steps
<1>5. ASSUME NEW o \in Orders, Crash(o) PROVE TypeOK'
  BY <1>5 DEF Crash, stockVars, StockTypeOK, OrderTypeOK, Steps
<1>6. ASSUME NEW o \in Orders, Capture(o) PROVE TypeOK'
  <2>1. reserved' \in [Skus -> Nat] /\ quantity' \in [Skus -> Nat]
    BY <1>6, FulfillTypes DEF Capture
  <2>2. QED
    BY <1>6, <2>1 DEF Capture, Owed, StockTypeOK, OrderTypeOK, Payments
<1>7. ASSUME NEW o \in Orders, DeclineCharge(o) \/ Refund(o) PROVE TypeOK'
  BY <1>7 DEF DeclineCharge, Refund, stockVars, StockTypeOK, OrderTypeOK, Payments
<1>8. ASSUME NEW o \in Orders, CommitUndo(o) PROVE TypeOK'
  <2>1. reserved' \in [Skus -> Nat]
    BY <1>8, UnreserveTypes DEF CommitUndo
  <2>2. payment' \in [Orders -> Payments]
    BY <1>8 DEF CommitUndo, OrderTypeOK, Payments, Undos
  <2>3. QED
    BY <1>8, <2>1, <2>2 DEF CommitUndo, Owed, StockTypeOK, OrderTypeOK, Undos
<1>9. ASSUME NEW o \in Orders, NEW h \in Holds, Ask(o, h) PROVE TypeOK'
  BY <1>9 DEF Ask, stockVars, StockTypeOK, OrderTypeOK, Heard
<1>10. ASSUME NEW o \in Orders, NEW status \in {"captured", "authorized"},
              RecordPayment(o, status)
       PROVE  TypeOK'
  BY <1>10 DEF RecordPayment, Owed, stockVars, StockTypeOK, OrderTypeOK, Payments
<1>11. ASSUME NEW o \in Orders, NEW writes \in Undos, BeginUndo(o, writes) PROVE TypeOK'
  BY <1>11 DEF BeginUndo, stockVars, StockTypeOK, OrderTypeOK, Undos
<1>12. ASSUME NEW h \in Holds, HearTaken(h) \/ GiveUp(h) \/ HearRefused(h) PROVE TypeOK'
  BY <1>12 DEF HearTaken, GiveUp, HearRefused, stockVars, StockTypeOK, OrderTypeOK, Heard, Steps
<1>13. ASSUME NEW h \in Holds, GiveBack(h) PROVE TypeOK'
  <2>1. StockTypeOK'
    BY <1>13, ReleaseTypes DEF GiveBack, stockVars, StockTypeOK
  <2>2. QED
    BY <1>13, <2>1 DEF GiveBack, OrderTypeOK, Heard
<1>14. ASSUME NEW h \in Holds, Arrive(h) \/ CartRelease(h) PROVE TypeOK'
  BY <1>14, LockTypes, ReleaseTypes DEF Arrive, CartRelease, orderVars, OrderTypeOK
<1>15. ASSUME NEW c \in calls, Call(c) PROVE TypeOK'
  <2>1. c.hold \in Holds
    BY <1>15 DEF OrderTypeOK
  <2>2. StockTypeOK'
    BY <1>15, <2>1, ReleaseTypes, ConfirmTypes DEF Call, stockVars, StockTypeOK
  <2>3. QED
    BY <1>15, <2>1, <2>2 DEF Call, OrderTypeOK
<1>16. QED
  BY <1>1, <1>2, <1>3, <1>4, <1>5, <1>6, <1>7, <1>8, <1>9, <1>10, <1>11, <1>12, <1>13, <1>14,
     <1>15 DEF OrderNext

(* Every variable keeps its type; no quantity and no reservation ever goes *)
(* below zero.                                                             *)
THEOREM TypeCorrect == Spec => []TypeOK
<1>1. Init => TypeOK
  BY StockTypeInit DEF Init, OrderInit, TypeOK, OrderTypeOK, Steps, Heard, Payments, Undos
<1>2. TypeOK /\ [Next]_vars => TypeOK'
  <2> SUFFICES ASSUME TypeOK, [Next]_vars PROVE TypeOK'
    OBVIOUS
  <2>1. CASE UNCHANGED vars
    BY <2>1 DEF vars, stockVars, orderVars, TypeOK, StockTypeOK, OrderTypeOK
  <2>2. CASE OrderNext
    BY <2>2, OrderNextTypes
  <2>3. CASE StockNext /\ UNCHANGED orderVars
    BY <2>3, StockNextTypes DEF TypeOK, OrderTypeOK, orderVars
  <2>4. QED
    BY <2>1, <2>2, <2>3 DEF Next
<1>3. QED
  BY <1>1, <1>2, PTL DEF Spec

-----------------------------------------------------------------------------
(* What a step does to the holds                                           *)

Idle(s)  == reserved'[s] = reserved[s]
Still    == hold' = hold /\ \A s \in Skus \ InDb : Idle(s)
Moves(h) == /\ hold[h] = "none" \/ hold[h] = "sweeping"
            /\ hold[h] = "none" => OrderOf[h] = NoOrder \/ heard[h] # "todo"
            /\ reserved' = reserved
            /\ \E to \in {"sweeping", "refused"} : hold' = [hold EXCEPT ![h] = to]
Takes(h) == /\ hold[h] = "sweeping" /\ hold' = [hold EXCEPT ![h] = "active"]
            /\ reserved' = [reserved EXCEPT ![SkuOf[h]] = @ + Units[h]]
Frees(h) == hold[h] = "active" /\ \E status \in Settled : Free(h, status)
StepKind == Still \/ \E h \in Holds : Moves(h) \/ Takes(h) \/ Frees(h)

(* An order's own reservation is on rows inventory-service does not share. *)
LEMMA UnreserveIsIdle ==
  ASSUME TypeOK, NEW o \in Orders, Unreserve(o) PROVE \A s \in Skus \ InDb : Idle(s)
<1>1. \A s \in Skus \ InDb : Less(reserved[s], Asked(o, s)) = reserved[s]
  BY AskedIsNat, LessIsNat DEF TypeOK, StockTypeOK
<1>2. QED
  BY <1>1 DEF Unreserve, Idle

LEMMA ReleaseKind ==
  ASSUME NEW h \in Holds, Release(h) PROVE StepKind
  BY DEF Release, StepKind, Still, Idle, Frees, Settled

LEMMA ConfirmKind ==
  ASSUME NEW h \in Holds, Confirm(h) PROVE StepKind
  BY DEF Confirm, StepKind, Still, Idle, Frees, Settled

LEMMA StepKinds ==
  ASSUME TypeOK, [Next]_vars PROVE StepKind
<1>1. CASE UNCHANGED vars
  BY <1>1 DEF vars, stockVars, StepKind, Still, Idle
<1>2. CASE StockNext
  <2>1. ASSUME NEW h \in Holds, Lapse(h) PROVE StepKind
    BY <2>1 DEF Lapse, StepKind, Still, Idle
  <2>2. ASSUME NEW h \in Holds, Reserve(h) PROVE StepKind
    BY <2>2 DEF Reserve, StepKind, Takes
  <2>3. ASSUME NEW h \in Holds, Refuse(h) PROVE StepKind
    BY <2>3 DEF Refuse, StepKind, Moves
  <2>4. ASSUME NEW h \in Holds, NEW r \in Holds, Sweep(h, r) PROVE StepKind
    BY <2>4 DEF Sweep, StepKind, Still, Idle, Frees, Settled
  <2>5. ASSUME NEW k \in Clerks, Count(k) \/ \E n \in 0 .. MaxQuantity : Post(k, n)
        PROVE  StepKind
    BY <2>5 DEF Count, Post, StepKind, Still, Idle
  <2>6. QED
    BY <1>2, <2>1, <2>2, <2>3, <2>4, <2>5 DEF StockNext
<1>3. CASE OrderNext
  <2>1. ASSUME NEW o \in Orders, Place(o) PROVE StepKind
    <3>1. \A s \in Skus \ InDb : reserved[s] + Asked(o, s) = reserved[s]
      BY AskedIsNat DEF TypeOK, StockTypeOK
    <3>2. QED
      BY <2>1, <3>1 DEF Place, StepKind, Still, Idle
  <2>2. ASSUME NEW o \in Orders, Reject(o) \/ Capture(o) \/ CommitUndo(o) PROVE StepKind
    BY <2>2, UnreserveIsIdle DEF Reject, Capture, Fulfill, CommitUndo, StepKind, Still, Idle
  <2>3. ASSUME UNCHANGED stockVars PROVE StepKind
    BY <2>3 DEF stockVars, StepKind, Still, Idle
  <2>4. ASSUME NEW h \in Holds, GiveBack(h) \/ CartRelease(h) PROVE StepKind
    BY <2>3, <2>4, ReleaseKind DEF GiveBack, CartRelease
  <2>5. ASSUME NEW h \in Holds, Arrive(h) PROVE StepKind
    BY <2>5 DEF Arrive, Lock, StepKind, Moves
  <2>6. ASSUME NEW c \in calls, Call(c) PROVE StepKind
    <3>1. c.hold \in Holds
      BY <2>6 DEF TypeOK, OrderTypeOK
    <3>2. QED
      BY <2>3, <2>6, <3>1, ReleaseKind, ConfirmKind DEF Call
  <2>7. QED
    BY <1>3, <2>1, <2>2, <2>3, <2>4, <2>5, <2>6
       DEF OrderNext, Decline, Persist, Crash, DeclineCharge, Refund, Ask, RecordPayment,
           BeginUndo, HearTaken, GiveUp, HearRefused
<1>4. QED
  BY <1>1, <1>2, <1>3 DEF Next

-----------------------------------------------------------------------------
(* Reservations                                                            *)

(* A hold taken brings its units ...                                       *)
LEMMA TakingAdds ==
  ASSUME TypeOK, NEW h \in Holds, Takes(h)
  PROVE  /\ \A s \in Skus \ {SkuOf[h]} : HeldUnits(s)' = HeldUnits(s)
         /\ Cardinality(HeldUnits(SkuOf[h])') = Cardinality(HeldUnits(SkuOf[h])) + Units[h]
<1> DEFINE U == {h} \X (1 .. Units[h])
           H == HeldUnits(SkuOf[h])
<1>1. SkuOf[h] \in Skus /\ Units[h] \in Nat
  BY HoldsAssumption
<1>2. \A s \in Skus \ {SkuOf[h]} : ActiveOn(s)' = ActiveOn(s)
  BY DEF Takes, ActiveOn, TypeOK, StockTypeOK
<1>3. ActiveOn(SkuOf[h])' = ActiveOn(SkuOf[h]) \cup {h} /\ h \notin ActiveOn(SkuOf[h])
  BY DEF Takes, ActiveOn, TypeOK, StockTypeOK
<1>4. H' = H \cup U /\ H \cap U = {}
  BY <1>3 DEF HeldUnits
<1>5. Cardinality(H \cup U) = Cardinality(H) + Cardinality(U) - Cardinality({})
  BY <1>1, <1>4, HeldUnitsFinite, UnitsOfOne, FS_Union
<1>6. \A s \in Skus \ {SkuOf[h]} : HeldUnits(s)' = HeldUnits(s)
  BY <1>2 DEF HeldUnits
<1>7. Cardinality({}) = 0 /\ Cardinality(U) = Units[h] /\ Cardinality(H) \in Nat
  BY <1>1, HeldUnitsFinite, UnitsOfOne, FS_EmptySet
<1>8. Cardinality(H') = Cardinality(H) + Units[h]
  BY <1>1, <1>4, <1>5, <1>7
<1>9. QED
  BY <1>6, <1>8

(* ... and takes them along when it is freed.                              *)
LEMMA FreeingRemoves ==
  ASSUME TypeOK, NEW h \in Holds, Frees(h)
  PROVE  /\ \A s \in Skus \ {SkuOf[h]} : HeldUnits(s)' = HeldUnits(s)
         /\ Cardinality(HeldUnits(SkuOf[h])) = Cardinality(HeldUnits(SkuOf[h])') + Units[h]
         /\ Cardinality(HeldUnits(SkuOf[h])') \in Nat
<1> DEFINE U == {h} \X (1 .. Units[h])
           H == HeldUnits(SkuOf[h])
<1>1. SkuOf[h] \in Skus /\ Units[h] \in Nat
  BY HoldsAssumption
<1>2. \A s \in Skus \ {SkuOf[h]} : ActiveOn(s)' = ActiveOn(s)
  BY DEF Frees, Free, Settled, ActiveOn, TypeOK, StockTypeOK
<1>3. ActiveOn(SkuOf[h])' = ActiveOn(SkuOf[h]) \ {h} /\ h \in ActiveOn(SkuOf[h])
  BY DEF Frees, Free, Settled, ActiveOn, TypeOK, StockTypeOK
<1>4. H = H' \cup U /\ H' \cap U = {}
  BY <1>3 DEF HeldUnits
<1>5. IsFiniteSet(H') /\ Cardinality(H') \in Nat
  BY <1>1, <1>4, HeldUnitsFinite, FS_Subset, FS_CardinalityType
<1>6. Cardinality(H' \cup U) = Cardinality(H') + Cardinality(U) - Cardinality({})
  BY <1>4, <1>5, UnitsOfOne, FS_Union
<1>7. \A s \in Skus \ {SkuOf[h]} : HeldUnits(s)' = HeldUnits(s)
  BY <1>2 DEF HeldUnits
<1>8. Cardinality({}) = 0 /\ Cardinality(U) = Units[h]
  BY UnitsOfOne, FS_EmptySet
<1>9. Cardinality(H) = Cardinality(H') + Units[h]
  BY <1>1, <1>4, <1>5, <1>6, <1>8
<1>10. QED
  BY <1>5, <1>7, <1>9

LEMMA ReservedKept ==
  ASSUME TypeOK, HoldsBackReserved, [Next]_vars PROVE HoldsBackReserved'
<1>1. StepKind
  BY StepKinds
<1>2. CASE Still
  BY <1>2 DEF Still, Idle, HoldsBackReserved, HeldUnits, ActiveOn
<1>3. ASSUME NEW h \in Holds, Moves(h) PROVE HoldsBackReserved'
  <2>1. \A s \in Skus : ActiveOn(s)' = ActiveOn(s)
    BY <1>3 DEF Moves, ActiveOn, TypeOK, StockTypeOK
  <2>2. QED
    BY <1>3, <2>1 DEF Moves, HoldsBackReserved, HeldUnits
<1>4. ASSUME NEW h \in Holds, Takes(h) PROVE HoldsBackReserved'
  <2>1. SkuOf[h] \in Skus /\ Units[h] \in Nat
    BY HoldsAssumption
  <2>2. \A s \in Skus : reserved'[s] = IF s = SkuOf[h] THEN reserved[s] + Units[h] ELSE reserved[s]
    BY <1>4, <2>1 DEF Takes, TypeOK, StockTypeOK
  <2>3. QED
    BY <1>4, <2>1, <2>2, TakingAdds DEF HoldsBackReserved
<1>5. ASSUME NEW h \in Holds, Frees(h) PROVE HoldsBackReserved'
  <2>1. SkuOf[h] \in Skus /\ Units[h] \in Nat
    BY HoldsAssumption
  <2>2. \A s \in Skus : reserved'[s] = IF s = SkuOf[h] THEN Less(reserved[s], Units[h])
                                       ELSE reserved[s]
    BY <1>5, <2>1 DEF Frees, Free, TypeOK, StockTypeOK
  <2>3. ASSUME NEW s \in Skus \ InDb PROVE reserved'[s] = Cardinality(HeldUnits(s)')
    <3>1. CASE s = SkuOf[h]
      <4>1. /\ reserved[s] = Cardinality(HeldUnits(s)') + Units[h]
            /\ Cardinality(HeldUnits(s)') \in Nat
        BY <1>5, <3>1, FreeingRemoves DEF HoldsBackReserved
      <4>2. reserved'[s] = reserved[s] - Units[h]
        <5>1. reserved[s] \in Nat /\ Units[h] <= reserved[s]
          BY <2>1, <4>1
        <5>2. reserved'[s] = Less(reserved[s], Units[h])
          BY <2>2, <3>1
        <5>3. QED
          BY <2>1, <5>1, <5>2, LessIsNat
      <4>3. QED
        BY <2>1, <4>1, <4>2
    <3>2. CASE s # SkuOf[h]
      BY <1>5, <2>2, <3>2, FreeingRemoves DEF HoldsBackReserved
    <3>3. QED
      BY <3>1, <3>2
  <2>4. QED
    BY <2>3 DEF HoldsBackReserved
<1>6. QED
  BY <1>1, <1>2, <1>3, <1>4, <1>5 DEF StepKind

(* Of a SKU that only inventory-service writes, what is reserved is what   *)
(* active holds keep, unit for unit, through every lapse, sweep, late      *)
(* confirm, repeated release and correction.                               *)
THEOREM ReservedIsHeld == Spec => []HoldsBackReserved
<1>1. Init => HoldsBackReserved
  <2> SUFFICES ASSUME Init, NEW s \in Skus \ InDb PROVE reserved[s] = Cardinality(HeldUnits(s))
    BY DEF HoldsBackReserved
  <2>1. HeldUnits(s) = {} /\ reserved[s] = 0
    BY DEF Init, StockInit, HeldUnits, ActiveOn
  <2>2. QED
    BY <2>1, FS_EmptySet
<1>2. TypeOK /\ HoldsBackReserved /\ [Next]_vars => HoldsBackReserved'
  BY ReservedKept
<1>3. QED
  BY <1>1, <1>2, TypeCorrect, PTL DEF Spec

(* A hold is settled once.                                                 *)
THEOREM HoldsSettleOnce == Spec => HoldSettlesOnce
<1>1. TypeOK /\ [Next]_vars =>
        [\A h \in Holds : hold[h] \in Settled => hold'[h] = hold[h]]_stockVars
  <2> SUFFICES ASSUME TypeOK, [Next]_vars, NEW g \in Holds, hold[g] \in Settled
               PROVE  hold'[g] = hold[g]
    OBVIOUS
  <2>1. StepKind
    BY StepKinds
  <2>2. QED
    BY <2>1 DEF StepKind, Still, Moves, Takes, Frees, Free, Settled, TypeOK, StockTypeOK
<1>2. QED
  BY <1>1, TypeCorrect, PTL DEF Spec, HoldSettlesOnce

-----------------------------------------------------------------------------
(* The shelf                                                               *)

(* Giving back the same from both columns keeps their order.               *)
LEMMA LessIsMonotone ==
  ASSUME NEW a \in Nat, NEW b \in Nat, NEW c \in Nat, a <= b
  PROVE  Less(a, c) <= Less(b, c)
  BY DEF Less

LEMMA ReleaseInBounds ==
  ASSUME TypeOK, StockInBounds, NEW h \in Holds, NEW status \in Settled, Free(h, status),
         quantity' = quantity
  PROVE  StockInBounds'
<1>1. SkuOf[h] \in Skus /\ Units[h] \in Nat
  BY HoldsAssumption
<1>2. reserved[SkuOf[h]] \in Nat
  BY <1>1 DEF TypeOK, StockTypeOK
<1>3. /\ Less(reserved[SkuOf[h]], Units[h]) \in Nat
      /\ Less(reserved[SkuOf[h]], Units[h]) <= reserved[SkuOf[h]]
  BY <1>1, <1>2, LessIsNat
<1>4. QED
  BY <1>1, <1>3 DEF Free, StockInBounds, TypeOK, StockTypeOK

LEMMA ConfirmInBounds ==
  ASSUME TypeOK, StockInBounds, NEW h \in Holds, Confirm(h) PROVE StockInBounds'
<1>1. CASE hold[h] = "active"
  <2>1. SkuOf[h] \in Skus /\ Units[h] \in Nat
    BY HoldsAssumption
  <2>2. Less(reserved[SkuOf[h]], Units[h]) <= Less(quantity[SkuOf[h]], Units[h])
    BY <2>1, LessIsMonotone DEF StockInBounds, TypeOK, StockTypeOK
  <2>3. QED
    BY <1>1, <2>1, <2>2 DEF Confirm, Free, StockInBounds, TypeOK, StockTypeOK
<1>2. CASE hold[h] # "active"
  BY <1>2 DEF Confirm, StockInBounds
<1>3. QED
  BY <1>1, <1>2

LEMMA UnreserveInBounds ==
  ASSUME TypeOK, StockInBounds, NEW o \in Orders, Unreserve(o), quantity' = quantity
  PROVE  StockInBounds'
<1>1. ASSUME NEW s \in Skus
      PROVE  /\ Less(reserved[s], Asked(o, s)) \in Nat
             /\ Less(reserved[s], Asked(o, s)) <= reserved[s]
  <2>1. reserved[s] \in Nat /\ Asked(o, s) \in Nat
    BY AskedIsNat DEF TypeOK, StockTypeOK
  <2>2. QED
    BY <2>1, LessIsNat
<1>2. QED
  BY <1>1 DEF Unreserve, StockInBounds, TypeOK, StockTypeOK

LEMMA FulfillInBounds ==
  ASSUME TypeOK, StockInBounds, NEW o \in Orders, Fulfill(o) PROVE StockInBounds'
<1> DEFINE Take(s) == IF Asked(o, s) <= reserved[s] THEN Asked(o, s) ELSE reserved[s]
<1>1. ASSUME NEW s \in Skus
      PROVE  Less(reserved[s], Asked(o, s)) <= Less(quantity[s], Take(s))
  BY AskedIsNat DEF Less, StockInBounds, TypeOK, StockTypeOK
<1>2. QED
  BY <1>1 DEF Fulfill, Unreserve, StockInBounds

LEMMA StockStepInBounds ==
  ASSUME TypeOK, StockInBounds, StockNext PROVE StockInBounds'
<1>1. ASSUME NEW h \in Holds, Lapse(h) \/ Refuse(h) PROVE StockInBounds'
  BY <1>1 DEF Lapse, Refuse, StockInBounds
<1>2. ASSUME NEW h \in Holds, Reserve(h) PROVE StockInBounds'
  <2>1. SkuOf[h] \in Skus /\ Units[h] \in Nat
    BY HoldsAssumption
  <2>2. reserved[SkuOf[h]] + Units[h] <= quantity[SkuOf[h]]
    BY <1>2, <2>1 DEF Reserve, Available, Less, StockInBounds, TypeOK, StockTypeOK
  <2>3. QED
    BY <1>2, <2>1, <2>2 DEF Reserve, StockInBounds, TypeOK, StockTypeOK
<1>3. ASSUME NEW h \in Holds, NEW r \in Holds, Sweep(h, r) PROVE StockInBounds'
  <2>1. CASE hold[r] = "active"
    <3>1. Free(r, "expired") /\ "expired" \in Settled /\ quantity' = quantity
      BY <1>3, <2>1 DEF Sweep, Settled
    <3>2. QED
      BY <3>1, ReleaseInBounds
  <2>2. CASE hold[r] # "active"
    BY <1>3, <2>2 DEF Sweep, StockInBounds
  <2>3. QED
    BY <2>1, <2>2
<1>4. ASSUME NEW k \in Clerks, Count(k) PROVE StockInBounds'
  BY <1>4 DEF Count, StockInBounds
<1>5. ASSUME NEW k \in Clerks, NEW n \in 0 .. MaxQuantity, Post(k, n) PROVE StockInBounds'
  BY <1>5, StockAssumption DEF Post, StockInBounds, TypeOK, StockTypeOK
<1>6. QED
  BY <1>1, <1>2, <1>3, <1>4, <1>5 DEF StockNext

LEMMA OrderStepInBounds ==
  ASSUME TypeOK, StockInBounds, OrderNext PROVE StockInBounds'
<1>1. ASSUME NEW o \in Orders, Place(o) PROVE StockInBounds'
  <2>1. ASSUME NEW s \in Skus PROVE reserved[s] + Asked(o, s) <= quantity[s]
    BY <1>1, AskedIsNat DEF Place, Available, Less, StockInBounds, TypeOK, StockTypeOK
  <2>2. QED
    BY <1>1, <2>1 DEF Place, StockInBounds
<1>2. ASSUME NEW o \in Orders, Reject(o) \/ CommitUndo(o) PROVE StockInBounds'
  BY <1>2, UnreserveInBounds DEF Reject, CommitUndo, StockInBounds
<1>3. ASSUME NEW o \in Orders, Capture(o) PROVE StockInBounds'
  BY <1>3, FulfillInBounds DEF Capture
<1>4. ASSUME UNCHANGED stockVars PROVE StockInBounds'
  BY <1>4 DEF stockVars, StockInBounds
<1>5. ASSUME NEW h \in Holds, Release(h) PROVE StockInBounds'
  <2>1. CASE hold[h] = "active"
    BY <1>5, <2>1, ReleaseInBounds DEF Release, Settled
  <2>2. CASE hold[h] # "active"
    BY <1>5, <2>2 DEF Release, StockInBounds
  <2>3. QED
    BY <2>1, <2>2
<1>6. ASSUME NEW h \in Holds, GiveBack(h) \/ CartRelease(h) \/ Arrive(h) PROVE StockInBounds'
  BY <1>4, <1>5, <1>6 DEF GiveBack, CartRelease, Arrive, Lock, StockInBounds
<1>7. ASSUME NEW c \in calls, Call(c) PROVE StockInBounds'
  <2>1. c.hold \in Holds
    BY <1>7 DEF TypeOK, OrderTypeOK
  <2>2. QED
    BY <1>4, <1>5, <1>7, <2>1, ConfirmInBounds DEF Call
<1>8. QED
  BY <1>1, <1>2, <1>3, <1>4, <1>6, <1>7
     DEF OrderNext, Decline, Persist, Crash, DeclineCharge, Refund, Ask, RecordPayment,
         BeginUndo, HearTaken, GiveUp, HearRefused

(* No row ever has more reserved than is on the shelf, whatever order      *)
(* guards, holds, unwindings of other orders and corrections do to it.     *)
THEOREM NothingOversold == Spec => []StockInBounds
<1>1. Init => StockInBounds
  BY StockAssumption DEF Init, StockInit, StockInBounds
<1>2. TypeOK /\ StockInBounds /\ [Next]_vars => StockInBounds'
  <2> SUFFICES ASSUME TypeOK, StockInBounds, [Next]_vars PROVE StockInBounds'
    OBVIOUS
  <2>1. CASE UNCHANGED vars
    BY <2>1 DEF vars, stockVars, StockInBounds
  <2>2. QED
    BY <2>1, StockStepInBounds, OrderStepInBounds DEF Next
<1>3. QED
  BY <1>1, <1>2, TypeCorrect, PTL DEF Spec

-----------------------------------------------------------------------------
(* Orders and their lines                                                  *)

(* A settled or refused hold stays what it is, and a line nobody asked for *)
(* has none.                                                               *)
Lasting(h) == /\ hold[h] \in Settled \cup {"refused"} => hold'[h] = hold[h]
              /\ hold[h] = "none" /\ heard[h] = "todo" => hold'[h] = "none"

LEMMA LinesLast ==
  ASSUME TypeOK, [Next]_vars, NEW o \in Orders, NEW h \in Lines(o)
  PROVE  h \in Holds /\ OrderOf[h] = o /\ OrderOf[h] # NoOrder /\ Lasting(h)
<1>1. h \in Holds /\ OrderOf[h] = o /\ OrderOf[h] # NoOrder
  BY OrderAssumption DEF Lines
<1>2. StepKind
  BY StepKinds
<1>3. QED
  BY <1>1, <1>2
     DEF StepKind, Still, Moves, Takes, Frees, Free, Settled, Lasting, TypeOK, StockTypeOK

(* What an action leaves alone of a line keeps it in agreement.            *)
Same(o, h) == /\ step'[o] = step[o] /\ heard'[h] = heard[h]
              /\ locks'[o] = locks[o] /\ fulfilled'[o] = fulfilled[o]
              /\ alerted \subseteq alerted'
Owing(h) == [kind |-> "confirm", hold |-> h]

LEMMA SameAgrees ==
  ASSUME TypeOK, NEW o \in Orders, NEW h \in Lines(o), Lasting(h), Same(o, h),
         Owing(h) \in calls => Owing(h) \in calls' \/ hold'[h] = "confirmed" \/ h \in alerted',
         LineAgrees(o, h)
  PROVE  LineAgrees(o, h)'
  BY DEF Lasting, Same, Owing, LineAgrees, Settled

LEMMA LinesAgree ==
  ASSUME TypeOK, OrderInv, [Next]_vars, NEW p \in Orders, NEW g \in Lines(p)
  PROVE  LineAgrees(p, g)'
<1> /\ g \in Holds /\ OrderOf[g] = p /\ OrderOf[g] # NoOrder /\ Lasting(g)
    /\ LineAgrees(p, g) /\ OneAsked(p) /\ PaidPlaced(p)
  BY LinesLast DEF OrderInv
<1>1. ASSUME UNCHANGED orderVars PROVE LineAgrees(p, g)'
  BY <1>1, SameAgrees DEF orderVars, Same
<1>2. ASSUME NEW o \in Orders, Place(o) \/ Decline(o) PROVE LineAgrees(p, g)'
  <2>1. UNCHANGED <<hold, heard, locks, calls, fulfilled, alerted>>
    BY <1>2 DEF Place, Decline, stockVars
  <2>2. step'[p] = step[p] \/ (step[p] = "new" /\ step'[p] \in {"holding", "declined"})
    BY <1>2 DEF Place, Decline, TypeOK, OrderTypeOK
  <2>3. QED
    BY <2>1, <2>2 DEF LineAgrees, PaidPlaced, Live, TypeOK, OrderTypeOK
<1>3. ASSUME NEW o \in Orders, Persist(o) PROVE LineAgrees(p, g)'
  <2>1. CASE p = o
    BY <1>3, <2>1 DEF Persist, stockVars, LineAgrees, PaidPlaced, Live, TypeOK, OrderTypeOK
  <2>2. CASE p # o
    <3>1. Same(p, g) /\ calls' = calls
      BY <1>3, <2>2 DEF Persist, Same, TypeOK, OrderTypeOK
    <3>2. QED
      BY <3>1, SameAgrees
  <2>3. QED
    BY <2>1, <2>2
<1>4. ASSUME NEW o \in Orders, Reject(o) PROVE LineAgrees(p, g)'
  BY <1>4 DEF Reject, LineAgrees, PaidPlaced, Live, TypeOK, OrderTypeOK
<1>5. ASSUME NEW o \in Orders, Crash(o) PROVE LineAgrees(p, g)'
  <2>1. CASE p = o
    BY <1>5, <2>1 DEF Crash, stockVars, LineAgrees, TypeOK, OrderTypeOK
  <2>2. CASE p # o
    <3>1. Same(p, g) /\ g \notin Lines(o)
      BY <1>5, <2>2 DEF Crash, Same, Lines, TypeOK, OrderTypeOK
    <3>2. Owing(g) \in calls => Owing(g) \in calls'
      BY <1>5, <3>1 DEF Crash, Owing
    <3>3. QED
      BY <3>1, <3>2, SameAgrees
  <2>3. QED
    BY <2>1, <2>2
<1>6. ASSUME NEW o \in Orders, Capture(o) PROVE LineAgrees(p, g)'
  <2>1. CASE p = o
    BY <1>6, <2>1 DEF Capture, Live, Owed, LineAgrees, TypeOK, OrderTypeOK
  <2>2. CASE p # o
    <3>1. Same(p, g) /\ calls \subseteq calls'
      BY <1>6, <2>2 DEF Capture, Same, TypeOK, OrderTypeOK
    <3>2. QED
      BY <3>1, SameAgrees
  <2>3. QED
    BY <2>1, <2>2
<1>7. ASSUME NEW o \in Orders, \/ DeclineCharge(o) \/ Refund(o) \/ CommitUndo(o)
                               \/ \E status \in {"captured", "authorized"} : RecordPayment(o, status)
                               \/ \E writes \in Undos : BeginUndo(o, writes)
      PROVE  LineAgrees(p, g)'
  <2>1. Same(p, g) /\ calls \subseteq calls'
    BY <1>7 DEF DeclineCharge, Refund, CommitUndo, RecordPayment, BeginUndo, Same
  <2>2. QED
    BY <2>1, SameAgrees
<1>8. ASSUME NEW o \in Orders, NEW h \in Holds, Ask(o, h) PROVE LineAgrees(p, g)'
  BY <1>8 DEF Ask, Lines, stockVars, LineAgrees, TypeOK, OrderTypeOK
<1>9. ASSUME NEW h \in Holds, OrderOf[h] # NoOrder, HearTaken(h) \/ GiveUp(h) \/ HearRefused(h)
      PROVE  LineAgrees(p, g)'
  <2>1. OrderOf[h] \in Orders /\ h \in Lines(OrderOf[h])
    BY <1>9, OrderAssumption DEF Lines
  <2>2. CASE HearTaken(h)
    BY <2>1, <2>2 DEF HearTaken, stockVars, LineAgrees, TypeOK, OrderTypeOK
  <2>3. CASE GiveUp(h)
    BY <2>1, <2>3 DEF GiveUp, stockVars, LineAgrees, TypeOK, OrderTypeOK
  <2>4. CASE HearRefused(h)
    <3>1. p = OrderOf[h] /\ g # h => heard[g] # "asking"
      BY <2>1, <2>4 DEF HearRefused, OneAsked
    <3>2. QED
      BY <2>1, <2>4, <3>1
         DEF HearRefused, stockVars, LineAgrees, PaidPlaced, Live, TypeOK, OrderTypeOK
  <2>5. QED
    BY <1>9, <2>2, <2>3, <2>4
<1>10. ASSUME NEW h \in Holds, OrderOf[h] # NoOrder, GiveBack(h) PROVE LineAgrees(p, g)'
  <2>1. CASE g = h
    <3>1. Release(h) => hold'[h] \in Settled
      <4>1. ASSUME Release(h) PROVE hold'[h] \in Settled
        BY <4>1 DEF Release, Free, OnFile, Settled, TypeOK, StockTypeOK
      <4>2. QED
        BY <4>1
    <3>2. QED
      BY <1>10, <2>1, <3>1
         DEF GiveBack, stockVars, LineAgrees, Lasting, PaidPlaced, Live, TypeOK, OrderTypeOK
  <2>2. CASE g # h
    <3>1. Same(p, g) /\ calls' = calls
      BY <1>10, <2>2 DEF GiveBack, Same, TypeOK, OrderTypeOK
    <3>2. QED
      BY <3>1, SameAgrees
  <2>3. QED
    BY <2>1, <2>2
<1>11. ASSUME NEW c \in calls, Call(c) PROVE LineAgrees(p, g)'
  <2>1. Same(p, g)
    BY <1>11 DEF Call, Same
  <2>2. ASSUME Owing(g) \in calls, Owing(g) \notin calls', g \notin alerted'
        PROVE  hold'[g] = "confirmed"
    <3>1. c = Owing(g)
      BY <1>11, <2>2 DEF Call
    <3>2. c.kind = "confirm" /\ c.hold = g
      BY <3>1 DEF Owing
    <3>3. Confirm(g) /\ Confirmable(g)
      BY <1>11, <2>2, <3>2 DEF Call
    <3>4. QED
      BY <3>3 DEF Confirm, Confirmable, Free, TypeOK, StockTypeOK
  <2>3. QED
    BY <2>1, <2>2, SameAgrees
<1>12. QED
  BY <1>1, <1>2, <1>3, <1>4, <1>5, <1>6, <1>7, <1>8, <1>9, <1>10, <1>11
     DEF Next, OrderNext, Arrive, CartRelease, vars

LEMMA OrderInvKept ==
  ASSUME TypeOK, OrderInv, [Next]_vars PROVE OrderInv'
<1> SUFFICES ASSUME NEW p \in Orders PROVE OneAsked(p)' /\ PaidPlaced(p)'
  BY LinesAgree DEF OrderInv, Lines
<1> OneAsked(p) /\ PaidPlaced(p) /\ (\A h \in Lines(p) : h \in Holds)
  BY DEF OrderInv, Lines
<1>1. CASE UNCHANGED orderVars
  BY <1>1 DEF orderVars, OneAsked, PaidPlaced, Live, Lines
<1>2. CASE OrderNext
  <2>1. OneAsked(p)'
    BY <1>2
       DEF OrderNext, Place, Decline, Persist, Reject, Crash, Capture, DeclineCharge, Refund,
           CommitUndo, Ask, RecordPayment, BeginUndo, HearTaken, GiveUp, HearRefused, GiveBack,
           Arrive, CartRelease, Call, orderVars, OneAsked, Lines, TypeOK, OrderTypeOK
  <2>2. PaidPlaced(p)'
    BY <1>2, OrderAssumption
       DEF OrderNext, Place, Decline, Persist, Reject, Crash, Capture, DeclineCharge, Refund,
           CommitUndo, Ask, RecordPayment, BeginUndo, HearTaken, GiveUp, HearRefused, GiveBack,
           Arrive, CartRelease, Call, orderVars, PaidPlaced, Live, TypeOK, OrderTypeOK
  <2>3. QED
    BY <2>1, <2>2
<1>3. QED
  BY <1>1, <1>2 DEF Next, vars

THEOREM OrdersAgree == Spec => []OrderInv
<1>1. Init => OrderInv
  BY DEF Init, StockInit, OrderInit, OrderInv, LineAgrees, OneAsked, PaidPlaced, Lines
<1>2. TypeOK /\ OrderInv /\ [Next]_vars => OrderInv'
  BY OrderInvKept
<1>3. QED
  BY <1>1, <1>2, TypeCorrect, PTL DEF Spec

(* A captured order is short of stock only if operations know, or the      *)
(* process died on it.                                                     *)
THEOREM ShortfallIsKnown == Spec => []NoSilentShortfall
<1>1. OrderInv => NoSilentShortfall
  BY DEF OrderInv, LineAgrees, NoSilentShortfall, Owing
<1>2. QED
  BY <1>1, OrdersAgree, PTL

(* An order refused for want of stock leaves no hold behind unnoticed.     *)
THEOREM RejectionCleansUp == Spec => []RejectedLeavesNothing
<1>1. TypeOK /\ OrderInv => RejectedLeavesNothing
  BY DEF OrderInv, LineAgrees, RejectedLeavesNothing, Lines, Settled, Heard, TypeOK, OrderTypeOK
<1>2. QED
  BY <1>1, OrdersAgree, TypeCorrect, PTL
=============================================================================
