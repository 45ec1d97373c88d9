----------------------------- MODULE StockHolds -----------------------------
(***************************************************************************)
(* inventory-service: the stock rows of one store and the holds taken on   *)
(* them (service/reservationService.js), with the clerks who correct the   *)
(* count (service/stockService.js).                                        *)
(*                                                                         *)
(* A transaction that locks its rows before it reads them is one action.   *)
(* Two operations are not atomic and are split where the code lets others  *)
(* in: lock sweeps lapsed holds one transaction at a time before its own,  *)
(* and adjustStock reads the row without a lock and writes it later.       *)
(***************************************************************************)
EXTENDS Naturals, FiniteSets

CONSTANTS
  Skus,         \* stock rows, one per SKU
  Holds,        \* lock calls, each asking once for one hold
  SkuOf,        \* SkuOf[h]: the row h asks
  Units,        \* Units[h]: the quantity h asks for
  OnHand,       \* OnHand[s]: what is on the shelf at first
  Clerks,       \* adjustStock calls that can overlap
  RowOf,        \* RowOf[k]: the row clerk k corrects
  NoCount,      \* a clerk with nothing in flight
  MaxQuantity   \* bound: the most a clerk ever writes

ASSUME HoldsAssumption == /\ IsFiniteSet(Holds)
                          /\ SkuOf \in [Holds -> Skus]
                          /\ Units \in [Holds -> Nat \ {0}]
ASSUME StockAssumption == /\ OnHand \in [Skus -> Nat]
                          /\ MaxQuantity \in Nat
                          /\ NoCount \notin Nat
                          /\ RowOf \in [Clerks -> Skus]

VARIABLES
  quantity,   \* inventory_stock.quantity
  reserved,   \* inventory_stock.reserved_quantity
  hold,       \* hold[h]: how far h's lock call got, then its row's status
  lapsed,     \* the active holds whose expires_at has passed
  stale,      \* stale[h]: what the sweep at the start of h's call has left
  counted     \* counted[k]: the quantity clerk k read, or NoCount

stockVars == <<quantity, reserved, hold, lapsed, stale, counted>>

Settled == {"released", "confirmed", "expired"}
OnFile  == Settled \cup {"active"}                    \* a reservation row exists
HoldStates == OnFile \cup {"none", "sweeping", "refused"}

StockInit ==
  /\ quantity = OnHand
  /\ reserved = [s \in Skus |-> 0]
  /\ hold     = [h \in Holds |-> "none"]
  /\ lapsed   = {}
  /\ stale    = [h \in Holds |-> {}]
  /\ counted  = [k \in Clerks |-> NoCount]

(* Math.max(0, a - b).                                                     *)
Less(a, b) == IF a >= b THEN a - b ELSE 0

-----------------------------------------------------------------------------
(* Holds                                                                   *)

(* A TTL runs out.  Nothing happens to the row yet.                        *)
Lapse(h) ==
  /\ hold[h] = "active"
  /\ lapsed' = lapsed \cup {h}
  /\ UNCHANGED <<quantity, reserved, hold, stale, counted>>

(* lock: expireStale lists the lapsed holds of the SKU.                    *)
Lock(h) ==
  /\ hold[h] = "none"
  /\ hold'  = [hold EXCEPT ![h] = "sweeping"]
  /\ stale' = [stale EXCEPT ![h] =
                 {r \in lapsed : SkuOf[r] = SkuOf[h]}]
  /\ UNCHANGED <<quantity, reserved, lapsed, counted>>

(* h's row stops holding stock and ends as status.                         *)
Free(h, status) ==
  /\ hold'     = [hold EXCEPT ![h] = status]
  /\ lapsed'   = lapsed \ {h}
  /\ reserved' = [reserved EXCEPT ![SkuOf[h]] = Less(@, Units[h])]

(* Mutant: the sweep trusts its list and does not look at the row again.   *)
SweepUnchecked(h, r) ==
  /\ hold[h] = "sweeping"
  /\ r \in stale[h]
  /\ stale' = [stale EXCEPT ![h] = @ \ {r}]
  /\ Free(r, "expired")
  /\ UNCHANGED <<quantity, counted>>

(* One transaction of the sweep: it re-reads the row under its lock and    *)
(* leaves it alone if somebody settled it meanwhile.                       *)
Sweep(h, r) ==
  /\ hold[h] = "sweeping"
  /\ r \in stale[h]
  /\ stale' = [stale EXCEPT ![h] = @ \ {r}]
  /\ IF hold[r] = "active" THEN Free(r, "expired") ELSE UNCHANGED <<hold, lapsed, reserved>>
  /\ UNCHANGED <<quantity, counted>>

Available(s) == Less(quantity[s], reserved[s])

(* Mutant: the guard counts the shelf, not what is available on it.        *)
ReserveAnyway(h) ==
  /\ hold[h] = "sweeping" /\ stale[h] = {}
  /\ Units[h] <= quantity[SkuOf[h]]
  /\ reserved' = [reserved EXCEPT ![SkuOf[h]] = @ + Units[h]]
  /\ hold'     = [hold EXCEPT ![h] = "active"]
  /\ UNCHANGED <<quantity, lapsed, stale, counted>>

(* The sweep is over: the transaction of lock itself.                      *)
Reserve(h) ==
  /\ hold[h] = "sweeping" /\ stale[h] = {}
  /\ Units[h] <= Available(SkuOf[h])
  /\ reserved' = [reserved EXCEPT ![SkuOf[h]] = @ + Units[h]]
  /\ hold'     = [hold EXCEPT ![h] = "active"]
  /\ UNCHANGED <<quantity, lapsed, stale, counted>>

(* 409 CONFLICT.                                                           *)
Refuse(h) ==
  /\ hold[h] = "sweeping" /\ stale[h] = {}
  /\ Units[h] > Available(SkuOf[h])
  /\ hold' = [hold EXCEPT ![h] = "refused"]
  /\ UNCHANGED <<quantity, reserved, lapsed, stale, counted>>

(* Mutant: a release that does not look at the status.                     *)
ReleaseAgain(h) ==
  /\ hold[h] \in OnFile
  /\ Free(h, "released")
  /\ UNCHANGED <<quantity, stale, counted>>

(* release: idempotent, only an active hold gives anything back.           *)
Release(h) ==
  /\ hold[h] \in OnFile
  /\ IF hold[h] = "active" THEN Free(h, "released") ELSE UNCHANGED <<hold, lapsed, reserved>>
  /\ UNCHANGED <<quantity, stale, counted>>

(* What confirm answers: 200, or 409 for a hold that is gone.              *)
Confirmable(h) == hold[h] \in {"active", "confirmed"}

(* confirm: the held units leave the shelf, once.                          *)
Confirm(h) ==
  /\ hold[h] \in OnFile
  /\ IF hold[h] = "active"
     THEN /\ Free(h, "confirmed")
          /\ quantity' = [quantity EXCEPT ![SkuOf[h]] = Less(@, Units[h])]
     ELSE UNCHANGED <<hold, lapsed, reserved, quantity>>
  /\ UNCHANGED <<stale, counted>>

-----------------------------------------------------------------------------
(* Corrections                                                             *)

(* adjustStock: findOrCreate reads the row, without a lock.                *)
Count(k) ==
  /\ counted[k] = NoCount
  /\ counted' = [counted EXCEPT ![k] = quantity[RowOf[k]]]
  /\ UNCHANGED <<quantity, reserved, hold, lapsed, stale>>

(* Its UPDATE: the new quantity (an adjustment may be any) over whatever   *)
(* is there now, unless it is what was read (an unchanged column is not    *)
(* written) or the row's CHECK (reserved_quantity <= quantity) refuses it  *)
(* and the call rolls back.                                                *)
Post(k, n) ==
  /\ counted[k] # NoCount
  /\ quantity' = IF n # counted[k] /\ n >= reserved[RowOf[k]]
                 THEN [quantity EXCEPT ![RowOf[k]] = n] ELSE quantity
  /\ counted' = [counted EXCEPT ![k] = NoCount]
  /\ UNCHANGED <<reserved, hold, lapsed, stale>>

StockNext ==
  \/ \E h \in Holds : Lapse(h) \/ Reserve(h) \/ Refuse(h)
  \/ \E h, r \in Holds : Sweep(h, r)
  \/ \E k \in Clerks : Count(k)
  \/ \E k \in Clerks, n \in 0 .. MaxQuantity : Post(k, n)

-----------------------------------------------------------------------------
(* Properties                                                              *)

StockTypeOK ==
  /\ quantity \in [Skus -> Nat] /\ reserved \in [Skus -> Nat]
  /\ hold \in [Holds -> HoldStates] /\ lapsed \subseteq Holds
  /\ stale \in [Holds -> SUBSET Holds]
  /\ counted \in [Clerks -> Nat \cup {NoCount}]

(* The units held on s, one by one.                                        *)
ActiveOn(s)  == {h \in Holds : hold[h] = "active" /\ SkuOf[h] = s}
HeldUnits(s) == UNION {{h} \X (1 .. Units[h]) : h \in ActiveOn(s)}

(* No interleaving of holds, releases, confirms, sweeps, orders and        *)
(* corrections reserves more than is on the shelf: only corrections ever   *)
(* need the CHECK of the row.                                              *)
StockInBounds == \A s \in Skus : reserved[s] <= quantity[s]

(* A hold is settled once: what was confirmed is not swept, what was       *)
(* released is not confirmed, whoever comes late.                          *)
HoldSettlesOnce ==
  [][\A h \in Holds : hold[h] \in Settled => hold'[h] = hold[h]]_stockVars
=============================================================================
