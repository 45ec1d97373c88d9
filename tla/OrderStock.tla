----------------------------- MODULE OrderStock -----------------------------
(***************************************************************************)
(* order-service over inventory-service: how an order takes, keeps and     *)
(* gives back its stock (service/orderService.js, inventoryClient.js).     *)
(*                                                                         *)
(* Two guards stand on the stock rows.  createOrder reserves in its own    *)
(* transaction, straight in inventory_stock, the rows that carry the       *)
(* line's variant_id (InDb); after the commit it asks inventory-service    *)
(* for one hold per line over HTTP and keeps the lock ids on the order.    *)
(* Capture, failure and cancellation unwind the first in a transaction and *)
(* then send one call per recorded lock, each of which may fail.           *)
(***************************************************************************)
EXTENDS StockHolds

CONSTANTS
  Orders,
  NoOrder,      \* a hold a shopper's cart takes by itself
  OrderOf,      \* OrderOf[h]: the order h is a line of
  InDb,         \* SKUs whose row the order's own transaction finds
  MaxCaptures   \* bound: captures of one order

ASSUME OrderAssumption ==
  /\ NoOrder \notin Orders
  /\ OrderOf \in [Holds -> Orders \cup {NoOrder}]
  /\ InDb \subseteq Skus
  /\ MaxCaptures \in Nat

\* An order asks for a SKU on one line.
ASSUME LineAssumption ==
  \A g, h \in Holds : OrderOf[g] = OrderOf[h] /\ OrderOf[g] # NoOrder /\ SkuOf[g] = SkuOf[h]
                        => g = h

VARIABLES
  step,       \* step[o]: where createOrder is, or how it ended
  heard,      \* heard[h]: what createOrder knows of its request for line h
  payment,    \* payment[o]: orders_orders.payment_status
  locks,      \* locks[o]: metadata.inventoryLocks
  undoing,    \* undoing[o]: what a failure or cancellation of o is about to write
  calls,      \* confirm and release calls that committed work still owes
  fulfilled,  \* fulfilled[o]: how often o's reservation became a deduction
  alerted     \* lines operations were alerted about

orderVars == <<step, heard, payment, locks, undoing, calls, fulfilled, alerted>>
vars      == <<stockVars, orderVars>>

Lines(o) == {h \in Holds : OrderOf[h] = o}
Steps    == {"new", "holding", "undo", "placed", "rejected", "declined", "cut"}
Heard    == {"todo", "asking", "taken", "open", "returned"}
Payments == {"pending", "paid", "failed", "voided", "refunded"}
Undos    == {"failed", "voided", "nothing"}

OrderInit ==
  /\ step      = [o \in Orders |-> "new"]
  /\ heard     = [h \in Holds |-> "todo"]
  /\ payment   = [o \in Orders |-> "pending"]
  /\ locks     = [o \in Orders |-> {}]
  /\ undoing   = [o \in Orders |-> "none"]
  /\ calls     = {}
  /\ fulfilled = [o \in Orders |-> 0]
  /\ alerted   = {}

Init == StockInit /\ OrderInit

-----------------------------------------------------------------------------
(* The order's own reservation                                             *)

(* What o reserves of s in its own transaction.                            *)
Asked(o, s) == IF s \in InDb /\ \E h \in Lines(o) : SkuOf[h] = s
               THEN Units[CHOOSE h \in Lines(o) : SkuOf[h] = s] ELSE 0

(* unwindReservation: never more than the row has reserved, whoever        *)
(* reserved it.                                                            *)
Unreserve(o) == reserved' = [s \in Skus |-> Less(reserved[s], Asked(o, s))]
Fulfill(o)   ==
  /\ Unreserve(o)
  /\ quantity' = [s \in Skus |->
       Less(quantity[s], IF Asked(o, s) <= reserved[s] THEN Asked(o, s) ELSE reserved[s])]

(* createOrder commits the order with its reservation ...                  *)
Place(o) ==
  /\ step[o] = "new"
  /\ \A s \in Skus : Asked(o, s) <= Available(s)
  /\ reserved' = [s \in Skus |-> reserved[s] + Asked(o, s)]
  /\ step' = [step EXCEPT ![o] = "holding"]
  /\ UNCHANGED <<quantity, hold, lapsed, stale, counted, heard, payment, locks,
                 undoing, calls, fulfilled, alerted>>

(* ... or throws OUT_OF_STOCK and leaves nothing.                          *)
Decline(o) ==
  /\ step[o] = "new"
  /\ \E s \in Skus : Asked(o, s) > Available(s)
  /\ step' = [step EXCEPT ![o] = "declined"]
  /\ UNCHANGED <<stockVars, heard, payment, locks, undoing, calls, fulfilled, alerted>>

-----------------------------------------------------------------------------
(* Holds over HTTP                                                         *)

(* reserveOrderInventory: one line at a time.                              *)
Ask(o, h) ==
  /\ step[o] = "holding" /\ h \in Lines(o) /\ heard[h] = "todo"
  /\ \A g \in Lines(o) : heard[g] # "asking"
  /\ heard' = [heard EXCEPT ![h] = "asking"]
  /\ UNCHANGED <<stockVars, step, payment, locks, undoing, calls, fulfilled, alerted>>

(* The request reaches inventory-service, perhaps after its sender gave up *)
(* on it.  A cart's request is nobody's line.                              *)
Arrive(h) ==
  /\ OrderOf[h] = NoOrder \/ heard[h] \in {"asking", "open"}
  /\ Lock(h)
  /\ UNCHANGED orderVars

(* 201, and the lock id.                                                   *)
HearTaken(h) ==
  /\ heard[h] = "asking" /\ hold[h] \in OnFile
  /\ step[OrderOf[h]] = "holding"
  /\ heard' = [heard EXCEPT ![h] = "taken"]
  /\ UNCHANGED <<stockVars, step, payment, locks, undoing, calls, fulfilled, alerted>>

(* No answer, or one that is neither 201 nor 409: go on without the hold.  *)
(* Every SKU here is tracked, so the 404 that raises no alert never comes. *)
GiveUp(h) ==
  /\ heard[h] = "asking"
  /\ step[OrderOf[h]] = "holding"
  /\ heard'   = [heard EXCEPT ![h] = "open"]
  /\ alerted' = alerted \cup {h}
  /\ UNCHANGED <<stockVars, step, payment, locks, undoing, calls, fulfilled>>

(* Mutant: the holds of the earlier lines are not given back.              *)
HearRefusedOnly(h) ==
  /\ heard[h] = "asking" /\ hold[h] = "refused"
  /\ step[OrderOf[h]] = "holding"
  /\ heard' = [g \in Holds |-> IF OrderOf[g] = OrderOf[h] /\ heard[g] \in {"taken", "asking"}
                               THEN "returned" ELSE heard[g]]
  /\ step'  = [step EXCEPT ![OrderOf[h]] = "undo"]
  /\ UNCHANGED <<stockVars, payment, locks, undoing, calls, fulfilled, alerted>>

(* 409: the order cannot be fulfilled and is taken back.                   *)
HearRefused(h) ==
  /\ heard[h] = "asking" /\ hold[h] = "refused"
  /\ step[OrderOf[h]] = "holding"
  /\ heard' = [heard EXCEPT ![h] = "returned"]
  /\ step'  = [step EXCEPT ![OrderOf[h]] = "undo"]
  /\ UNCHANGED <<stockVars, payment, locks, undoing, calls, fulfilled, alerted>>

(* Its earlier holds go first, each by a call that may fail on the way     *)
(* there (nothing is done) or on the way back.                             *)
GiveBack(h) ==
  /\ step[OrderOf[h]] = "undo" /\ heard[h] = "taken"
  /\ heard' = [heard EXCEPT ![h] = "returned"]
  /\ \/ Release(h) /\ alerted' \in {alerted, alerted \cup {h}}
     \/ UNCHANGED stockVars /\ alerted' = alerted \cup {h}
  /\ UNCHANGED <<step, payment, locks, undoing, calls, fulfilled>>

(* Then cancelOrder, whose own failure is swallowed.                       *)
Reject(o) ==
  /\ step[o] = "undo"
  /\ \A h \in Lines(o) : heard[h] # "taken"
  /\ step' = [step EXCEPT ![o] = "rejected"]
  /\ Unreserve(o) \/ UNCHANGED reserved
  /\ UNCHANGED <<quantity, hold, lapsed, stale, counted, heard, payment, locks, undoing, calls,
                 fulfilled, alerted>>

(* The lock ids are written on the order, or the write fails and an alert  *)
(* says so.                                                                *)
Persist(o) ==
  LET taken == {h \in Lines(o) : heard[h] = "taken"} IN
  /\ step[o] = "holding"
  /\ \A h \in Lines(o) : heard[h] \in {"taken", "open"}
  /\ step' = [step EXCEPT ![o] = "placed"]
  /\ \/ locks' = [locks EXCEPT ![o] = taken] /\ UNCHANGED alerted
     \/ alerted' = alerted \cup taken /\ UNCHANGED locks
  /\ UNCHANGED <<stockVars, heard, payment, undoing, calls, fulfilled>>

(* The process dies under createOrder, or after a commit with calls left.  *)
Crash(o) ==
  /\ \/ step[o] \in {"holding", "undo"}
     \/ \E c \in calls : c.hold \in Lines(o)
  /\ step'  = [step EXCEPT ![o] = "cut"]
  /\ calls' = {c \in calls : c.hold \notin Lines(o)}
  /\ UNCHANGED <<stockVars, heard, payment, locks, undoing, fulfilled, alerted>>

-----------------------------------------------------------------------------
(* Payment                                                                 *)

(* A buyer pays, and staff see, an order that createOrder committed: after *)
(* a crash, a repeated submit with the same key returns it.                *)
Live(o) == step[o] \in {"placed", "cut"}

Owed(kind, o) == [kind: {kind}, hold: locks[o]]

(* confirmPayment and capturePaymentFromWebhook, under the order's lock.   *)
Capture(o) ==
  /\ Live(o) /\ payment[o] # "paid" /\ fulfilled[o] < MaxCaptures
  /\ payment'   = [payment EXCEPT ![o] = "paid"]
  /\ fulfilled' = [fulfilled EXCEPT ![o] = @ + 1]
  /\ Fulfill(o)
  /\ calls' = calls \cup Owed("confirm", o)
  /\ UNCHANGED <<hold, lapsed, stale, counted, step, heard, locks, undoing, alerted>>

(* confirmPayment told that the charge was declined.                       *)
DeclineCharge(o) ==
  /\ Live(o) /\ payment[o] # "paid"
  /\ payment' = [payment EXCEPT ![o] = "failed"]
  /\ UNCHANGED <<stockVars, step, heard, locks, undoing, calls, fulfilled, alerted>>

(* recordPayment by staff: it asks nothing of the order's state and leaves *)
(* the order's own reservation alone.                                      *)
RecordPayment(o, status) ==
  /\ Live(o)
  /\ payment' = [payment EXCEPT ![o] = "paid"]
  /\ calls'   = IF status = "captured" THEN calls \cup Owed("confirm", o) ELSE calls
  /\ UNCHANGED <<stockVars, step, heard, locks, undoing, fulfilled, alerted>>

(* refundPayment, in full or in part.                                      *)
Refund(o) ==
  /\ Live(o) /\ payment[o] = "paid"
  /\ payment' = [payment EXCEPT ![o] = "refunded"]
  /\ UNCHANGED <<stockVars, step, heard, locks, undoing, calls, fulfilled, alerted>>

(* failPayment, cancelPayment and cancelOrder read the order and decide    *)
(* without a lock, then tell the provider.  They will write what differs   *)
(* from what they read (cancelOrder writes no payment_status).  Only       *)
(* cancelPayment asks whether the order is paid; cancelOrder asks for its  *)
(* status, which staff may set to anything (updateOrderStatus) and the     *)
(* model leaves out.                                                       *)
BeginUndo(o, writes) ==
  /\ Live(o) /\ undoing[o] = "none"
  /\ writes = "voided" => payment[o] # "paid"
  /\ undoing' = [undoing EXCEPT ![o] = IF payment[o] = writes THEN "nothing" ELSE writes]
  /\ UNCHANGED <<stockVars, step, heard, payment, locks, calls, fulfilled, alerted>>

(* Their commit: the reservation is freed and every recorded hold is to go.*)
CommitUndo(o) ==
  /\ undoing[o] # "none"
  /\ payment' = IF undoing[o] = "nothing" THEN payment ELSE [payment EXCEPT ![o] = undoing[o]]
  /\ Unreserve(o)
  /\ calls'   = calls \cup Owed("release", o)
  /\ undoing' = [undoing EXCEPT ![o] = "none"]
  /\ UNCHANGED <<quantity, hold, lapsed, stale, counted, step, heard, locks, fulfilled, alerted>>

(* Mutant: a 409 is taken for an answer like any other.                    *)
CallIgnored(c) ==
  /\ c \in calls
  /\ calls' = calls \ {c}
  /\ \/ /\ IF c.kind = "confirm" THEN Confirm(c.hold) ELSE Release(c.hold)
        /\ alerted' \in {alerted, alerted \cup {c.hold}}
     \/ UNCHANGED stockVars /\ alerted' = alerted \cup {c.hold}
  /\ UNCHANGED <<step, heard, payment, locks, undoing, fulfilled>>

(* One owed call ends: done and answered, done with the answer lost, or    *)
(* not done.  Any answer but success raises an alert.                      *)
Call(c) ==
  /\ c \in calls
  /\ calls' = calls \ {c}
  /\ \/ /\ IF c.kind = "confirm" THEN Confirm(c.hold) ELSE Release(c.hold)
        /\ \/ alerted' = alerted /\ (c.kind = "confirm" => Confirmable(c.hold))
           \/ alerted' = alerted \cup {c.hold}
     \/ UNCHANGED stockVars /\ alerted' = alerted \cup {c.hold}
  /\ UNCHANGED <<step, heard, payment, locks, undoing, fulfilled>>

(* A shopper empties a cart.                                               *)
CartRelease(h) ==
  /\ OrderOf[h] = NoOrder /\ Release(h)
  /\ UNCHANGED orderVars

OrderNext ==
  \/ \E o \in Orders : Place(o) \/ Decline(o) \/ Persist(o) \/ Reject(o) \/ Crash(o)
                         \/ Capture(o) \/ DeclineCharge(o) \/ Refund(o) \/ CommitUndo(o)
  \/ \E o \in Orders, h \in Holds : Ask(o, h)
  \/ \E o \in Orders, status \in {"captured", "authorized"} : RecordPayment(o, status)
  \/ \E o \in Orders, writes \in Undos : BeginUndo(o, writes)
  \/ \E h \in Holds : OrderOf[h] # NoOrder /\
       (HearTaken(h) \/ GiveUp(h) \/ HearRefused(h) \/ GiveBack(h))
  \/ \E h \in Holds : Arrive(h) \/ CartRelease(h)
  \/ \E c \in calls : Call(c)

Next == OrderNext \/ (StockNext /\ UNCHANGED orderVars)
Spec == Init /\ [][Next]_vars

-----------------------------------------------------------------------------
(* Properties                                                              *)

OrderTypeOK ==
  /\ step \in [Orders -> Steps] /\ heard \in [Holds -> Heard]
  /\ payment \in [Orders -> Payments]
  /\ locks \in [Orders -> SUBSET Holds] /\ undoing \in [Orders -> Undos \cup {"none"}]
  /\ calls \subseteq [kind: {"confirm", "release"}, hold: Holds]
  /\ fulfilled \in [Orders -> Nat] /\ alerted \subseteq Holds

TypeOK == StockTypeOK /\ OrderTypeOK

(* Of a SKU that only inventory-service writes, exactly the units of its   *)
(* active holds are reserved: nothing leaks when holds lapse under a sweep,*)
(* are confirmed late or released twice.                                   *)
HoldsBackReserved == \A s \in Skus \ InDb : reserved[s] = Cardinality(HeldUnits(s))

(* A captured order has each line's hold confirmed, or operations know:    *)
(* unless the process died, a hold that lapsed, was refused, released by a *)
(* racing cancellation or never recorded does not go unnoticed.            *)
NoSilentShortfall ==
  \A o \in Orders :
    fulfilled[o] > 0 /\ step[o] # "cut" /\ (\A c \in calls : c.hold \notin Lines(o))
      => \A h \in Lines(o) : hold[h] = "confirmed" \/ h \in alerted

(* An order refused for want of stock keeps no hold of the lines it had    *)
(* already secured, unless operations know.                                *)
RejectedLeavesNothing ==
  \A o \in Orders : step[o] = "rejected" =>
    \A h \in Lines(o) : hold[h] = "active" => h \in alerted

(* Why the two hold: what createOrder knows of a line, what the stock says *)
(* of it, and what is still owed to it, agree line by line.                *)
LineAgrees(o, h) ==
  /\ heard[h] = "todo" => hold[h] = "none"
  /\ heard[h] = "open" => h \in alerted
  /\ heard[h] = "returned" => hold[h] \in Settled \cup {"refused"} \/ h \in alerted
  /\ step[o] \in {"undo", "rejected"} => heard[h] # "asking"
  /\ step[o] = "rejected" => heard[h] # "taken"
  /\ step[o] = "placed" => h \in locks[o] \/ h \in alerted
  /\ fulfilled[o] > 0 /\ step[o] # "cut" =>
       hold[h] = "confirmed" \/ h \in alerted \/ [kind |-> "confirm", hold |-> h] \in calls
OneAsked(o)  == \A g, h \in Lines(o) : heard[g] = "asking" /\ heard[h] = "asking" => g = h
PaidPlaced(o) == fulfilled[o] > 0 => Live(o)
OrderInv == \A o \in Orders : OneAsked(o) /\ PaidPlaced(o) /\ \A h \in Lines(o) : LineAgrees(o, h)

(* The order-row lock makes one capture of an order: what it reserved      *)
(* becomes a deduction once, however often a capture is reported.          *)
FulfilledOnce == \A o \in Orders : fulfilled[o] <= 1
=============================================================================
