----------------------- MODULE MCPaymentStateMachine ------------------------
(***************************************************************************)
(* Instances of PaymentStateMachine.  One payment meets the reports that   *)
(* disagree about it; every event may come again and in any order.         *)
(***************************************************************************)
EXTENDS PaymentStateMachine

CONSTANTS p1, p2, t1, t2, site, other

E(p, type, t, attr) ==
  [paymentId |-> p, type |-> type, transactionId |-> t, attr |-> attr]

MCAttributions == {site, other}

(* The spine reports the charge with its attribution, the saga confirms    *)
(* and settles it without, a second producer repeats the charge's key      *)
(* without its attribution, a late webhook and the sweep contradict it.    *)
(* p2 shares the workers.                                                  *)
DisputedEvents ==
  {E(p1, "WEBHOOK_PAYMENT_AUTHORIZED", t1, site),
   E(p1, "WEBHOOK_PAYMENT_SUCCESS",    t1, site),
   E(p1, "SAGA_CONFIRMED",             t1, NoAttr),
   E(p1, "SETTLEMENT_PROCESSED",       t2, NoAttr),
   E(p1, "WEBHOOK_PAYMENT_SUCCESS",    t1, NoAttr),
   E(p1, "WEBHOOK_PAYMENT_FAILED",     t2, site),
   E(p2, "WEBHOOK_PAYMENT_SUCCESS",    t1, site)}
=============================================================================
