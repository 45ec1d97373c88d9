--------------------------- MODULE MCPaymentPanel ---------------------------
(***************************************************************************)
(* Instances of PaymentPanel.  One payment on one site is published out of *)
(* order and repeatedly, next to entries that are not ours or never apply. *)
(***************************************************************************)
EXTENDS PaymentPanel

CONSTANT k1

R(state) == [key |-> k1, state |-> state]

(* A capture overtaken by its authorization.                               *)
CaptureRecords == {R("AUTHORIZED"), R("CAPTURED")}
=============================================================================
