------------------------- MODULE MCPaymentPipeline --------------------------
(***************************************************************************)
(* Instances of PaymentPipeline.                                           *)
(***************************************************************************)
EXTENDS PaymentPipeline

CONSTANTS p1, s1, alert

At(site, to) == [payment |-> p1, site |-> site, state |-> to]

(* A payment that is authorized and fails, or is captured by a report that *)
(* names no site, and one contradiction.                                   *)
SomeChanges == {At(s1, "AUTHORIZED"), At(s1, "FAILED"), At(NoSite, "CAPTURED")}
SomeRecords == {RecordOf(row) : row \in {At(s1, "AUTHORIZED"), At(s1, "FAILED")}}
OneKey      == {<<p1, s1>>}
=============================================================================
