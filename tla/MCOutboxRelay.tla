--------------------------- MODULE MCOutboxRelay ----------------------------
(***************************************************************************)
(* Instances of OutboxRelay: two relays on three kinds of rows.            *)
(***************************************************************************)
EXTENDS OutboxRelay, TLC

CONSTANTS a, b, c

(* A state change the bus may refuse, an alert, an unparseable payload.    *)
MixedKinds == a :> "record" @@ b :> "conflict" @@ c :> "garbled"
=============================================================================
