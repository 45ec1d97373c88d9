--------------------------- MODULE MCOutboxHealth ---------------------------
(***************************************************************************)
(* Instances of OutboxHealth: one relay and two overlapping checks.        *)
(***************************************************************************)
EXTENDS OutboxHealth, TLC

CONSTANTS a, b, c

(* A record the bus may refuse, a row that cannot even be parsed, and an   *)
(* envelope nobody can attribute.                                          *)
RecordAndPoison == a :> "record" @@ b :> "garbled" @@ c :> "unattributed"
=============================================================================
