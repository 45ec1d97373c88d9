-------------------------- MODULE PaymentLifecycle --------------------------
(***************************************************************************)
(* The canonical payment vocabulary of @baalvion/payment-consistency and   *)
(* its pure decision function: states.ts, events.ts and decide.ts.         *)
(*                                                                         *)
(*   INITIATED -> AUTHORIZED -> CAPTURED -> SETTLED   the success ladder   *)
(*   INITIATED, AUTHORIZED -> FAILED                  the side terminal    *)
(*                                                                         *)
(* No variables: every module of the payment path reads its definitions.   *)
(***************************************************************************)
EXTENDS Naturals

PAYMENT_STATES == {"INITIATED", "AUTHORIZED", "CAPTURED", "SETTLED", "FAILED"}

TERMINAL_STATES == {"SETTLED", "FAILED"}

IsTerminal(state) == state \in TERMINAL_STATES

(* Rank on the success ladder.  FAILED is off the ladder, RankOf is only   *)
(* meaningful on LADDER (the code returns null for FAILED).                *)
LADDER == PAYMENT_STATES \ {"FAILED"}

RankOf(state) ==
  CASE state = "INITIATED"  -> 0
    [] state = "AUTHORIZED" -> 1
    [] state = "CAPTURED"   -> 2
    [] state = "SETTLED"    -> 3
    [] OTHER                -> 0

-----------------------------------------------------------------------------
(* What an adapter can assert; several types share one intent, and an      *)
(* intent is the state it claims the payment is in.                        *)

InitiateTypes  == {"PAYMENT_INITIATED"}
AuthorizeTypes == {"WEBHOOK_PAYMENT_AUTHORIZED", "GATEWAY_AUTHORIZED"}
CaptureTypes   == {"WEBHOOK_PAYMENT_SUCCESS", "GATEWAY_CAPTURED",
                   "SAGA_CONFIRMED", "RECON_CAPTURED"}
SettleTypes    == {"GATEWAY_SETTLED", "SETTLEMENT_PROCESSED"}
FailTypes      == {"WEBHOOK_PAYMENT_FAILED", "PAYMENT_FAILED", "RECON_FAILED"}

PAYMENT_EVENT_TYPES ==
  InitiateTypes \cup AuthorizeTypes \cup CaptureTypes \cup SettleTypes
    \cup FailTypes

TargetStateOf(type) ==
  CASE type \in InitiateTypes  -> "INITIATED"
    [] type \in AuthorizeTypes -> "AUTHORIZED"
    [] type \in CaptureTypes   -> "CAPTURED"
    [] type \in SettleTypes    -> "SETTLED"
    [] OTHER                   -> "FAILED"

-----------------------------------------------------------------------------
(* decide(current, event): apply, noop or conflict.                        *)

PAYMENT_EFFECTS == {"PAYMENT_AUTHORIZED", "PAYMENT_CAPTURED",
                    "PAYMENT_SETTLED", "PAYMENT_FAILED", "PAYMENT_CONFLICT"}

(* Arriving at INITIATED has no effect; decide never applies it, because   *)
(* nothing ranks below it.                                                 *)
EffectForState(state) ==
  CASE state = "AUTHORIZED" -> "PAYMENT_AUTHORIZED"
    [] state = "CAPTURED"   -> "PAYMENT_CAPTURED"
    [] state = "SETTLED"    -> "PAYMENT_SETTLED"
    [] OTHER                -> "PAYMENT_FAILED"

IsContradiction(current, target) ==
  \/ current = "FAILED"  /\ target \in {"AUTHORIZED", "CAPTURED", "SETTLED"}
  \/ current = "SETTLED" /\ target = "FAILED"

(* Mutant: a failure reported after CAPTURED is ignored, not surfaced.     *)
ConflictsOnTerminalOnly(current, target) ==
  IsTerminal(current) /\ IsContradiction(current, target)

(* The three outcomes of decide as predicates over (current, target).      *)
Conflicts(current, target) ==
  \/ IsTerminal(current) /\ IsContradiction(current, target)
  \/ current = "CAPTURED" /\ target = "FAILED"

Advances(current, target) ==
  /\ ~IsTerminal(current)
  /\ IF target = "FAILED"
       THEN current # "CAPTURED"
       ELSE RankOf(target) > RankOf(current)

Decide(current, type) ==
  LET target == TargetStateOf(type) IN
    CASE Conflicts(current, target) -> "conflict"
      [] Advances(current, target)  -> "apply"
      [] OTHER                      -> "noop"
=============================================================================
