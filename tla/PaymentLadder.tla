--------------------------- MODULE PaymentLadder ----------------------------
(***************************************************************************)
(* What the Payment Consistency Layer promises about one estate of         *)
(* payments (README.md section 1.4 of the package, states.ts), with no     *)
(* transaction, key or lock in sight: a payment climbs the success ladder  *)
(* or fails before it was captured, never moves otherwise, and its journal *)
(* of effects gets exactly one entry for each move and one for each        *)
(* contradiction that was surfaced instead of being applied.               *)
(***************************************************************************)
EXTENDS PaymentLifecycle, Sequences

CONSTANT Payments

VARIABLES
  state,    \* state[p]: where payment p is
  journal   \* journal[p]: the effects p has had, oldest first

(* The edges of the lifecycle diagram.                                     *)
Transitions ==
  {<<"INITIATED", "AUTHORIZED">>, <<"INITIATED", "CAPTURED">>,
   <<"INITIATED", "SETTLED">>,    <<"AUTHORIZED", "CAPTURED">>,
   <<"AUTHORIZED", "SETTLED">>,   <<"CAPTURED", "SETTLED">>,
   <<"INITIATED", "FAILED">>,     <<"AUTHORIZED", "FAILED">>}

(* Money moved and someone says it failed, or it failed and someone says   *)
(* it went through: these are the states a report can contradict.          *)
Contradictable == {"CAPTURED", "SETTLED", "FAILED"}

Entry(effect, from, to) == [type |-> effect, fromState |-> from, toState |-> to]

Init ==
  /\ state   = [p \in Payments |-> "INITIATED"]
  /\ journal = [p \in Payments |-> <<>>]

Move(p, to) ==
  /\ <<state[p], to>> \in Transitions
  /\ state'   = [state EXCEPT ![p] = to]
  /\ journal' = [journal EXCEPT ![p] =
                   Append(@, Entry(EffectForState(to), state[p], to))]

Contradict(p) ==
  /\ state[p] \in Contradictable
  /\ journal' = [journal EXCEPT ![p] =
                   Append(@, Entry("PAYMENT_CONFLICT", state[p], state[p]))]
  /\ UNCHANGED state

Next ==
  \E p \in Payments :
    \/ \E to \in PAYMENT_STATES : Move(p, to)
    \/ Contradict(p)

Spec == Init /\ [][Next]_<<state, journal>>
=============================================================================
