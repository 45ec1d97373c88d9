--------------------------- MODULE CircuitBreaker ---------------------------
(***************************************************************************)
(* The circuit breaker of @baalvion/resilience (circuit-breaker.js).       *)
(*                                                                         *)
(* exec decides synchronously whether a call may start and learns how the  *)
(* call ended whenever its promise settles.  Nothing ties the end of a     *)
(* call to the state it was admitted in: a call may outlive several        *)
(* changes of the breaker's state.                                         *)
(*                                                                         *)
(* A rejected exec changes nothing and is no step here; listeners          *)
(* (onStateChange) are taken not to throw.  Time is abstract: the reset    *)
(* window runs out at any moment after it was set.                         *)
(***************************************************************************)
EXTENDS Naturals, FiniteSets

CONSTANTS
  Callers,           \* concurrent users of the breaker
  FailureThreshold,  \* opts.failureThreshold
  HalfOpenMax        \* opts.halfOpenMax

ASSUME CallersAssumption == IsFiniteSet(Callers)
ASSUME LimitsAssumption  == /\ FailureThreshold \in Nat \ {0}
                            /\ HalfOpenMax \in Nat \ {0}

VARIABLES
  state,           \* _state
  failures,        \* _failures, counted up to the threshold it is compared with
  resetDue,        \* now >= _nextAttempt
  halfOpenActive,  \* _halfOpenActive
  admitted         \* admitted[c]: exec's local state while c's call runs, or "none"

breakerVars == <<state, failures, resetDue, halfOpenActive, admitted>>

States == {"closed", "open", "half_open"}

BreakerInit ==
  /\ state          = "closed"
  /\ failures       = 0
  /\ resetDue       = TRUE
  /\ halfOpenActive = 0
  /\ admitted       = [c \in Callers |-> "none"]

-----------------------------------------------------------------------------
(* exec, up to the call of fn                                              *)

Elapsed == state = "open" /\ resetDue

(* The count of probes exec compares with halfOpenMax: _maybeHalfOpen      *)
(* starts it from zero.                                                    *)
ProbesCounted == IF Elapsed THEN 0 ELSE halfOpenActive

(* Whether exec(fn) calls fn now.                                          *)
Admitting ==
  \/ state = "closed"
  \/ (Elapsed \/ state = "half_open") /\ ProbesCounted < HalfOpenMax

ExecClosed(c) ==
  /\ admitted[c] = "none"
  /\ state = "closed"
  /\ admitted' = [admitted EXCEPT ![c] = "closed"]
  /\ UNCHANGED <<state, failures, resetDue, halfOpenActive>>

ExecProbe(c) ==
  /\ admitted[c] = "none"
  /\ Elapsed \/ state = "half_open"
  /\ ProbesCounted < HalfOpenMax
  /\ state'          = "half_open"
  /\ halfOpenActive' = ProbesCounted + 1
  /\ admitted'       = [admitted EXCEPT ![c] = "half_open"]
  /\ UNCHANGED <<failures, resetDue>>

Exec(c) == ExecClosed(c) \/ ExecProbe(c)

-----------------------------------------------------------------------------
(* The call settles                                                        *)

Return(c) == admitted[c] # "none" /\ admitted' = [admitted EXCEPT ![c] = "none"]

(* _onSuccess: any success in HALF_OPEN closes the circuit.                *)
Succeed(c) ==
  /\ Return(c)
  /\ failures' = 0
  /\ \/ /\ state = "half_open"
        /\ state' = "closed"
        /\ halfOpenActive' = 0
     \/ /\ state # "half_open"
        /\ UNCHANGED <<state, halfOpenActive>>
  /\ UNCHANGED resetDue

(* _onError gives a slot back in HALF_OPEN, whoever the caller is.         *)
FreedProbe ==
  IF state = "half_open" /\ halfOpenActive > 0 THEN halfOpenActive - 1
                                               ELSE halfOpenActive

FailuresCounted == IF failures < FailureThreshold THEN failures + 1 ELSE failures

(* _onError with an error that isFailure: also in OPEN, where it pushes    *)
(* the reset window out again once the count stands at the threshold.      *)
Fail(c) ==
  /\ Return(c)
  /\ failures' = FailuresCounted
  /\ halfOpenActive' = FreedProbe
  /\ IF state = "half_open" \/ FailuresCounted = FailureThreshold
       THEN state' = "open" /\ resetDue' = FALSE
       ELSE UNCHANGED <<state, resetDue>>

(* Mutant: errors that do not count return before the slot is given back.  *)
DismissLeaking(c) ==
  /\ Return(c)
  /\ UNCHANGED <<state, failures, resetDue, halfOpenActive>>

(* _onError with an error that does not count.                             *)
Dismiss(c) ==
  /\ Return(c)
  /\ halfOpenActive' = FreedProbe
  /\ UNCHANGED <<state, failures, resetDue>>

Settle(c) == Succeed(c) \/ Fail(c) \/ Dismiss(c)

(* The clock reaches _nextAttempt.                                         *)
Elapse ==
  /\ ~resetDue
  /\ resetDue' = TRUE
  /\ UNCHANGED <<state, failures, halfOpenActive, admitted>>

BreakerNext == Elapse \/ \E c \in Callers : Exec(c) \/ Settle(c)

BreakerSpec == BreakerInit /\ [][BreakerNext]_breakerVars

-----------------------------------------------------------------------------
(* Properties                                                              *)

(* Every variable keeps its shape, and the count of probes its limit.      *)
BreakerTypeOK ==
  /\ state          \in States
  /\ failures       \in 0 .. FailureThreshold
  /\ resetDue       \in BOOLEAN
  /\ halfOpenActive \in 0 .. HalfOpenMax
  /\ admitted       \in [Callers -> {"none", "closed", "half_open"}]

Probes == {c \in Callers : admitted[c] = "half_open"}

(* No leaked probe slot: while the circuit is half-open, each slot counted *)
(* as taken belongs to a probe that is still running.  A slot nobody will  *)
(* give back would make exec reject every call from then on.               *)
NoLeakedProbe == state = "half_open" => halfOpenActive <= Cardinality(Probes)
=============================================================================
