---------------------------- MODULE VendorClient ----------------------------
(***************************************************************************)
(* The HTTP client of the trade integrations (order-execution-service,     *)
(* integrations/_shared/httpClient.js), for the requests to one host: a    *)
(* circuit breaker around a bulkhead around a loop of attempts.            *)
(*                                                                         *)
(* The breaker decides when request is called; a request it admitted may   *)
(* then wait in the bulkhead for as long as the calls before it take, and  *)
(* the breaker learns the outcome of the whole request once.  A request    *)
(* with circuitBreaker: false bypasses both and touches neither.           *)
(*                                                                         *)
(* What the vendor answers is one of "ok", "down" (a timeout, a transport  *)
(* error, a 5xx: isVendorDown) and "refused" (a 4xx, a 429, an oversized   *)
(* body, or BULKHEAD_FULL without asking the vendor).                      *)
(***************************************************************************)
EXTENDS CircuitBreaker, Sequences

CONSTANTS
  MaxConcurrent,     \* BULKHEAD_MAX
  MaxQueue,          \* BULKHEAD_QUEUE
  TotalAttempts      \* 1 + opts.retries

ASSUME ClientAssumption == /\ MaxConcurrent \in Nat \ {0}
                           /\ MaxQueue \in Nat
                           /\ TotalAttempts \in Nat \ {0}

VARIABLES
  phase, active, queue,  \* the host's bulkhead, beside its breaker
  work,     \* work[c]: what c's request awaits, or how it ended
  attempt   \* attempt[c]: the loop's counter

Slots == INSTANCE Bulkhead

bulkheadVars == <<phase, active, queue>>
vars         == <<breakerVars, bulkheadVars, work, attempt>>

Outcomes == {"ok", "down", "refused"}
Works    == {"none", "slot", "fetch", "backoff"} \cup Outcomes

Init ==
  /\ BreakerInit
  /\ Slots!BulkheadInit
  /\ work    = [c \in Callers |-> "none"]
  /\ attempt = [c \in Callers |-> 0]

-----------------------------------------------------------------------------
(* executeWithRetries sends attempt n.                                     *)
Send(c, n) ==
  /\ work'    = [work EXCEPT ![c] = "fetch"]
  /\ attempt' = [attempt EXCEPT ![c] = n]

(* request: the breaker and the bulkhead are asked in one synchronous run, *)
(* up to the first fetch, the wait for a slot or the rejection.            *)
Request(c) ==
  /\ work[c] = "none"
  /\ Exec(c)
  /\ \/ Slots!Enter(c) /\ Send(c, 1)
     \/ /\ Slots!Wait(c)
        /\ work' = [work EXCEPT ![c] = "slot"]
        /\ UNCHANGED attempt
     \/ /\ Slots!Full
        /\ work' = [work EXCEPT ![c] = "refused"]
        /\ UNCHANGED <<bulkheadVars, attempt>>

(* The slot arrives: the first attempt.                                    *)
Resume(c) ==
  /\ Slots!Resume(c)
  /\ Send(c, 1)
  /\ UNCHANGED breakerVars

(* An answer worth a retry, within the budget: sleep.                      *)
Retry(c) ==
  /\ work[c] = "fetch"
  /\ attempt[c] < TotalAttempts
  /\ work' = [work EXCEPT ![c] = "backoff"]
  /\ UNCHANGED <<breakerVars, bulkheadVars, attempt>>

(* The backoff is over.                                                    *)
SendAgain(c) ==
  /\ work[c] = "backoff"
  /\ Send(c, attempt[c] + 1)
  /\ UNCHANGED <<breakerVars, bulkheadVars>>

(* The last answer: the bulkhead releases the slot.                        *)
Answer(c, outcome) ==
  /\ work[c] = "fetch"
  /\ Slots!Finish(c)
  /\ work' = [work EXCEPT ![c] = outcome]
  /\ UNCHANGED <<breakerVars, attempt>>

(* Mutant: isFailure is left at its default, which counts every error.     *)
ReportEveryError(c) ==
  /\ \/ work[c] = "ok"                 /\ Succeed(c)
     \/ work[c] \in {"down", "refused"} /\ Fail(c)
  /\ work'    = [work EXCEPT ![c] = "none"]
  /\ attempt' = [attempt EXCEPT ![c] = 0]
  /\ UNCHANGED bulkheadVars

(* The breaker hears of it.                                                *)
Report(c) ==
  /\ \/ work[c] = "ok"      /\ Succeed(c)
     \/ work[c] = "down"    /\ Fail(c)
     \/ work[c] = "refused" /\ Dismiss(c)
  /\ work'    = [work EXCEPT ![c] = "none"]
  /\ attempt' = [attempt EXCEPT ![c] = 0]
  /\ UNCHANGED bulkheadVars

WindowPasses == Elapse /\ UNCHANGED <<bulkheadVars, work, attempt>>

Proceed(c) ==
  \/ Resume(c)
  \/ Retry(c) \/ SendAgain(c)
  \/ \E outcome \in Outcomes : Answer(c, outcome)
  \/ Report(c)

Next == WindowPasses \/ \E c \in Callers : Request(c) \/ Proceed(c)

Spec == Init /\ [][Next]_vars

(* Each attempt has a deadline, timers fire and microtasks run; nobody has *)
(* to send another request.                                                *)
Fairness == WF_vars(WindowPasses) /\ \A c \in Callers : WF_vars(Proceed(c))

FairSpec == Spec /\ Fairness

-----------------------------------------------------------------------------
(* Properties                                                              *)

(* Every variable keeps its shape, and the three layers agree on where     *)
(* each request is: what was shed holds no slot, what waits is admitted.   *)
TypeOK ==
  /\ BreakerTypeOK
  /\ Slots!BulkheadTypeOK
  /\ work    \in [Callers -> Works]
  /\ attempt \in [Callers -> 0 .. TotalAttempts]
  /\ \A c \in Callers :
       /\ admitted[c] = "none" <=> work[c] = "none"
       /\ phase[c] = "running" <=> work[c] \in {"fetch", "backoff"}
       /\ phase[c] \in {"queued", "granted"} <=> work[c] = "slot"

(* At most MaxConcurrent requests are at the vendor, and no probe slot of  *)
(* the breaker is lost on the way through the bulkhead, shed probes        *)
(* included.                                                               *)
LayersAccounted == Slots!SlotsAccounted /\ NoLeakedProbe

(* "A 4xx or 429 never trips the breaker": the circuit only opens on the   *)
(* outcome of a request that found the vendor down.                        *)
OnlyDownTrips ==
  [][state # "open" /\ state' = "open" =>
       \E c \in Callers : work[c] = "down" /\ work'[c] = "none"]_vars

(* The two layers do not block each other: however probes queue behind     *)
(* older requests or are shed, a request will be admitted again.           *)
HostAdmitsAgain == []<>Admitting

(* A request ends, whether it waited for a slot or not.                    *)
EveryRequestEnds == \A c \in Callers : work[c] # "none" ~> work[c] = "none"
=============================================================================
