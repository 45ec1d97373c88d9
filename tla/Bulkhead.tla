------------------------------ MODULE Bulkhead ------------------------------
(***************************************************************************)
(* The bulkhead of @baalvion/resilience (bulkhead.js): at most             *)
(* maxConcurrent calls run, at most maxQueue wait, in order of arrival.    *)
(*                                                                         *)
(* A call that ends hands its slot to the first waiter without lowering    *)
(* _active; the waiter only continues in a later microtask, and in between *)
(* the slot belongs to a call that is not running yet.  A waiter whose     *)
(* signal aborts leaves the queue.  A shed call changes nothing and is no  *)
(* step here, and neither is one whose signal is aborted on arrival.       *)
(***************************************************************************)
EXTENDS Naturals, Sequences, FiniteSets

CONSTANTS
  Callers,        \* concurrent users of the bulkhead
  MaxConcurrent,  \* opts.maxConcurrent
  MaxQueue        \* opts.maxQueue; at least Callers' number stands for Infinity

ASSUME CallersAssumption  == IsFiniteSet(Callers)
ASSUME CapacityAssumption == MaxConcurrent \in Nat \ {0} /\ MaxQueue \in Nat

VARIABLES
  phase,   \* phase[c]: where in exec the call of c is
  active,  \* _active
  queue    \* _queue

bulkheadVars == <<phase, active, queue>>

Phases == {"out", "queued", "granted", "running"}

BulkheadInit ==
  /\ phase  = [c \in Callers |-> "out"]
  /\ active = 0
  /\ queue  = <<>>

-----------------------------------------------------------------------------
(* A slot is free: fn is called at once.                                   *)
Enter(c) ==
  /\ phase[c] = "out"
  /\ active < MaxConcurrent
  /\ active' = active + 1
  /\ phase'  = [phase EXCEPT ![c] = "running"]
  /\ UNCHANGED queue

(* No slot is free, but a place in the waiting room: _waitForSlot.         *)
Wait(c) ==
  /\ phase[c] = "out"
  /\ active >= MaxConcurrent
  /\ Len(queue) < MaxQueue
  /\ queue' = Append(queue, c)
  /\ phase' = [phase EXCEPT ![c] = "queued"]
  /\ UNCHANGED active

(* Neither: BulkheadFullError.                                             *)
Full == active >= MaxConcurrent /\ Len(queue) >= MaxQueue

(* _queue.splice(i, 1)                                                     *)
Splice(q, i) == [j \in 1 .. Len(q) - 1 |-> IF j < i THEN q[j] ELSE q[j + 1]]

(* Mutant: the aborted entry stays in the queue.                           *)
AbortInPlace(c) ==
  /\ phase[c] = "queued"
  /\ \E i \in 1 .. Len(queue) : queue[i] = c
  /\ phase' = [phase EXCEPT ![c] = "out"]
  /\ UNCHANGED <<active, queue>>

(* onAbort: the waiter leaves the queue.  The listener is gone once the    *)
(* slot has been handed over, so a granted call can no longer abort.       *)
Abort(c) ==
  /\ phase[c] = "queued"
  /\ \E i \in 1 .. Len(queue) : queue[i] = c /\ queue' = Splice(queue, i)
  /\ phase' = [phase EXCEPT ![c] = "out"]
  /\ UNCHANGED active

(* The promise of _waitForSlot has resolved: fn is called.                 *)
Resume(c) ==
  /\ phase[c] = "granted"
  /\ phase' = [phase EXCEPT ![c] = "running"]
  /\ UNCHANGED <<active, queue>>

(* Mutant: the slot is freed, but nobody in the queue is told.             *)
FinishSilently(c) ==
  /\ phase[c] = "running"
  /\ active' = active - 1
  /\ phase'  = [phase EXCEPT ![c] = "out"]
  /\ UNCHANGED queue

(* Mutant: the slot is handed over and freed as well.                      *)
FinishFreeing(c) ==
  /\ phase[c] = "running"
  /\ active' = active - 1
  /\ \/ /\ queue = <<>>
        /\ phase' = [phase EXCEPT ![c] = "out"]
        /\ UNCHANGED queue
     \/ /\ queue # <<>>
        /\ queue' = Tail(queue)
        /\ phase' = [phase EXCEPT ![c] = "out", ![Head(queue)] = "granted"]

(* fn has settled: _release frees the slot or hands it to the first waiter.*)
Finish(c) ==
  /\ phase[c] = "running"
  /\ \/ /\ queue = <<>>
        /\ active' = active - 1
        /\ phase'  = [phase EXCEPT ![c] = "out"]
        /\ UNCHANGED queue
     \/ /\ queue # <<>>
        /\ queue' = Tail(queue)
        /\ phase' = [phase EXCEPT ![c] = "out", ![Head(queue)] = "granted"]
        /\ UNCHANGED active

Arrive(c) == Enter(c) \/ Wait(c)

BulkheadNext ==
  \E c \in Callers : Arrive(c) \/ Abort(c) \/ Resume(c) \/ Finish(c)

BulkheadSpec == BulkheadInit /\ [][BulkheadNext]_bulkheadVars

(* Microtasks run and every wrapped operation settles.                     *)
BulkheadFairness ==
  \A c \in Callers : WF_bulkheadVars(Resume(c)) /\ WF_bulkheadVars(Finish(c))

BulkheadFairSpec == BulkheadSpec /\ BulkheadFairness

-----------------------------------------------------------------------------
(* Properties                                                              *)

(* Every variable keeps its shape.                                         *)
BulkheadTypeOK ==
  /\ phase  \in [Callers -> Phases]
  /\ active \in 0 .. MaxConcurrent
  /\ queue  \in Seq(Callers)

Holders == {c \in Callers : phase[c] \in {"granted", "running"}}

(* No slot is lost or minted: the count is that of the calls that run or   *)
(* are about to, also between the hand-over of a slot and the microtask in *)
(* which its new owner continues; so at most maxConcurrent calls run.      *)
SlotsAccounted ==
  active = Cardinality(Holders) /\ Cardinality(Holders) <= MaxConcurrent

(* The queue holds exactly the calls that wait, once each, and within its  *)
(* limit: a slot is never handed to a call that has gone.                  *)
QueueHoldsWaiters ==
  /\ \A i \in 1 .. Len(queue) : phase[queue[i]] = "queued"
  /\ \A c \in Callers : phase[c] = "queued" => \E i \in 1 .. Len(queue) : queue[i] = c
  /\ \A i, j \in 1 .. Len(queue) : queue[i] = queue[j] => i = j
  /\ Len(queue) <= MaxQueue

(* Nobody waits beside a free slot.                                        *)
NoIdleSlot == queue # <<>> => active = MaxConcurrent

(* Every waiter gets its slot, or leaves.                                  *)
EveryWaiterLeaves == \A c \in Callers : phase[c] = "queued" ~> phase[c] # "queued"
=============================================================================
