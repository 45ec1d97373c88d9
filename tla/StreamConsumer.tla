--------------------------- MODULE StreamConsumer ---------------------------
(***************************************************************************)
(* A durable subscription of the Redis Streams event bus (packages/events, *)
(* broker.ts, subscribe): one consumer group, one consumer per pod.  The   *)
(* services reach it through @baalvion/sdk.                                *)
(*                                                                         *)
(* A pod reclaims once, when it subscribes, and then reads new entries.    *)
(* An entry whose handler fails stays pending and is not offered again     *)
(* until some pod subscribes at least 30 s later.                          *)
(*                                                                         *)
(* The stream and the group are taken to exist; entries are numbered in    *)
(* the order of their ids.  Time is abstract: an entry may have been idle  *)
(* for 30 s at any moment after its delivery, also while a slow handler is *)
(* still at work on it.                                                    *)
(***************************************************************************)
EXTENDS Naturals, FiniteSets

CONSTANTS
  Pods,
  Length,     \* bound: entries published
  Mine,       \* entries whose type matches the pattern
  Poison,     \* those of Mine whose handler fails every time
  Count,      \* COUNT of XREADGROUP and XAUTOCLAIM, 20 in the code
  MaxFaults   \* bound: failed handlers and calls, crashes in mid-batch

ASSUME StreamAssumption == /\ Length \in Nat /\ Count \in Nat \ {0} /\ MaxFaults \in Nat
                           /\ Mine \subseteq 1 .. Length /\ Poison \subseteq Mine

VARIABLES
  last,      \* entries 1 .. last are in the stream
  cursor,    \* the group's last-delivered-id
  pending,   \* the group's pending entries list
  idle,      \* pending entries not delivered or claimed for 30 s
  pc,        \* pc[p]: "down", "reclaim", "read", or what it does to its batch
  batch,     \* batch[p]: entries p received and is not through with
  handled,   \* entries whose handler has completed
  acked,     \* entries XACKed
  faults

group  == <<last, cursor, pending, idle>>
vars   == <<group, pc, batch, handled, acked, faults>>

Entries == 1 .. Length

Init ==
  /\ last    = 0
  /\ cursor  = 0
  /\ pending = {}
  /\ idle    = {}
  /\ pc      = [p \in Pods |-> "down"]
  /\ batch   = [p \in Pods |-> {}]
  /\ handled = {}
  /\ acked   = {}
  /\ faults  = 0

-----------------------------------------------------------------------------
Publish ==
  /\ last < Length
  /\ last' = last + 1
  /\ UNCHANGED <<cursor, pending, idle, pc, batch, handled, acked, faults>>

Idle(e) ==
  /\ e \in pending \ idle
  /\ idle' = idle \cup {e}
  /\ UNCHANGED <<last, cursor, pending, pc, batch, handled, acked, faults>>

Fault == faults < MaxFaults /\ faults' = faults + 1

(* p goes through its entries in the order of their ids, which is that of  *)
(* Redis' answers.                                                         *)
Current(p, e) == e \in batch[p] /\ \A f \in batch[p] : e <= f

(* What p does with the entries it holds next; the loop reads once they    *)
(* are through.                                                            *)
Turn(p, entries) ==
  /\ batch' = [batch EXCEPT ![p] = entries]
  /\ pc'    = [pc EXCEPT ![p] = IF entries = {} THEN "read" ELSE "handle"]

-----------------------------------------------------------------------------
(* Receiving                                                               *)

(* Mutant: a pod goes straight to the loop.                                *)
SubscribeWithoutReclaim(p) ==
  /\ pc[p] = "down"
  /\ pc' = [pc EXCEPT ![p] = "read"]
  /\ UNCHANGED <<group, batch, handled, acked, faults>>

Subscribe(p) ==
  /\ pc[p] = "down"
  /\ pc' = [pc EXCEPT ![p] = "reclaim"]
  /\ UNCHANGED <<group, batch, handled, acked, faults>>

(* XAUTOCLAIM from 0-0: the oldest Count pending entries that are idle.    *)
Reclaimable == {e \in idle : Cardinality({f \in idle : f < e}) < Count}

Reclaim(p) ==
  /\ pc[p] = "reclaim"
  /\ idle' = idle \ Reclaimable
  /\ Turn(p, Reclaimable)
  /\ UNCHANGED <<last, cursor, pending, handled, acked, faults>>

(* The call fails, before or after Redis has claimed: no second reclaim.   *)
ReclaimFails(p) ==
  /\ pc[p] = "reclaim"
  /\ Fault
  /\ idle' \in {idle, idle \ Reclaimable}
  /\ Turn(p, {})
  /\ UNCHANGED <<last, cursor, pending, handled, acked>>

(* XREADGROUP '>': what is new, up to Count.                               *)
Fresh == {e \in cursor + 1 .. last : e <= cursor + Count}

Deliver ==
  /\ \E e \in Fresh : cursor' = e /\ \A f \in Fresh : f <= e
  /\ pending' = pending \cup Fresh

Read(p) ==
  /\ pc[p] = "read"
  /\ Deliver
  /\ Turn(p, Fresh)
  /\ UNCHANGED <<last, idle, handled, acked, faults>>

(* Redis delivers and the connection breaks: the loop carries on with '>'. *)
ReadLost(p) ==
  /\ pc[p] = "read"
  /\ Fault
  /\ Deliver
  /\ UNCHANGED <<last, idle, pc, batch, handled, acked>>

-----------------------------------------------------------------------------
(* handleMsg                                                               *)

(* XACK.                                                                   *)
Xack(e) ==
  /\ acked'   = acked \cup {e}
  /\ pending' = pending \ {e}
  /\ idle'    = idle \ {e}

(* Its answer is lost, or the call is.                                     *)
XackFails(e) ==
  /\ Fault
  /\ Xack(e) \/ UNCHANGED <<acked, pending, idle>>

(* An entry of another pattern is acked at once.                           *)
Skip(p, e) ==
  /\ pc[p] = "handle"
  /\ Current(p, e) /\ e \notin Mine
  /\ Xack(e)
  /\ Turn(p, batch[p] \ {e})
  /\ UNCHANGED <<last, cursor, handled, faults>>

(* That ack stands outside the try: its failure abandons the whole batch.  *)
SkipFails(p, e) ==
  /\ pc[p] = "handle"
  /\ Current(p, e) /\ e \notin Mine
  /\ XackFails(e)
  /\ Turn(p, {})
  /\ UNCHANGED <<last, cursor, handled>>

(* Mutant: the handler is not awaited.                                     *)
HandleNotAwaited(p, e) ==
  /\ pc[p] = "handle"
  /\ Current(p, e) /\ e \in Mine
  /\ handled' \in {handled, handled \cup {e}}
  /\ pc'      = [pc EXCEPT ![p] = "ack"]
  /\ UNCHANGED <<group, batch, acked, faults>>

Handle(p, e) ==
  /\ pc[p] = "handle"
  /\ Current(p, e) /\ e \in Mine \ Poison
  /\ handled' = handled \cup {e}
  /\ pc'      = [pc EXCEPT ![p] = "ack"]
  /\ UNCHANGED <<group, batch, acked, faults>>

(* Logged, left pending; the loop goes on with the next entry.             *)
HandlerFails(p, e) ==
  /\ pc[p] = "handle"
  /\ Current(p, e)
  /\ \/ e \in Mine \ Poison /\ Fault
     \/ e \in Poison /\ UNCHANGED faults
  /\ Turn(p, batch[p] \ {e})
  /\ UNCHANGED <<group, handled, acked>>

Ack(p, e) ==
  /\ pc[p] = "ack" /\ Current(p, e)
  /\ Xack(e)
  /\ Turn(p, batch[p] \ {e})
  /\ UNCHANGED <<last, cursor, handled, faults>>

AckFails(p, e) ==
  /\ pc[p] = "ack" /\ Current(p, e)
  /\ XackFails(e)
  /\ Turn(p, batch[p] \ {e})
  /\ UNCHANGED <<last, cursor, handled>>

-----------------------------------------------------------------------------
(* The pod goes away: between two batches, or in the middle of one.        *)
Stop(p) ==
  /\ pc[p] = "read"
  /\ pc' = [pc EXCEPT ![p] = "down"]
  /\ UNCHANGED <<group, batch, handled, acked, faults>>

Crash(p) ==
  /\ pc[p] \in {"handle", "ack"}
  /\ Fault
  /\ pc'    = [pc EXCEPT ![p] = "down"]
  /\ batch' = [batch EXCEPT ![p] = {}]
  /\ UNCHANGED <<group, handled, acked>>

Work(p) ==
  \/ Reclaim(p) \/ Read(p)
  \/ \E e \in Entries : Skip(p, e) \/ Handle(p, e) \/ HandlerFails(p, e) \/ Ack(p, e)

Break(p) ==
  \/ ReclaimFails(p) \/ ReadLost(p) \/ Crash(p)
  \/ \E e \in Entries : SkipFails(p, e) \/ AckFails(p, e)

Next ==
  \/ Publish
  \/ \E e \in Entries : Idle(e)
  \/ \E p \in Pods : Subscribe(p) \/ Work(p) \/ Break(p) \/ Stop(p)

Spec == Init /\ [][Next]_vars

(* Awaited calls settle and clocks advance.  Pods are replaced again and   *)
(* again (deployments, evictions), since nothing else makes a pod reclaim, *)
(* but not always before they have read anything.                          *)
Fairness ==
  /\ \A e \in Entries : WF_vars(Idle(e))
  /\ \A p \in Pods : /\ WF_vars(Work(p)) /\ SF_vars(Read(p))
                      /\ WF_vars(Subscribe(p)) /\ WF_vars(Stop(p))

FairSpec == Spec /\ Fairness

-----------------------------------------------------------------------------
(* Properties                                                              *)

(* No silent loss: an entry of this pattern only leaves the pending list   *)
(* once its handler has completed, however pods, reclaims and slow         *)
(* handlers overlap.                                                       *)
AckedWasHandled == acked \cap Mine \subseteq handled

(* All of the above is a durable group: entries are handed out in order,   *)
(* and what is settled was handled, or was not of this pattern.            *)
Promise == INSTANCE DurableGroup WITH
  Exempt    <- Entries \ Mine,
  published <- last,
  delivered <- cursor,
  settled   <- acked

ImplementsGroup == Promise!GroupSpec

(* "A pod restart doesn't strand them": whatever failed handlers, lost     *)
(* answers, abandoned batches and crashes left pending is handled after    *)
(* enough restarts, and poison entries do not keep the reclaim from the    *)
(* entries behind them as long as they are fewer than one reclaim takes.   *)
RestartsDrain ==
  \A e \in Entries \ Poison : last >= e ~> e \in acked
=============================================================================
