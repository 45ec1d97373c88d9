----------------------- MODULE StreamConsumer_proofs ------------------------
(***************************************************************************)
(* Proofs about StreamConsumer, for any pods, entries and batch size: the  *)
(* subscription is a DurableGroup.                                         *)
(*                                                                         *)
(* The heart of it is Handled below: a pod about to ack has completed the  *)
(* handler of the very entry it acks.  Other pods may have claimed, acked  *)
(* or handled that entry meanwhile; none of them can undo a handler.       *)
(***************************************************************************)
EXTENDS StreamConsumer, TLAPS

TypeOK ==
  /\ last \in 0 .. Length /\ cursor \in 0 .. last
  /\ pc \in [Pods -> {"down", "reclaim", "read", "handle", "ack"}]
  /\ batch \in [Pods -> SUBSET (1 .. cursor)]
  /\ pending \subseteq 1 .. cursor /\ idle \subseteq pending
  /\ acked \subseteq 1 .. cursor

(* A pod has entries exactly while it works on them, and the one it is     *)
(* about to ack was handled.                                               *)
Working == \A p \in Pods : pc[p] \in {"handle", "ack"} <=> batch[p] # {}
Handled == \A p \in Pods : pc[p] = "ack" => \A e \in batch[p] : Current(p, e) => e \in handled

(* No entry falls out of the group: what was delivered and not acked is    *)
(* pending, for some reclaim to find.                                      *)
NothingForgotten == pending = (1 .. cursor) \ acked

GroupInv == TypeOK /\ Working /\ Handled /\ NothingForgotten /\ AckedWasHandled

-----------------------------------------------------------------------------
LEMMA FreshFacts ==
  ASSUME last \in Nat, cursor \in Nat, cursor <= last
  PROVE  \A e \in Fresh : e \in Nat /\ cursor < e /\ e <= last
  BY DEF Fresh

(* The cursor only ever moves past entries that become pending.            *)
LEMMA Delivered ==
  ASSUME TypeOK, Deliver
  PROVE  /\ cursor' \in Nat /\ cursor < cursor' /\ cursor' <= last
         /\ Fresh \subseteq 1 .. cursor' /\ 1 .. cursor' = (1 .. cursor) \cup Fresh
<1>1. last \in Nat /\ cursor \in Nat /\ cursor <= last /\ Count \in Nat
  BY StreamAssumption DEF TypeOK
<1>2. PICK top \in Fresh : cursor' = top /\ \A f \in Fresh : f <= top
  BY DEF Deliver
<1>3. \A e \in Fresh : e \in Nat /\ cursor < e /\ e <= last
  BY <1>1, FreshFacts
<1>4. top \in Nat /\ cursor < top /\ top <= last /\ top <= cursor + Count
  BY <1>3 DEF Fresh
<1>5. \A e \in cursor + 1 .. top : e \in Fresh
  BY <1>1, <1>4 DEF Fresh
<1>6. 1 .. top = (1 .. cursor) \cup Fresh
  <2>1. ASSUME NEW e \in 1 .. top PROVE e \in (1 .. cursor) \cup Fresh
    <3>1. e \in 1 .. cursor \/ e \in cursor + 1 .. top
      BY <1>1, <1>4
    <3>2. QED
      BY <1>5, <3>1
  <2>2. ASSUME NEW e \in Fresh PROVE e \in 1 .. top
    <3>1. e \in Nat /\ cursor < e /\ e <= top
      BY <1>2, <1>3
    <3>2. QED
      BY <1>1, <1>4, <3>1
  <2>3. 1 .. cursor \subseteq 1 .. top
    BY <1>1, <1>4
  <2>4. QED
    BY <2>1, <2>2, <2>3
<1>7. QED
  BY <1>2, <1>4, <1>6

(* p turns to entries that were delivered before.                          *)
LEMMA TurnKeeps ==
  ASSUME GroupInv, NEW p \in Pods, NEW entries \in SUBSET (1 .. cursor), Turn(p, entries),
         handled \subseteq handled', UNCHANGED cursor
  PROVE  /\ pc' \in [Pods -> {"down", "reclaim", "read", "handle", "ack"}]
         /\ batch' \in [Pods -> SUBSET (1 .. cursor)]
         /\ Working' /\ Handled'
<1>1. /\ pc \in [Pods -> {"down", "reclaim", "read", "handle", "ack"}]
      /\ batch \in [Pods -> SUBSET (1 .. cursor)] /\ Working /\ Handled
  BY DEF GroupInv, TypeOK
<1>2. /\ pc' \in [Pods -> {"down", "reclaim", "read", "handle", "ack"}]
      /\ batch' \in [Pods -> SUBSET (1 .. cursor)]
      /\ batch'[p] = entries /\ pc'[p] = IF entries = {} THEN "read" ELSE "handle"
      /\ \A q \in Pods \ {p} : pc'[q] = pc[q] /\ batch'[q] = batch[q]
  BY <1>1 DEF Turn
<1>3. Working'
  BY <1>1, <1>2 DEF Working
<1>4. Handled'
  BY <1>1, <1>2 DEF Handled, Current
<1>5. QED
  BY <1>2, <1>3, <1>4

(* p goes elsewhere without entries.                                       *)
LEMMA MoveKeeps ==
  ASSUME GroupInv, NEW p \in Pods, NEW where \in {"down", "reclaim", "read"},
         pc' = [pc EXCEPT ![p] = where],
         batch' = [batch EXCEPT ![p] = {}] \/ (batch' = batch /\ batch[p] = {}),
         handled' = handled
  PROVE  /\ pc' \in [Pods -> {"down", "reclaim", "read", "handle", "ack"}]
         /\ batch' \in [Pods -> SUBSET (1 .. cursor)]
         /\ Working' /\ Handled'
<1>1. /\ pc \in [Pods -> {"down", "reclaim", "read", "handle", "ack"}]
      /\ batch \in [Pods -> SUBSET (1 .. cursor)] /\ Working /\ Handled
  BY DEF GroupInv, TypeOK
<1>2. /\ pc' \in [Pods -> {"down", "reclaim", "read", "handle", "ack"}]
      /\ batch' \in [Pods -> SUBSET (1 .. cursor)]
      /\ batch'[p] = {} /\ pc'[p] = where
      /\ \A q \in Pods \ {p} : pc'[q] = pc[q] /\ batch'[q] = batch[q]
  BY <1>1
<1>3. Working'
  BY <1>1, <1>2 DEF Working
<1>4. Handled'
  BY <1>1, <1>2 DEF Handled, Current
<1>5. QED
  BY <1>2, <1>3, <1>4

(* An ack of an entry that was handled, or is of another pattern.          *)
LEMMA XackKeeps ==
  ASSUME GroupInv, NEW e \in 1 .. cursor, Xack(e), e \in handled \/ e \notin Mine,
         handled' = handled, UNCHANGED cursor
  PROVE  /\ pending' \subseteq 1 .. cursor' /\ idle' \subseteq pending'
         /\ acked' \subseteq 1 .. cursor' /\ NothingForgotten' /\ AckedWasHandled'
  BY DEF Xack, GroupInv, TypeOK, NothingForgotten, AckedWasHandled

-----------------------------------------------------------------------------
LEMMA GroupInvInit == Init => GroupInv
  BY StreamAssumption DEF Init, GroupInv, TypeOK, Working, Handled, NothingForgotten, AckedWasHandled

LEMMA ReceiveKeepsInv ==
  ASSUME GroupInv, NEW p \in Pods, Reclaim(p) \/ ReclaimFails(p) \/ Read(p) \/ ReadLost(p)
  PROVE  GroupInv'
<1>1. CASE Reclaim(p) \/ ReclaimFails(p)
  <2>1. PICK entries \in SUBSET (1 .. cursor) : Turn(p, entries)
    BY <1>1 DEF Reclaim, ReclaimFails, Reclaimable, GroupInv, TypeOK
  <2>2. UNCHANGED <<last, cursor, pending, handled, acked>> /\ idle' \subseteq idle
    BY <1>1 DEF Reclaim, ReclaimFails
  <2>3. /\ pc' \in [Pods -> {"down", "reclaim", "read", "handle", "ack"}]
        /\ batch' \in [Pods -> SUBSET (1 .. cursor)]
        /\ Working' /\ Handled'
    BY <2>1, <2>2, TurnKeeps
  <2>4. QED
    BY <2>2, <2>3 DEF GroupInv, TypeOK, NothingForgotten, AckedWasHandled
<1>2. CASE Read(p) \/ ReadLost(p)
  <2>1. /\ cursor' \in Nat /\ cursor < cursor' /\ cursor' <= last
        /\ Fresh \subseteq 1 .. cursor' /\ 1 .. cursor' = (1 .. cursor) \cup Fresh
    BY <1>2, Delivered DEF Read, ReadLost, GroupInv
  <2>2. UNCHANGED <<last, idle, handled, acked>> /\ pending' = pending \cup Fresh
    BY <1>2 DEF Read, ReadLost, Deliver
  <2>3. last \in 0 .. Length /\ cursor \in 0 .. last /\ Length \in Nat
    BY StreamAssumption DEF GroupInv, TypeOK
  <2>4. \A e \in Fresh : e \in Nat /\ cursor < e
    BY <2>3, FreshFacts
  <2>5. /\ pc' \in [Pods -> {"down", "reclaim", "read", "handle", "ack"}]
        /\ batch' \in [Pods -> SUBSET (1 .. cursor')] /\ Working' /\ Handled'
    <3>1. CASE Read(p)
      <4>1. Turn(p, Fresh) /\ handled' = handled
        BY <3>1 DEF Read
      <4>2. /\ pc \in [Pods -> {"down", "reclaim", "read", "handle", "ack"}]
            /\ batch \in [Pods -> SUBSET (1 .. cursor)] /\ Working /\ Handled
        BY DEF GroupInv, TypeOK
      <4>3. /\ pc' \in [Pods -> {"down", "reclaim", "read", "handle", "ack"}]
            /\ batch' \in [Pods -> SUBSET (1 .. cursor')]
            /\ batch'[p] = Fresh /\ pc'[p] = IF Fresh = {} THEN "read" ELSE "handle"
            /\ \A q \in Pods \ {p} : pc'[q] = pc[q] /\ batch'[q] = batch[q]
        <5>1. batch \in [Pods -> SUBSET (1 .. cursor')] /\ Fresh \in SUBSET (1 .. cursor')
          BY <2>1, <4>2
        <5>2. QED
          BY <4>1, <4>2, <5>1 DEF Turn
      <4>4. Working'
        BY <4>2, <4>3 DEF Working
      <4>5. Handled'
        BY <4>1, <4>2, <4>3 DEF Handled, Current
      <4>6. QED
        BY <4>3, <4>4, <4>5
    <3>2. CASE ReadLost(p)
      <4>1. UNCHANGED <<pc, batch, handled>>
        BY <3>2 DEF ReadLost
      <4>2. batch \in [Pods -> SUBSET (1 .. cursor')]
        BY <2>1 DEF GroupInv, TypeOK
      <4>3. QED
        BY <4>1, <4>2 DEF GroupInv, TypeOK, Working, Handled, Current
    <3>3. QED
      BY <1>2, <3>1, <3>2
  <2>6. cursor' \in 0 .. last'
    BY <2>1, <2>2, <2>3
  <2>7. /\ pending' \subseteq 1 .. cursor' /\ idle' \subseteq pending' /\ acked' \subseteq 1 .. cursor'
        /\ NothingForgotten'
    <3>1. pending = (1 .. cursor) \ acked /\ acked \subseteq 1 .. cursor /\ idle \subseteq pending
      BY DEF GroupInv, TypeOK, NothingForgotten
    <3>2. Fresh \cap acked = {}
      BY <2>3, <2>4, <3>1
    <3>3. QED
      BY <2>1, <2>2, <3>1, <3>2 DEF NothingForgotten
  <2>8. QED
    BY <2>2, <2>3, <2>5, <2>6, <2>7 DEF GroupInv, TypeOK, AckedWasHandled
<1>3. QED
  BY <1>1, <1>2

LEMMA HandleKeepsInv ==
  ASSUME GroupInv, NEW p \in Pods, NEW e \in Entries,
         Skip(p, e) \/ SkipFails(p, e) \/ Handle(p, e) \/ HandlerFails(p, e)
           \/ Ack(p, e) \/ AckFails(p, e)
  PROVE  GroupInv'
<1>1. /\ batch[p] \in SUBSET (1 .. cursor) /\ e \in batch[p] /\ Current(p, e)
      /\ UNCHANGED <<last, cursor>>
  BY DEF Skip, SkipFails, Handle, HandlerFails, Ack, AckFails, Current, group, GroupInv, TypeOK
<1>2. CASE Handle(p, e)
  <2>1. /\ pc' = [pc EXCEPT ![p] = "ack"] /\ handled' = handled \cup {e}
        /\ UNCHANGED <<pending, idle, batch, acked>>
    BY <1>2 DEF Handle, group
  <2>2. pc' \in [Pods -> {"down", "reclaim", "read", "handle", "ack"}]
    BY <2>1 DEF GroupInv, TypeOK
  <2>3. /\ pc'[p] = "ack" /\ pc[p] = "handle"
        /\ \A q \in Pods \ {p} : pc'[q] = pc[q]
    BY <1>2, <2>1 DEF Handle, GroupInv, TypeOK
  <2>4. Working'
    BY <2>1, <2>3 DEF GroupInv, Working
  <2>5. \A f \in batch[p] : Current(p, f) => f = e
    <3>1. 1 .. cursor \subseteq Nat
      OBVIOUS
    <3>2. QED
      BY <1>1, <3>1 DEF Current
  <2>6. Handled'
    BY <2>1, <2>3, <2>5 DEF GroupInv, Handled, Current
  <2>7. QED
    BY <1>1, <2>1, <2>2, <2>4, <2>6 DEF GroupInv, TypeOK, NothingForgotten, AckedWasHandled
<1>3. CASE ~ Handle(p, e)
  <2>1. handled' = handled
    BY <1>3 DEF Skip, SkipFails, HandlerFails, Ack, AckFails
  <2>2. /\ pc' \in [Pods -> {"down", "reclaim", "read", "handle", "ack"}]
        /\ batch' \in [Pods -> SUBSET (1 .. cursor)]
        /\ Working' /\ Handled'
    <3>1. PICK entries \in SUBSET (1 .. cursor) : Turn(p, entries)
      <4>1. batch[p] \ {e} \in SUBSET (1 .. cursor) /\ {} \in SUBSET (1 .. cursor)
        BY <1>1
      <4>2. Turn(p, batch[p] \ {e}) \/ Turn(p, {})
        BY <1>3 DEF Skip, SkipFails, HandlerFails, Ack, AckFails
      <4>3. QED
        BY <4>1, <4>2
    <3>2. QED
      BY <1>1, <2>1, <3>1, TurnKeeps
  <2>3. e \in handled \/ e \notin Mine \/ HandlerFails(p, e)
    BY <1>1, <1>3 DEF Skip, SkipFails, Ack, AckFails, GroupInv, Handled
  <2>4. Xack(e) \/ UNCHANGED <<acked, pending, idle>>
    BY <1>3 DEF Skip, SkipFails, HandlerFails, Ack, AckFails, XackFails, group
  <2>5. HandlerFails(p, e) => UNCHANGED <<acked, pending, idle>>
    BY DEF HandlerFails, group
  <2>6. /\ pending' \subseteq 1 .. cursor' /\ idle' \subseteq pending'
        /\ acked' \subseteq 1 .. cursor' /\ NothingForgotten' /\ AckedWasHandled'
    <3>1. CASE UNCHANGED <<acked, pending, idle>>
      BY <1>1, <2>1, <3>1 DEF GroupInv, TypeOK, NothingForgotten, AckedWasHandled
    <3>2. CASE Xack(e) /\ ~ HandlerFails(p, e)
      BY <1>1, <2>1, <2>3, <3>2, XackKeeps
    <3>3. QED
      BY <2>4, <2>5, <3>1, <3>2
  <2>7. QED
    BY <1>1, <2>2, <2>6 DEF GroupInv, TypeOK
<1>4. QED
  BY <1>2, <1>3

LEMMA GroupInvStep == GroupInv /\ [Next]_vars => GroupInv'
<1> SUFFICES ASSUME GroupInv, [Next]_vars PROVE GroupInv'
  OBVIOUS
<1>1. CASE UNCHANGED vars
  BY <1>1 DEF vars, group, GroupInv, TypeOK, Working, Handled, Current, NothingForgotten, AckedWasHandled
<1>2. CASE Publish
  <2>1. last' \in 0 .. Length /\ cursor' \in 0 .. last'
    BY <1>2, StreamAssumption DEF Publish, GroupInv, TypeOK
  <2>2. QED
    BY <1>2, <2>1 DEF Publish, GroupInv, TypeOK, Working, Handled, Current, NothingForgotten, AckedWasHandled
<1>3. CASE \E e \in Entries : Idle(e)
  BY <1>3 DEF Idle, GroupInv, TypeOK, Working, Handled, Current, NothingForgotten, AckedWasHandled
<1>4. ASSUME NEW p \in Pods, Subscribe(p) \/ Stop(p) \/ Crash(p) PROVE GroupInv'
  <2>1. UNCHANGED <<last, cursor, pending, idle, handled, acked>>
    BY <1>4 DEF Subscribe, Stop, Crash, group
  <2>2. /\ pc' \in [Pods -> {"down", "reclaim", "read", "handle", "ack"}]
        /\ batch' \in [Pods -> SUBSET (1 .. cursor)]
        /\ Working' /\ Handled'
    <3>1. PICK where \in {"down", "reclaim", "read"} : pc' = [pc EXCEPT ![p] = where]
      BY <1>4 DEF Subscribe, Stop, Crash
    <3>2. batch' = [batch EXCEPT ![p] = {}] \/ (batch' = batch /\ batch[p] = {})
      BY <1>4 DEF Subscribe, Stop, Crash, GroupInv, Working
    <3>3. QED
      BY <2>1, <3>1, <3>2, MoveKeeps
  <2>3. QED
    BY <2>1, <2>2 DEF GroupInv, TypeOK, NothingForgotten, AckedWasHandled
<1>5. ASSUME NEW p \in Pods, Work(p) \/ Break(p) PROVE GroupInv'
  BY <1>4, <1>5, ReceiveKeepsInv, HandleKeepsInv DEF Work, Break
<1>6. QED
  BY <1>1, <1>2, <1>3, <1>4, <1>5 DEF Next

(* The group's books, and with them the two properties below.              *)
THEOREM GroupInvariant == Spec => []GroupInv
  BY GroupInvInit, GroupInvStep, PTL DEF Spec

(* No silent loss (handleMsg awaits the handler before XACK): what was     *)
(* acked and is of the pattern was handled, however pods overlap.          *)
THEOREM NothingAckedUnhandled == Spec => []AckedWasHandled
<1>1. GroupInv => AckedWasHandled
  BY DEF GroupInv
<1>2. QED
  BY <1>1, GroupInvariant, PTL

-----------------------------------------------------------------------------
(* The subscription implements the group                                   *)

LEMMA GroupSteps == GroupInv /\ [Next]_vars => [Promise!GroupNext]_(Promise!groupVars)
<1> SUFFICES ASSUME GroupInv, [Next]_vars
             PROVE  Promise!GroupNext \/ UNCHANGED Promise!groupVars
  OBVIOUS
<1> USE DEF Promise!groupVars
<1>1. CASE UNCHANGED vars
  BY <1>1 DEF vars, group
<1>2. CASE Publish
  BY <1>2 DEF Publish, Promise!GroupNext, Promise!Publish
<1>3. CASE \E e \in Entries : Idle(e)
  BY <1>3 DEF Idle
<1>4. ASSUME NEW p \in Pods, Subscribe(p) \/ Stop(p) \/ Crash(p) \/ Reclaim(p) \/ ReclaimFails(p)
      PROVE  UNCHANGED Promise!groupVars
  BY <1>4 DEF Subscribe, Stop, Crash, Reclaim, ReclaimFails, group
<1>5. ASSUME NEW p \in Pods, Read(p) \/ ReadLost(p)
      PROVE  Promise!GroupNext
  <2>1. cursor' \in Nat /\ cursor < cursor' /\ cursor' <= last /\ UNCHANGED <<last, handled, acked>>
    BY <1>5, Delivered DEF Read, ReadLost, GroupInv
  <2>2. cursor' \in cursor + 1 .. last
    BY <2>1 DEF GroupInv, TypeOK
  <2>3. QED
    BY <2>1, <2>2 DEF Promise!GroupNext, Promise!Deliver
<1>6. ASSUME NEW p \in Pods, NEW e \in Entries,
             Skip(p, e) \/ SkipFails(p, e) \/ Handle(p, e) \/ HandlerFails(p, e)
               \/ Ack(p, e) \/ AckFails(p, e)
      PROVE  Promise!GroupNext \/ UNCHANGED Promise!groupVars
  <2>1. e \in 1 .. cursor /\ Current(p, e) /\ e \in batch[p] /\ UNCHANGED <<last, cursor>>
    BY <1>6 DEF Skip, SkipFails, Handle, HandlerFails, Ack, AckFails, Current, group, GroupInv, TypeOK
  <2>2. CASE Handle(p, e)
    <3>1. handled' = handled \cup {e} /\ acked' = acked /\ e \in Mine
      BY <2>2 DEF Handle, group
    <3>2. CASE e \in handled
      BY <2>1, <3>1, <3>2
    <3>3. CASE e \notin handled
      <4>1. e \notin acked
        BY <3>1, <3>3 DEF GroupInv, AckedWasHandled
      <4>2. Promise!Handle(e)
        BY <2>1, <3>1, <3>3, <4>1 DEF Promise!Handle
      <4>3. QED
        BY <2>1, <4>2 DEF Promise!GroupNext
    <3>4. QED
      BY <3>2, <3>3
  <2>3. CASE ~ Handle(p, e)
    <3>1. handled' = handled
      BY <1>6, <2>3 DEF Skip, SkipFails, HandlerFails, Ack, AckFails
    <3>2. CASE acked' = acked
      BY <2>1, <3>1, <3>2
    <3>3. CASE acked' # acked
      <4>1. acked' = acked \cup {e} /\ e \notin acked
        BY <1>6, <2>3, <3>3 DEF Skip, SkipFails, HandlerFails, Ack, AckFails, XackFails, Xack, group
      <4>2. e \in handled \/ e \notin Mine
        BY <1>6, <2>1, <2>3, <3>3 DEF Skip, SkipFails, HandlerFails, Ack, AckFails, group, GroupInv, Handled
      <4>3. Promise!Settle(e)
        BY <2>1, <3>1, <4>1, <4>2 DEF Promise!Settle
      <4>4. QED
        BY <2>1, <4>3 DEF Promise!GroupNext
    <3>4. QED
      BY <3>2, <3>3
  <2>4. QED
    BY <2>2, <2>3
<1>7. QED
  BY <1>1, <1>2, <1>3, <1>4, <1>5, <1>6 DEF Next, Work, Break

(* The subscription with its pods, reclaims, lost answers and crashes      *)
(* (subscribe) keeps the promise of a durable group: entries are handed    *)
(* out in order and none is settled before it was handled.                 *)
THEOREM SubscriptionIsDurable == Spec => ImplementsGroup
<1>1. Init => Promise!GroupInit
  BY DEF Init, Promise!GroupInit
<1>2. QED
  BY <1>1, GroupSteps, GroupInvariant, PTL DEF Spec, Promise!GroupSpec, ImplementsGroup
=============================================================================
