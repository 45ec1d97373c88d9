---------------------------- MODULE PaymentPanel ----------------------------
(***************************************************************************)
(* The read side of the payment path: admin-service's consumer group on    *)
(* the Redis stream (paymentRecordsConsumer.js) and the upsert into        *)
(* admin.payment_records (paymentRecordsService.js).                       *)
(*                                                                         *)
(* Each consumer loops: reclaim idle pending entries and handle them, read *)
(* new entries and handle them.  Handling an entry is an upsert, then an   *)
(* XACK, with an await between any two calls; a delivered entry stays in   *)
(* the group's pending list until it is acked, and one that failed too     *)
(* often is buried: acked without having been applied.                     *)
(*                                                                         *)
(* The stream is at-least-once and unordered from the panel's view: any    *)
(* record may be published at any time and again.  Time is abstract: a     *)
(* pending entry may turn idle at any moment, also while it is handled.    *)
(* Trimming (MAXLEN ~ a million entries) is left out.                      *)
(***************************************************************************)
EXTENDS PaymentLifecycle, Sequences, FiniteSets

CONSTANTS
  Consumers,       \* replicas of admin-service
  RecordKeys,      \* (paymentId, siteId): the primary key of the panel
  Records,         \* payment.recorded events that may be published
  Malformed,       \* one the upsert always rejects (unknown site or state)
  Foreign,         \* an event of another type, or an unparseable one
  BATCH,
  MAX_DELIVERIES,
  MaxStream,       \* bound: entries ever published
  MaxAborts        \* bound: crashes and thrown Redis calls in one behaviour

ASSUME RecordsAssumption ==
  /\ Records \subseteq [key : RecordKeys, state : PAYMENT_STATES]
  /\ Malformed \notin Records
  /\ Foreign \notin Records
  /\ Malformed # Foreign
ASSUME PanelBoundsAssumption ==
  /\ BATCH \in Nat \ {0} /\ MAX_DELIVERIES \in Nat \ {0}
  /\ MaxStream \in Nat   /\ MaxAborts \in Nat

VARIABLES
  stream,      \* the events published; an entry's id is its position
  delivered,   \* the group's last-delivered id
  pending,     \* the group's pending entries list
  deliveries,  \* deliveries[id]: how often Redis handed the entry out
  idle,        \* pending entries untouched for RECLAIM_IDLE_MS
  panel,       \* panel[k]: the state shown for key k, or "NONE"
  pc,          \* pc[c]: consumer c's next call
  todo,        \* todo[c]: entries c was handed and has not finished
  turn,        \* turn[c]: the call that follows c's batch
  buried,      \* entries acked as poison
  aborts       \* aborted batches so far

group == <<delivered, pending, deliveries, idle>>
vars  == <<stream, group, panel, pc, todo, turn, buried, aborts>>

Ids    == 1 .. MaxStream
Events == Records \cup {Malformed, Foreign}
PCs    == {"reclaim", "read", "handle", "ack", "count", "bury"}

-----------------------------------------------------------------------------
(* Mutant: FAILED ranks below everything, as it is off the ladder.         *)
STATE_RANK_LADDER(state) == RankOf(state)

(* The upsert's rank: FAILED may supersede an authorization, never a       *)
(* capture.                                                                *)
STATE_RANK(state) ==
  CASE state = "INITIATED"  -> 0
    [] state = "AUTHORIZED" -> 10
    [] state = "FAILED"     -> 15
    [] state = "CAPTURED"   -> 20
    [] OTHER                -> 30

(* Mutant: the upsert has no WHERE, the last delivery wins.                *)
LastWins(state, shown) == TRUE

(* INSERT, or ON CONFLICT DO UPDATE ... WHERE the rank is higher.          *)
Replaces(state, shown) ==
  shown = "NONE" \/ STATE_RANK(state) > STATE_RANK(shown)

Init ==
  /\ stream     = <<>>
  /\ delivered  = 0
  /\ pending    = {}
  /\ deliveries = [id \in Ids |-> 0]
  /\ idle       = {}
  /\ panel      = [k \in RecordKeys |-> "NONE"]
  /\ pc         = [c \in Consumers |-> "reclaim"]
  /\ todo       = [c \in Consumers |-> <<>>]
  /\ turn       = [c \in Consumers |-> "read"]
  /\ buried     = {}
  /\ aborts     = 0

(* A relay's XADD: a first delivery or a repeated one.                     *)
Publish(e) ==
  /\ Len(stream) < MaxStream
  /\ stream' = Append(stream, e)
  /\ UNCHANGED <<group, panel, pc, todo, turn, buried, aborts>>

Goto(c, label) == pc' = [pc EXCEPT ![c] = label]

(* Redis hands the entries ids[1], ids[2], ... to c, which handles them    *)
(* and then makes the call after.                                          *)
HandOut(c, ids, after) ==
  LET given == {ids[i] : i \in DOMAIN ids} IN
  /\ pending'    = pending \cup given
  /\ idle'       = idle \ given
  /\ deliveries' = [id \in Ids |-> IF id \in given THEN deliveries[id] + 1
                                                   ELSE deliveries[id]]
  /\ todo' = [todo EXCEPT ![c] = ids]
  /\ turn' = [turn EXCEPT ![c] = after]
  /\ Goto(c, "handle")

(* XREADGROUP '>': the next entries nobody was given, up to BATCH.         *)
Read(c) ==
  /\ pc[c] = "read"
  /\ \E n \in 1 .. BATCH :
       /\ delivered + n <= Len(stream)
       /\ n = BATCH \/ delivered + n = Len(stream)
       /\ HandOut(c, [i \in 1 .. n |-> delivered + i], "reclaim")
       /\ delivered' = delivered + n
  /\ UNCHANGED <<stream, panel, buried, aborts>>

(* Mutant: there is no reclaimStale.                                       *)
ReclaimableNever == {}

(* What XAUTOCLAIM may hand to any consumer.                               *)
Reclaimable == idle

(* The block timed out, or nothing is idle: on to the next call.           *)
ReadNothing(c) ==
  /\ pc[c] = "read"
  /\ delivered = Len(stream)
  /\ Goto(c, "reclaim")
  /\ UNCHANGED <<stream, group, panel, todo, turn, buried, aborts>>

ReclaimNothing(c) ==
  /\ pc[c] = "reclaim"
  /\ Reclaimable = {}
  /\ Goto(c, "read")
  /\ UNCHANGED <<stream, group, panel, todo, turn, buried, aborts>>

(* XAUTOCLAIM from '0': the oldest idle entries, whoever holds them.       *)
Oldest(ids, id) == \A other \in Reclaimable \ ids : id < other

Reclaim(c) ==
  /\ pc[c] = "reclaim"
  /\ \E n \in 1 .. BATCH : \E ids \in [1 .. n -> Reclaimable] :
       /\ \A i \in 1 .. n - 1 : ids[i] < ids[i + 1]
       /\ n = BATCH \/ n = Cardinality(Reclaimable)
       /\ \A i \in 1 .. n : Oldest({ids[j] : j \in 1 .. n}, ids[i])
       /\ HandOut(c, ids, "read")
  /\ UNCHANGED <<stream, delivered, panel, buried, aborts>>

Current(c) == Head(todo[c])

(* The loop over the batch goes on, or the batch is through.               *)
Finish(c) ==
  /\ todo' = [todo EXCEPT ![c] = Tail(@)]
  /\ Goto(c, IF Len(todo[c]) > 1 THEN "handle" ELSE turn[c])

Xack(id) ==
  /\ pending' = pending \ {id}
  /\ idle'    = idle \ {id}
  /\ UNCHANGED <<delivered, deliveries>>

(* parseEntry returns null: acked and skipped.                             *)
Skip(c) ==
  /\ pc[c] = "handle"
  /\ stream[Current(c)] = Foreign
  /\ Xack(Current(c))
  /\ Finish(c)
  /\ UNCHANGED <<stream, panel, turn, buried, aborts>>

(* Mutant: the upsert is not awaited; it may fail behind the ack.          *)
ApplyNotAwaited(c) ==
  /\ pc[c] = "handle"
  /\ stream[Current(c)] \in Records
  /\ LET e == stream[Current(c)] IN
       \/ panel' = [panel EXCEPT ![e.key] = IF Replaces(e.state, @) THEN e.state ELSE @]
       \/ UNCHANGED panel
  /\ Goto(c, "ack")
  /\ UNCHANGED <<stream, group, todo, turn, buried, aborts>>

(* applyPaymentRecorded commits its upsert.                                *)
Apply(c) ==
  /\ pc[c] = "handle"
  /\ stream[Current(c)] \in Records
  /\ LET e == stream[Current(c)] IN
       panel' = [panel EXCEPT ![e.key] = IF Replaces(e.state, @) THEN e.state ELSE @]
  /\ Goto(c, "ack")
  /\ UNCHANGED <<stream, group, todo, turn, buried, aborts>>

(* It throws: a malformed event always does, a sound one when the database *)
(* fails.  (Throwing after the commit is Apply followed by AckFails.)      *)
ApplyFails(c) ==
  /\ pc[c] = "handle"
  /\ stream[Current(c)] # Foreign
  /\ Goto(c, "count")
  /\ UNCHANGED <<stream, group, panel, todo, turn, buried, aborts>>

Ack(c) ==
  /\ pc[c] = "ack"
  /\ Xack(Current(c))
  /\ Finish(c)
  /\ UNCHANGED <<stream, panel, turn, buried, aborts>>

(* XACK throws inside the same try: handled like a failed apply.           *)
AckFails(c) ==
  /\ pc[c] = "ack"
  /\ Goto(c, "count")
  /\ UNCHANGED <<stream, group, panel, todo, turn, buried, aborts>>

(* deliveryCount: an entry that is not pending any more counts as 1.       *)
TooOften(id) ==
  (IF id \in pending THEN deliveries[id] ELSE 1) >= MAX_DELIVERIES

(* The entry is left pending for a reclaim, or is poison.                  *)
CountDeliveries(c) ==
  /\ pc[c] = "count"
  /\ IF TooOften(Current(c))
       THEN Goto(c, "bury") /\ UNCHANGED todo
       ELSE Finish(c)
  /\ UNCHANGED <<stream, group, panel, turn, buried, aborts>>

(* XPENDING throws: the entry counts as delivered once.                    *)
CountFails(c) ==
  /\ pc[c] = "count"
  /\ aborts < MaxAborts
  /\ aborts' = aborts + 1
  /\ IF MAX_DELIVERIES = 1 THEN Goto(c, "bury") /\ UNCHANGED todo
                           ELSE Finish(c)
  /\ UNCHANGED <<stream, group, panel, turn, buried>>

Bury(c) ==
  /\ pc[c] = "bury"
  /\ Xack(Current(c))
  /\ buried' = buried \cup {Current(c)}
  /\ Finish(c)
  /\ UNCHANGED <<stream, panel, turn, aborts>>

(* An XACK that no try around the entry catches.                           *)
ThrowsOutside(c) ==
  \/ pc[c] = "bury"
  \/ pc[c] = "handle" /\ stream[Current(c)] = Foreign

(* The process dies and starts over, or such a call throws and ends the    *)
(* batch: the rest of it stays pending.                                    *)
Abort(c) ==
  /\ pc[c] \notin {"reclaim", "read"}
  /\ aborts < MaxAborts
  /\ aborts' = aborts + 1
  /\ \/ Goto(c, "reclaim")
     \/ ThrowsOutside(c) /\ Goto(c, turn[c])
  /\ todo' = [todo EXCEPT ![c] = <<>>]
  /\ UNCHANGED <<stream, group, panel, turn, buried>>

(* Time passes: a pending entry has been idle for RECLAIM_IDLE_MS.         *)
Elapse(id) ==
  /\ id \in pending \ idle
  /\ idle' = idle \cup {id}
  /\ UNCHANGED <<stream, delivered, pending, deliveries, panel, pc, todo,
                 turn, buried, aborts>>

Pump(c) ==
  \/ Read(c) \/ ReadNothing(c) \/ Reclaim(c) \/ ReclaimNothing(c)
  \/ Skip(c) \/ Apply(c) \/ ApplyFails(c) \/ Ack(c) \/ AckFails(c)
  \/ CountDeliveries(c) \/ Bury(c)

Next ==
  \/ \E e \in Events : Publish(e)
  \/ \E c \in Consumers : Pump(c) \/ CountFails(c) \/ Abort(c)
  \/ \E id \in Ids : Elapse(id)

Spec == Init /\ [][Next]_vars

(* The pump loops and its calls return; clocks advance.  Neither the       *)
(* database nor Redis is assumed to succeed.                               *)
Fairness ==
  /\ \A c \in Consumers : WF_vars(Pump(c))
  /\ \A id \in Ids : WF_vars(Elapse(id))

FairSpec == Spec /\ Fairness

-----------------------------------------------------------------------------
(* Properties                                                              *)

(* Every variable keeps its shape, and a consumer holds entries exactly    *)
(* while it handles them.                                                  *)
TypeOK ==
  /\ stream     \in Seq(Events) /\ Len(stream) <= MaxStream
  /\ delivered  \in 0 .. Len(stream)
  /\ pending    \in SUBSET (1 .. delivered)
  /\ deliveries \in [Ids -> Nat]
  /\ idle       \in SUBSET pending
  /\ panel      \in [RecordKeys -> PAYMENT_STATES \cup {"NONE"}]
  /\ pc         \in [Consumers -> PCs]
  /\ todo       \in [Consumers -> Seq(1 .. delivered)]
  /\ turn       \in [Consumers -> {"reclaim", "read"}]
  /\ buried     \in SUBSET (1 .. delivered)
  /\ aborts     \in 0 .. MaxAborts
  /\ \A c \in Consumers : todo[c] = <<>> <=> pc[c] \in {"reclaim", "read"}

(* The panel already covers a record: it shows its state or one that       *)
(* outranks it.                                                            *)
Covered(e) == panel[e.key] # "NONE" /\ ~Replaces(e.state, panel[e.key])

(* No payment is invisible for ever: an entry that left the pending list   *)
(* is on the panel or was buried, whatever crashed, was reclaimed by       *)
(* another replica while still being handled, or arrived out of order.     *)
AckedIsOnPanel ==
  \A id \in (1 .. delivered) \ (pending \cup buried) :
    stream[id] \in Records => Covered(stream[id])

(* Nothing sound is buried before it was handed out MAX_DELIVERIES times.  *)
BuriedWasRetried ==
  \A id \in buried : deliveries[id] >= MAX_DELIVERIES

(* The panel never takes a payment back: a replayed or late delivery may   *)
(* not show a state below one it has shown.                                *)
PanelNeverRegresses ==
  [][\A k \in RecordKeys :
       panel[k] # "NONE" =>
         /\ panel'[k] # "NONE"
         /\ STATE_RANK(panel[k]) <= STATE_RANK(panel'[k])]_vars

(* No invisible backlog: every entry handed to a consumer is acked in the  *)
(* end, also one whose consumer died and one that can never be applied.    *)
EveryEntryLeaves ==
  \A id \in Ids : id \in pending ~> id \notin pending

-----------------------------------------------------------------------------
(* The inductive invariant behind the safety properties.                   *)

(* What c found out about its current entry still holds when it acts on it.*)
Agrees(c) ==
  /\ pc[c] = "ack" =>
       stream[Current(c)] \in Records /\ Covered(stream[Current(c)])
  /\ pc[c] = "bury" => deliveries[Current(c)] >= MAX_DELIVERIES

HandedOut == \A id \in 1 .. delivered : deliveries[id] >= 1

PanelInv ==
  /\ TypeOK
  /\ HandedOut
  /\ \A c \in Consumers : Agrees(c)
  /\ AckedIsOnPanel
  /\ BuriedWasRetried
=============================================================================
