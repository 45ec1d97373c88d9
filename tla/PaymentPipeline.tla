-------------------------- MODULE PaymentPipeline ---------------------------
(***************************************************************************)
(* The payment path of one estate from end to end: the state machine that  *)
(* commits a change together with its outbox row, the relay that publishes *)
(* the row, and the panel that shows it.                                   *)
(*                                                                         *)
(*   Ladder (state, journal) --row--> Relay --record--> stream --> panel   *)
(*                                                                         *)
(* The state machine appears as the specification it implements            *)
(* (PaymentLadder); the relay is OutboxRelay's; the stream and the panel   *)
(* are PaymentPanel's, which this module extends.  The three only meet     *)
(* where the code meets: an effect of the ladder is a new row, and what    *)
(* the bus takes from the relay is a new entry of the stream.              *)
(***************************************************************************)
EXTENDS PaymentPanel

CONSTANTS
  Payments,
  Sites,          \* sites in the registry
  NoSite,         \* a report without attribution
  Changes,        \* the state changes adapters may cause
  Alerts,         \* outbox rows for surfaced contradictions
  Relays, Batch, MaxAttempts, NoRow,
  MaxLostTicks    \* bound: relay ticks that die

Moved == PAYMENT_STATES \ {"INITIATED"}

(* A change's row is what its envelope carries; the site is that of the    *)
(* event that caused it, which need not be that of an earlier one.         *)
Envelopes == [payment: Payments, site: Sites \cup {NoSite}, state: Moved]
Sited     == {row \in Changes : row.site # NoSite}

KeyOf(row)    == <<row.payment, row.site>>
RecordOf(row) == [key |-> KeyOf(row), state |-> row.state]

ASSUME PaymentsAssumption == /\ NoSite \notin Sites
                             /\ RecordKeys = Payments \X Sites
                             /\ Changes \subseteq Envelopes
                             /\ Records = {RecordOf(row) : row \in Sited}
ASSUME AlertsAssumption   == Alerts \cap Changes = {}

\* As in OutboxRelay.
ASSUME PipelineRelayAssumption == /\ Batch \in Nat \ {0} /\ MaxAttempts \in Nat \ {0}
                                  /\ MaxLostTicks \in Nat
                                  /\ NoRow \notin Changes \cup Alerts
                                  /\ IsFiniteSet(Relays) /\ Relays # {}

VARIABLES
  state, journal,                                          \* the ladder's
  status, attempts, due, taken, relayPc, batch, seen,      \* the relay's
  failing, sentIds, lostTicks

ladderVars   == <<state, journal>>
relayVars    == <<status, attempts, due, taken, relayPc, batch, seen,
                  failing, sentIds, lostTicks>>
pipelineVars == <<ladderVars, relayVars, vars>>

Rows == Changes \cup Alerts

(* paymentRecordedFromEnvelope.                                            *)
KindOf == [row \in Rows |-> IF row \in Alerts THEN "conflict"
                            ELSE IF row \in Sited THEN "record" ELSE "unattributed"]

Ladder == INSTANCE PaymentLadder
Relay  == INSTANCE OutboxRelay WITH
  Kind      <- KindOf,
  MaxAborts <- MaxLostTicks,
  published <- taken,
  pc        <- relayPc,
  aborts    <- lostTicks

PipelineInit == Ladder!Init /\ Relay!Init /\ Init

-----------------------------------------------------------------------------
(* Mutant: the row is written outside the transaction, which rolls back.   *)
ChangeOutside(row) ==
  /\ <<state[row.payment], row.state>> \in Ladder!Transitions
  /\ Relay!Enqueue(row)
  /\ UNCHANGED <<ladderVars, vars>>

(* apply: a transition and its effect's row, in one transaction.           *)
Change(row) ==
  /\ Ladder!Move(row.payment, row.state)
  /\ Relay!Enqueue(row)
  /\ UNCHANGED vars

Alert(p, row) ==
  /\ Ladder!Contradict(p)
  /\ Relay!Enqueue(row)
  /\ UNCHANGED vars

(* The bus takes the record: an entry of the stream, whether or not its    *)
(* relay hears of it.                                                      *)
Forward(r, row) ==
  /\ KindOf[row] = "record"
  /\ taken' = taken \cup {row}
  /\ Relay!Publish(r, row) \/ Relay!PublishFails(r, row)
  /\ Publish(RecordOf(row))
  /\ UNCHANGED ladderVars

(* Nothing of it reaches the bus: refused, acked as an alert, or           *)
(* rejected for want of attribution.                                       *)
Withhold(r, row) ==
  /\ UNCHANGED <<taken, ladderVars, vars>>
  /\ \/ KindOf[row] # "record" /\ Relay!Publish(r, row)
     \/ Relay!PublishFails(r, row)

Housekeeping(r) ==
  /\ \/ \E rows \in SUBSET Rows : Relay!Claim(r, rows)
     \/ Relay!RecordFailure(r) \/ Relay!MarkSent(r) \/ Relay!Abort(r)
  /\ UNCHANGED <<ladderVars, vars>>

(* Others publish on the same stream.                                      *)
Others ==
  /\ Publish(Malformed) \/ Publish(Foreign)
  /\ UNCHANGED <<ladderVars, relayVars>>

Consume ==
  /\ \/ \E c \in Consumers : Pump(c) \/ CountFails(c) \/ Abort(c)
     \/ \E id \in Ids : Elapse(id)
  /\ UNCHANGED <<ladderVars, relayVars>>

LeaseEnds == (\E row \in Rows : Relay!Elapse(row)) /\ UNCHANGED <<ladderVars, vars>>

PipelineNext ==
  \/ \E row \in Changes : Change(row)
  \/ \E p \in Payments, row \in Alerts : Alert(p, row)
  \/ \E r \in Relays, row \in Rows : Forward(r, row) \/ Withhold(r, row)
  \/ \E r \in Relays : Housekeeping(r)
  \/ Others \/ Consume \/ LeaseEnds

PipelineSpec == PipelineInit /\ [][PipelineNext]_pipelineVars

-----------------------------------------------------------------------------
(* Properties                                                              *)

(* The panel never shows what did not happen: what it shows of a payment   *)
(* is a state some committed transition brought it to, never one of a      *)
(* transaction that rolled back, and none the payment has yet to reach.    *)
ShowsOnlyHistory ==
  \A k \in RecordKeys : panel[k] # "NONE" =>
    \E i \in DOMAIN journal[k[1]] :
      /\ journal[k[1]][i].type # "PAYMENT_CONFLICT"
      /\ journal[k[1]][i].toState = panel[k]

(* The panel is up to date once it has acknowledged the latest change: the *)
(* ranks it sorts deliveries by (STATE_RANK) order states as the lifecycle *)
(* does, so no earlier change that arrives late or again displaces it.     *)
Acknowledged(e) == \E id \in (1 .. delivered) \ (pending \cup buried) : stream[id] = e

LatestPrevails ==
  \A row \in Sited :
    status[row] # "absent" /\ state[row.payment] = row.state /\ Acknowledged(RecordOf(row))
      => panel[KeyOf(row)] = row.state

(* Nobody's payment falls between two parts: a change that was committed   *)
(* is in the outbox, or given up there, or on the stream for some consumer *)
(* to settle, or buried, or the panel covers it.                           *)
OnStream(e) == \E id \in 1 .. Len(stream) : /\ stream[id] = e
                                            /\ id > delivered \/ id \in pending \cup buried

ChainOfCustody ==
  \A p \in Payments : \A i \in DOMAIN journal[p] :
    journal[p][i].type # "PAYMENT_CONFLICT" =>
      \E row \in Changes :
        /\ row.payment = p /\ row.state = journal[p][i].toState
        /\ \/ status[row] \in {"pending", "failed"}
           \/ row \in Sited /\ (OnStream(RecordOf(row)) \/ Covered(RecordOf(row)))

-----------------------------------------------------------------------------
(* The inductive invariant behind the safety properties: what one part     *)
(* hands to the next.  (What each part keeps for itself is proved of it    *)
(* alone.)                                                                 *)

Enqueued(row) == status[row] # "absent"
Effect(p, i)  == journal[p][i].type # "PAYMENT_CONFLICT"

LadderTypeOK ==
  /\ state   \in [Payments -> PAYMENT_STATES]
  /\ journal \in [Payments -> Seq([type      : PAYMENT_EFFECTS,
                                   fromState : PAYMENT_STATES,
                                   toState   : PAYMENT_STATES])]

(* From the ladder to the outbox: a row for each move and none besides.    *)
RowsAreMoves ==
  /\ \A row \in Changes : Enqueued(row) =>
       /\ STATE_RANK(row.state) <= STATE_RANK(state[row.payment])
       /\ \E i \in DOMAIN journal[row.payment] :
            /\ Effect(row.payment, i)
            /\ journal[row.payment][i].toState = row.state
  /\ \A p \in Payments : \A i \in DOMAIN journal[p] : Effect(p, i) =>
       \E row \in Changes :
         Enqueued(row) /\ row.payment = p /\ row.state = journal[p][i].toState

(* In the relay's hands: rows of the outbox.                               *)
HeldAreRows ==
  /\ \A r \in Relays : \A row \in batch[r] \cup sentIds[r] : Enqueued(row)
  /\ \A row \in taken : row \in Sited /\ Enqueued(row)

(* From the relay to the stream.                                           *)
EntriesAreTaken ==
  /\ \A id \in 1 .. Len(stream) : stream[id] \in Records =>
       \E row \in taken : stream[id] = RecordOf(row)
  /\ \A row \in taken : \E id \in 1 .. Len(stream) : stream[id] = RecordOf(row)

(* From the stream to the panel.                                           *)
ShownAreTaken ==
  \A k \in RecordKeys : panel[k] # "NONE" =>
    \E row \in taken : KeyOf(row) = k /\ row.state = panel[k]

CustodyInv ==
  /\ LadderTypeOK
  /\ RowsAreMoves
  /\ HeldAreRows
  /\ EntriesAreTaken
  /\ ShownAreTaken
=============================================================================
