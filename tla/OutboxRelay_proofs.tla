------------------------- MODULE OutboxRelay_proofs -------------------------
(***************************************************************************)
(* Proofs about OutboxRelay, for any number of relays and rows, any batch  *)
(* size, retry budget and number of crashes: no row is marked SENT without *)
(* having been handled, none is given up before its budget is spent, and   *)
(* no row is retried for ever.  With one relay a settled row stays so.     *)
(* All of it holds beside OutboxHealth's lag monitor as well.              *)
(***************************************************************************)
EXTENDS OutboxHealth, FiniteSetTheorems, TLAPS

-----------------------------------------------------------------------------
(* Every action names its relay, so the claim below is split along Next.   *)

(* The initial state satisfies the inductive invariant.                    *)
LEMMA RelayInit == Init => RelayInv
  BY KindAssumption, BoundsAssumption, NoRowAssumption
     DEF Init, RelayInv, TypeOK, Carried, SentWasHandled,
         DeadOnlyWhenExhausted, Statuses, PCs

(* What follows the loop body: one of three labels, and markSent or idle   *)
(* only once no claimed row is left.                                       *)
LEMMA AfterRowCases ==
  ASSUME NEW r \in Relays, NEW left, NEW sent
  PROVE  /\ AfterRow(r, left, sent) \in {"publish", "markSent", "idle"}
         /\ AfterRow(r, left, sent) = "markSent" => left = {}
         /\ AfterRow(r, left, sent) = "idle" => left = {} /\ sent = {}
  BY DEF AfterRow

(* A claim: the counts it returns are those of the table.                  *)
LEMMA ClaimKeepsInv ==
  ASSUME RelayInv, NEW r \in Relays, NEW rows \in SUBSET Rows, Claim(r, rows)
  PROVE  RelayInv'
<1> USE KindAssumption, NoRowAssumption
<1>1. TypeOK'
  BY DEF RelayInv, TypeOK, Claim, Statuses, PCs
<1>2. ASSUME NEW q \in Relays PROVE Carried(q)'
  BY <1>2, <1>1 DEF RelayInv, TypeOK, Carried, Claim
<1>3. SentWasHandled' /\ DeadOnlyWhenExhausted'
  BY DEF RelayInv, SentWasHandled, DeadOnlyWhenExhausted, Claim
<1>4. QED
  BY <1>1, <1>2, <1>3 DEF RelayInv

(* A publish that resolves: the row moves from the batch to the list to be *)
(* marked, and it is handled by then.                                      *)
LEMMA PublishKeepsInv ==
  ASSUME RelayInv, NEW r \in Relays, NEW row \in Rows, Publish(r, row)
  PROVE  RelayInv'
<1> USE KindAssumption, NoRowAssumption
<1>0. /\ \A q \in Relays \ {r} : pc'[q] = pc[q]
      /\ pc' \in [Relays -> PCs]
      /\ pc'[r] \in {"publish", "markSent", "idle"}
      /\ pc'[r] = "markSent" => batch'[r] = {}
      /\ pc'[r] = "idle" => batch'[r] = {} /\ sentIds'[r] = {}
  <2>1. /\ pc' = [pc EXCEPT ![r] = AfterRow(r, batch'[r], sentIds'[r])]
        /\ pc \in [Relays -> PCs]
    BY DEF RelayInv, TypeOK, Publish
  <2>2. pc'[r] = AfterRow(r, batch'[r], sentIds'[r])
    BY <2>1
  <2>3. QED
    BY <2>1, <2>2, AfterRowCases DEF PCs
<1>1. TypeOK'
  <2>1. published' \in SUBSET Rows /\ published \subseteq published'
    BY DEF RelayInv, TypeOK, Publish
  <2>2. batch' \in [Relays -> SUBSET Rows] /\ sentIds' \in [Relays -> SUBSET Rows]
    BY DEF RelayInv, TypeOK, Publish
  <2>3. ASSUME NEW q \in Relays
        PROVE  /\ pc'[q] = "idle" => batch'[q] = {} /\ sentIds'[q] = {}
               /\ IF pc'[q] = "recordFailure" THEN failing'[q] \in batch'[q]
                                              ELSE failing'[q] = NoRow
    <3>1. CASE q = r
      BY <3>1, <1>0 DEF RelayInv, TypeOK, Publish
    <3>2. CASE q # r
      BY <3>2, <1>0 DEF RelayInv, TypeOK, Publish
    <3>3. QED BY <3>1, <3>2
  <2>4. QED
    BY <1>0, <2>1, <2>2, <2>3 DEF RelayInv, TypeOK, Publish, table
<1>2. ASSUME NEW q \in Relays PROVE Carried(q)'
  <2>1. CASE q = r
    BY <2>1, <1>0 DEF RelayInv, TypeOK, Carried, Publish, table
  <2>2. CASE q # r
    BY <2>2, <1>0 DEF RelayInv, TypeOK, Carried, Publish, table
  <2>3. QED BY <2>1, <2>2
<1>3. SentWasHandled' /\ DeadOnlyWhenExhausted'
  BY DEF RelayInv, SentWasHandled, DeadOnlyWhenExhausted, Publish, table
<1>4. QED
  BY <1>1, <1>2, <1>3 DEF RelayInv

(* A publish that rejects: the bus may have taken the record all the same. *)
LEMMA PublishFailsKeepsInv ==
  ASSUME RelayInv, NEW r \in Relays, NEW row \in Rows, PublishFails(r, row)
  PROVE  RelayInv'
<1> USE KindAssumption, NoRowAssumption
<1>0. published \subseteq published' /\ published' \in SUBSET Rows
  BY DEF RelayInv, TypeOK, PublishFails
<1>1. TypeOK'
  BY <1>0 DEF RelayInv, TypeOK, PublishFails, table, PCs
<1>2. ASSUME NEW q \in Relays PROVE Carried(q)'
  BY <1>0, <1>2 DEF RelayInv, TypeOK, Carried, PublishFails, table
<1>3. SentWasHandled' /\ DeadOnlyWhenExhausted'
  BY <1>0 DEF RelayInv, SentWasHandled, DeadOnlyWhenExhausted, PublishFails, table
<1>4. QED
  BY <1>1, <1>2, <1>3 DEF RelayInv

(* A recorded failure: the relay's count was not ahead of the table, so a  *)
(* row it gives up has reached the budget in the table too.                *)
LEMMA RecordFailureKeepsInv ==
  ASSUME RelayInv, NEW r \in Relays, RecordFailure(r)
  PROVE  RelayInv'
<1> USE KindAssumption, NoRowAssumption, BoundsAssumption
<1>a. PICK row \in Rows :
        /\ row = failing[r]
        /\ row \in batch[r]
        /\ seen[r][row] <= attempts[row]
  BY DEF RelayInv, TypeOK, Carried, RecordFailure
<1>b. /\ attempts' = [attempts EXCEPT ![row] = @ + 1]
      /\ status' = [status EXCEPT ![row] = IF Exhausted(r, row) THEN "failed" ELSE @]
      /\ due' = [due EXCEPT ![row] = Exhausted(r, row)]
      /\ batch' = [batch EXCEPT ![r] = @ \ {row}]
      /\ failing' = [failing EXCEPT ![r] = NoRow]
      /\ pc' = [pc EXCEPT ![r] = AfterRow(r, batch'[r], sentIds[r])]
      /\ UNCHANGED <<published, seen, sentIds, aborts>>
  BY <1>a DEF RecordFailure
<1>c. /\ \A x \in Rows : attempts[x] <= attempts'[x]
      /\ attempts' \in [Rows -> Nat]
      /\ Exhausted(r, row) \in BOOLEAN
  BY <1>a, <1>b DEF RelayInv, TypeOK, Exhausted
<1>d. /\ \A q \in Relays \ {r} : pc'[q] = pc[q]
      /\ pc' \in [Relays -> PCs]
      /\ pc'[r] \in {"publish", "markSent", "idle"}
      /\ pc'[r] = "markSent" => batch'[r] = {}
      /\ pc'[r] = "idle" => batch'[r] = {} /\ sentIds'[r] = {}
  <2>1. /\ pc' = [pc EXCEPT ![r] = AfterRow(r, batch'[r], sentIds'[r])]
        /\ pc \in [Relays -> PCs]
    BY <1>b DEF RelayInv, TypeOK
  <2>2. pc'[r] = AfterRow(r, batch'[r], sentIds'[r])
    BY <2>1
  <2>3. QED
    BY <2>1, <2>2, AfterRowCases DEF PCs
<1>1. TypeOK'
  <2>1. /\ status' \in [Rows -> Statuses] /\ due' \in [Rows -> BOOLEAN]
        /\ batch' \in [Relays -> SUBSET Rows]
        /\ failing' \in [Relays -> Rows \cup {NoRow}]
    BY <1>a, <1>b, <1>c DEF RelayInv, TypeOK, Statuses
  <2>2. ASSUME NEW q \in Relays
        PROVE  /\ pc'[q] = "idle" => batch'[q] = {} /\ sentIds'[q] = {}
               /\ IF pc'[q] = "recordFailure" THEN failing'[q] \in batch'[q]
                                              ELSE failing'[q] = NoRow
    <3>1. CASE q = r
      BY <3>1, <1>b, <1>d DEF RelayInv, TypeOK
    <3>2. CASE q # r
      BY <3>2, <1>b, <1>d DEF RelayInv, TypeOK
    <3>3. QED BY <3>1, <3>2
  <2>3. QED
    BY <1>b, <1>c, <1>d, <2>1, <2>2 DEF RelayInv, TypeOK
<1>2. ASSUME NEW q \in Relays PROVE Carried(q)'
  <2>1. \A x \in batch'[q] : x \in batch[q] /\ seen'[q][x] <= attempts'[x]
    <3>1. ASSUME NEW x \in batch'[q] PROVE x \in batch[q] /\ seen'[q][x] <= attempts'[x]
      <4>1. x \in batch[q] /\ x \in Rows
        BY <1>b DEF RelayInv, TypeOK
      <4>2. seen[q][x] <= attempts[x] /\ attempts[x] <= attempts'[x]
        BY <4>1, <1>c DEF RelayInv, Carried
      <4>3. seen[q][x] \in Nat /\ attempts[x] \in Nat /\ attempts'[x] \in Nat
        BY <4>1, <1>c DEF RelayInv, TypeOK
      <4>4. QED BY <1>b, <4>1, <4>2, <4>3
    <3>2. QED BY <3>1
  <2>2. \A x \in sentIds'[q] : x \in published' \/ Kind[x] = "conflict"
    BY <1>b DEF RelayInv, Carried
  <2>3. pc'[q] = "markSent" => batch'[q] = {}
    <3>1. CASE q = r
      BY <3>1, <1>d
    <3>2. CASE q # r
      BY <3>2, <1>b, <1>d DEF RelayInv, Carried, TypeOK
    <3>3. QED BY <3>1, <3>2
  <2>4. QED BY <2>1, <2>2, <2>3 DEF Carried
<1>3. SentWasHandled'
  BY <1>b DEF RelayInv, TypeOK, SentWasHandled
<1>4. DeadOnlyWhenExhausted'
  <2>1. SUFFICES ASSUME NEW x \in Rows, status'[x] = "failed", Kind[x] # "garbled"
                 PROVE  attempts'[x] >= MaxAttempts
    BY DEF DeadOnlyWhenExhausted
  <2>2. CASE status[x] = "failed"
    BY <2>1, <2>2, <1>c DEF RelayInv, TypeOK, DeadOnlyWhenExhausted
  <2>3. CASE status[x] # "failed"
    <3>1. x = row /\ Exhausted(r, row)
      BY <2>1, <2>3, <1>b, <1>c DEF RelayInv, TypeOK
    <3>2. seen[r][row] + 1 >= MaxAttempts
      BY <2>1, <3>1 DEF Exhausted
    <3>3. QED
      BY <3>1, <3>2, <1>a, <1>b DEF RelayInv, TypeOK
  <2>4. QED BY <2>2, <2>3
<1>5. QED
  BY <1>1, <1>2, <1>3, <1>4 DEF RelayInv

(* The mark: everything on the list was handled.                           *)
LEMMA MarkSentKeepsInv ==
  ASSUME RelayInv, NEW r \in Relays, MarkSent(r)
  PROVE  RelayInv'
<1> USE KindAssumption, NoRowAssumption
<1>1. TypeOK'
  BY DEF RelayInv, TypeOK, Carried, MarkSent, Statuses, PCs
<1>2. ASSUME NEW q \in Relays PROVE Carried(q)'
  BY <1>2 DEF RelayInv, TypeOK, Carried, MarkSent
<1>3. SentWasHandled' /\ DeadOnlyWhenExhausted'
  BY DEF RelayInv, TypeOK, Carried, SentWasHandled, DeadOnlyWhenExhausted, MarkSent
<1>4. QED
  BY <1>1, <1>2, <1>3 DEF RelayInv

(* A tick that dies and a clock that runs lose nothing that was recorded.  *)
LEMMA AbortKeepsInv ==
  ASSUME RelayInv, NEW r \in Relays, Abort(r)
  PROVE  RelayInv'
<1> USE KindAssumption, NoRowAssumption, BoundsAssumption
<1>1. TypeOK'
  BY DEF RelayInv, TypeOK, Abort, table, PCs
<1>2. ASSUME NEW q \in Relays PROVE Carried(q)'
  BY <1>2 DEF RelayInv, TypeOK, Carried, Abort, table
<1>3. SentWasHandled' /\ DeadOnlyWhenExhausted'
  BY DEF RelayInv, SentWasHandled, DeadOnlyWhenExhausted, Abort, table
<1>4. QED
  BY <1>1, <1>2, <1>3 DEF RelayInv

LEMMA EnqueueKeepsInv ==
  ASSUME RelayInv, NEW row \in Rows, Enqueue(row)
  PROVE  RelayInv'
<1>1. TypeOK'
  BY DEF RelayInv, TypeOK, Enqueue, Statuses
<1>2. QED
  BY <1>1 DEF RelayInv, TypeOK, Carried, SentWasHandled, DeadOnlyWhenExhausted,
              Enqueue

LEMMA ElapseKeepsInv ==
  ASSUME RelayInv, NEW row \in Rows, Elapse(row)
  PROVE  RelayInv'
  BY DEF RelayInv, TypeOK, Carried, SentWasHandled, DeadOnlyWhenExhausted, Elapse

LEMMA RelayStep == RelayInv /\ [Next]_vars => RelayInv'
<1> SUFFICES ASSUME RelayInv, [Next]_vars PROVE RelayInv'
  OBVIOUS
<1>1. CASE UNCHANGED vars
  BY <1>1 DEF vars, RelayInv, TypeOK, Carried, SentWasHandled, DeadOnlyWhenExhausted
<1>2. ASSUME NEW r \in Relays, Tick(r) PROVE RelayInv'
  BY <1>2, ClaimKeepsInv, PublishKeepsInv, PublishFailsKeepsInv,
     RecordFailureKeepsInv, MarkSentKeepsInv DEF Tick
<1>3. QED
  BY <1>1, <1>2, AbortKeepsInv, EnqueueKeepsInv, ElapseKeepsInv
     DEF Next

-----------------------------------------------------------------------------
(* The inductive invariant holds in every reachable state.                 *)
THEOREM RelayInvariant == Spec => []RelayInv
  BY RelayInit, RelayStep, PTL DEF Spec

(* Type correctness of the relay.                                          *)
THEOREM RelayTypeCorrect == Spec => []TypeOK
<1>1. RelayInv => TypeOK BY DEF RelayInv
<1>2. QED BY <1>1, RelayInvariant, PTL

(* No silent loss: a row marked SENT was accepted by the bus, or it is a   *)
(* conflict alert (relayOutbox pushes to sentIds only after the await).    *)
THEOREM NothingSilentlyLost == Spec => []SentWasHandled
<1>1. RelayInv => SentWasHandled BY DEF RelayInv
<1>2. QED BY <1>1, RelayInvariant, PTL

(* No row is given up before MaxAttempts failures are on record for it,    *)
(* however many relays work from stale counts.                             *)
THEOREM NoPrematureDeadLetter == Spec => []DeadOnlyWhenExhausted
<1>1. RelayInv => DeadOnlyWhenExhausted BY DEF RelayInv
<1>2. QED BY <1>1, RelayInvariant, PTL

-----------------------------------------------------------------------------
(* The bound on retries                                                    *)

(* Sets of relays are finite, and fewer relays count less.                 *)
LEMMA CountRelays ==
  ASSUME NEW A \in SUBSET Relays, NEW B \in SUBSET A
  PROVE  /\ Cardinality(Relays) \in Nat \ {0}
         /\ Cardinality(A) \in Nat /\ Cardinality(B) \in Nat
         /\ Cardinality(B) <= Cardinality(A)
         /\ Cardinality(A) <= Cardinality(Relays)
         /\ \A r \in A : r \notin B => Cardinality(B) + 1 <= Cardinality(A)
<1>1. /\ IsFiniteSet(Relays) /\ IsFiniteSet(A) /\ IsFiniteSet(B)
      /\ Cardinality(B) <= Cardinality(A) /\ Cardinality(A) <= Cardinality(Relays)
  BY RelaysAssumption, FS_Subset
<1>2. /\ Cardinality(Relays) \in Nat /\ Cardinality(Relays) # 0
      /\ Cardinality(A) \in Nat /\ Cardinality(B) \in Nat
  BY <1>1, RelaysAssumption, FS_CardinalityType, FS_EmptySet
<1>3. ASSUME NEW r \in A, r \notin B PROVE Cardinality(B) + 1 <= Cardinality(A)
  <2>1. Cardinality(A \ {r}) = Cardinality(A) - 1 /\ IsFiniteSet(A \ {r})
    BY <1>1, FS_RemoveElement
  <2>2. B \in SUBSET (A \ {r})
    BY <1>3
  <2>3. Cardinality(B) <= Cardinality(A \ {r})
    BY <2>1, <2>2, FS_Subset
  <2>4. QED
    BY <1>2, <2>1, <2>3
<1>4. QED
  BY <1>1, <1>2, <1>3

(* The holders of a row, and the stale ones among them, are relays.        *)
LEMMA HoldersAreRelays ==
  ASSUME NEW row \in Rows
  PROVE  /\ Holders(row) \in SUBSET Relays /\ Stale(row) \in SUBSET Holders(row)
         /\ Holders(row)' \in SUBSET Relays /\ Stale(row)' \in SUBSET Holders(row)'
  BY DEF Holders, Stale

(* A step in which no relay gains the row and no attempt is counted.       *)
LEMMA NoNewClaimKeepsBudget ==
  ASSUME TypeOK, RetryBudget,
         attempts' = attempts,
         NEW row \in Rows,
         status'[row] = "absent" => status[row] = "absent",
         status'[row] = "pending" => status[row] \in {"absent", "pending"},
         Holders(row)' \subseteq Holders(row),
         Stale(row)' \subseteq Stale(row)
  PROVE  /\ status'[row] = "absent" => attempts'[row] = 0 /\ Holders(row)' = {}
         /\ status'[row] = "pending" =>
              attempts'[row] + Cardinality(Stale(row)') + 2
                <= MaxAttempts + Cardinality(Relays)
         /\ attempts'[row] + Cardinality(Holders(row)') + 2
              <= MaxAttempts + 2 * Cardinality(Relays)
<1>1. /\ Cardinality(Holders(row)') <= Cardinality(Holders(row))
      /\ Cardinality(Stale(row)') <= Cardinality(Stale(row))
      /\ Cardinality(Holders(row)) \in Nat /\ Cardinality(Holders(row)') \in Nat
      /\ Cardinality(Stale(row)) \in Nat /\ Cardinality(Stale(row)') \in Nat
      /\ Cardinality(Relays) \in Nat \ {0}
  <2>1. Stale(row) \in SUBSET Relays
    BY HoldersAreRelays
  <2>2. QED
    BY <2>1, HoldersAreRelays, CountRelays
<1>2. attempts[row] \in Nat /\ attempts'[row] = attempts[row]
  BY DEF TypeOK
<1>3. CASE status[row] = "absent"
  <2>1. attempts[row] = 0 /\ Holders(row) = {}
    BY <1>3 DEF RetryBudget
  <2>2. Stale(row)' = {} /\ Holders(row)' = {} /\ Cardinality({}) = 0
    BY <2>1, FS_EmptySet DEF Stale
  <2>3. QED
    BY <1>1, <1>2, <2>1, <2>2, BoundsAssumption
<1>4. CASE status[row] # "absent"
  BY <1>1, <1>2, <1>4, BoundsAssumption DEF RetryBudget
<1>5. QED
  BY <1>3, <1>4

(* A claim below the last attempt makes a stale holder, but leaves room    *)
(* for every relay to be one; a claim at the last attempt makes none.      *)
LEMMA ClaimKeepsBudget ==
  ASSUME TypeOK, RetryBudget, NEW r \in Relays, NEW rows \in SUBSET Rows,
         Claim(r, rows)
  PROVE  RetryBudget'
<1> USE DEF TypeOK
<1>0. /\ batch[r] = {} /\ UNCHANGED <<status, attempts>>
      /\ batch' = [batch EXCEPT ![r] = rows]
      /\ \A q \in Relays \ {r} : seen'[q] = seen[q]
      /\ \A row \in rows : status[row] = "pending" /\ seen'[r][row] = attempts[row]
  BY DEF Claim, Claimable
<1> SUFFICES ASSUME NEW row \in Rows
             PROVE  /\ status'[row] = "absent" => attempts'[row] = 0 /\ Holders(row)' = {}
                    /\ status'[row] = "pending" =>
                         attempts'[row] + Cardinality(Stale(row)') + 2
                           <= MaxAttempts + Cardinality(Relays)
                    /\ attempts'[row] + Cardinality(Holders(row)') + 2
                         <= MaxAttempts + 2 * Cardinality(Relays)
  BY DEF RetryBudget
<1>1. CASE row \notin rows
  <2>1. Holders(row)' \subseteq Holders(row) /\ Stale(row)' \subseteq Stale(row)
    BY <1>0, <1>1 DEF Holders, Stale
  <2>2. QED
    BY <1>0, <2>1, NoNewClaimKeepsBudget
<1>2. CASE row \in rows
  <2>1. /\ status[row] = "pending" /\ status'[row] = "pending"
        /\ attempts[row] \in Nat /\ attempts'[row] = attempts[row]
        /\ attempts[row] + Cardinality(Stale(row)) + 2
             <= MaxAttempts + Cardinality(Relays)
    BY <1>0, <1>2 DEF RetryBudget
  <2>2. Stale(row) \in SUBSET Relays /\ Stale(row)' \in SUBSET Relays
    BY HoldersAreRelays
  <2>3. /\ Cardinality(Relays) \in Nat \ {0}
        /\ Cardinality(Stale(row)) \in Nat /\ Cardinality(Stale(row)') \in Nat
        /\ Cardinality(Holders(row)') \in Nat
        /\ Cardinality(Stale(row)') <= Cardinality(Relays)
        /\ Cardinality(Holders(row)') <= Cardinality(Relays)
    BY <2>2, HoldersAreRelays, CountRelays
  <2>4. attempts'[row] + Cardinality(Stale(row)') + 2
          <= MaxAttempts + Cardinality(Relays)
    <3>1. CASE attempts[row] + 1 < MaxAttempts
      BY <3>1, <2>1, <2>3, BoundsAssumption
    <3>2. CASE ~(attempts[row] + 1 < MaxAttempts)
      <4>1. Stale(row)' \subseteq Stale(row)
        BY <1>0, <1>2, <3>2 DEF Holders, Stale
      <4>2. Cardinality(Stale(row)') <= Cardinality(Stale(row))
        BY <4>1, <2>2, CountRelays
      <4>3. QED
        BY <4>2, <2>1, <2>3, BoundsAssumption
    <3>3. QED
      BY <3>1, <3>2
  <2>5. QED
    BY <2>1, <2>3, <2>4, BoundsAssumption
<1>3. QED
  BY <1>1, <1>2

(* A failure that a stale holder records costs the row an attempt and that *)
(* holder; any other failure gives the row up.                             *)
LEMMA RecordFailureKeepsBudget ==
  ASSUME TypeOK, RetryBudget, NEW r \in Relays, RecordFailure(r)
  PROVE  RetryBudget'
<1> USE DEF TypeOK
<1>a. PICK x \in Rows : x = failing[r] /\ x \in batch[r]
  BY DEF RecordFailure
<1>b. /\ attempts' = [attempts EXCEPT ![x] = @ + 1]
      /\ status' = [status EXCEPT ![x] = IF Exhausted(r, x) THEN "failed" ELSE @]
      /\ batch' = [batch EXCEPT ![r] = @ \ {x}]
      /\ seen' = seen
  BY <1>a DEF RecordFailure
<1> SUFFICES ASSUME NEW row \in Rows
             PROVE  /\ status'[row] = "absent" => attempts'[row] = 0 /\ Holders(row)' = {}
                    /\ status'[row] = "pending" =>
                         attempts'[row] + Cardinality(Stale(row)') + 2
                           <= MaxAttempts + Cardinality(Relays)
                    /\ attempts'[row] + Cardinality(Holders(row)') + 2
                         <= MaxAttempts + 2 * Cardinality(Relays)
  BY DEF RetryBudget
<1>1. /\ Cardinality(Relays) \in Nat \ {0}
      /\ Cardinality(Stale(row)) \in Nat /\ Cardinality(Stale(row)') \in Nat
      /\ Cardinality(Holders(row)) \in Nat /\ Cardinality(Holders(row)') \in Nat
      /\ Cardinality(Holders(row)) <= Cardinality(Relays)
  <2>1. Stale(row) \in SUBSET Relays /\ Stale(row)' \in SUBSET Relays
    BY HoldersAreRelays
  <2>2. QED
    BY <2>1, HoldersAreRelays, CountRelays
<1>2. Holders(row)' \subseteq Holders(row) /\ Stale(row)' \subseteq Stale(row)
  BY <1>a, <1>b DEF Holders, Stale
<1>3. Cardinality(Holders(row)') <= Cardinality(Holders(row))
  BY <1>2, HoldersAreRelays, CountRelays
<1>4. CASE row # x
  <2>1. attempts'[row] = attempts[row] /\ status'[row] = status[row]
    BY <1>b, <1>4
  <2>2. Cardinality(Stale(row)') <= Cardinality(Stale(row))
    <3>1. Stale(row) \in SUBSET Relays
      BY HoldersAreRelays
    <3>2. QED
      BY <3>1, <1>2, CountRelays
  <2>3. Holders(row) = {} => Holders(row)' = {}
    BY <1>2
  <2>4. attempts[row] \in Nat
    OBVIOUS
  <2>5. QED
    BY <1>1, <1>3, <2>1, <2>2, <2>3, <2>4, BoundsAssumption DEF RetryBudget
<1>5. CASE row = x
  <2>1. /\ attempts[row] \in Nat /\ attempts'[row] = attempts[row] + 1
        /\ status'[row] = IF Exhausted(r, row) THEN "failed" ELSE status[row]
    BY <1>b, <1>5
  <2>2. r \in Holders(row) /\ r \notin Holders(row)'
    BY <1>a, <1>b, <1>5 DEF Holders
  <2>3. Cardinality(Holders(row)') + 1 <= Cardinality(Holders(row))
    BY <1>2, <2>2, HoldersAreRelays, CountRelays
  <2>4. status[row] # "absent" /\ status'[row] # "absent"
    BY <2>1, <2>2 DEF RetryBudget
  <2>5. ASSUME status'[row] = "pending"
        PROVE  attempts'[row] + Cardinality(Stale(row)') + 2
                 <= MaxAttempts + Cardinality(Relays)
    <3>1. status[row] = "pending" /\ ~Exhausted(r, row)
      BY <2>1, <2>5
    <3>2. seen[r][row] \in Nat /\ seen[r][row] + 1 < MaxAttempts
      BY <3>1, BoundsAssumption DEF Exhausted
    <3>3. r \in Stale(row) /\ r \notin Stale(row)'
      BY <2>2, <3>2 DEF Stale
    <3>4. Cardinality(Stale(row)') + 1 <= Cardinality(Stale(row))
      <4>1. Stale(row) \in SUBSET Relays
        BY HoldersAreRelays
      <4>2. QED
        BY <4>1, <1>2, <3>3, CountRelays
    <3>5. QED
      BY <1>1, <2>1, <3>1, <3>4, BoundsAssumption DEF RetryBudget
  <2>6. attempts'[row] + Cardinality(Holders(row)') + 2
          <= MaxAttempts + 2 * Cardinality(Relays)
    BY <1>1, <2>1, <2>3, BoundsAssumption DEF RetryBudget
  <2>7. QED
    BY <2>4, <2>5, <2>6
<1>6. QED
  BY <1>4, <1>5

(* In every other step no relay gains a row and nothing is counted.        *)
LEMMA OtherStepsKeepBudget ==
  ASSUME TypeOK, RetryBudget,
         \/ UNCHANGED vars
         \/ \E r \in Relays :
              \/ \E row \in Rows : Publish(r, row) \/ PublishFails(r, row)
              \/ MarkSent(r) \/ Abort(r)
         \/ \E row \in Rows : Enqueue(row) \/ Elapse(row)
  PROVE  RetryBudget'
<1> USE DEF TypeOK
<1>1. /\ attempts' = attempts /\ seen' = seen
      /\ \A q \in Relays : batch'[q] \subseteq batch[q]
  BY DEF vars, table, Publish, PublishFails, MarkSent, Abort, Enqueue, Elapse
<1>2. \A row \in Rows :
        /\ status'[row] = "absent" => status[row] = "absent"
        /\ status'[row] = "pending" => status[row] \in {"absent", "pending"}
  BY DEF vars, table, Publish, PublishFails, MarkSent, Abort, Enqueue, Elapse
<1>3. \A row \in Rows : Holders(row)' \subseteq Holders(row)
                          /\ Stale(row)' \subseteq Stale(row)
  BY <1>1 DEF Holders, Stale
<1>4. QED
  BY <1>1, <1>2, <1>3, NoNewClaimKeepsBudget DEF RetryBudget

(* Retries are bounded for any number of relays: the budget, and two more  *)
(* for every relay beside the first, whose count may be stale.             *)
THEOREM RetriesBounded == Spec => []AttemptsBounded
<1>1. Init => RetryBudget
  <2>1. ASSUME Init, NEW row \in Rows PROVE Holders(row) = {}
    BY <2>1 DEF Init, Holders
  <2>2. Cardinality({}) = 0 /\ Cardinality(Relays) \in Nat \ {0}
    BY FS_EmptySet, CountRelays
  <2>3. QED
    BY <2>1, <2>2, BoundsAssumption DEF Init, RetryBudget
<1>2. TypeOK /\ RetryBudget /\ [Next]_vars => RetryBudget'
  BY ClaimKeepsBudget, RecordFailureKeepsBudget, OtherStepsKeepBudget DEF Next, Tick
<1>3. TypeOK /\ RetryBudget => AttemptsBounded
  <2> SUFFICES ASSUME TypeOK, RetryBudget, NEW row \in Rows
               PROVE  attempts[row] <= MaxAttempts + 2 * (Cardinality(Relays) - 1)
    BY DEF AttemptsBounded
  <2>1. /\ Cardinality(Holders(row)) \in Nat /\ Cardinality(Relays) \in Nat
        /\ attempts[row] \in Nat
    BY HoldersAreRelays, CountRelays DEF TypeOK
  <2>2. attempts[row] + Cardinality(Holders(row)) + 2
          <= MaxAttempts + 2 * Cardinality(Relays)
    BY DEF RetryBudget
  <2>3. QED
    BY <2>1, <2>2, BoundsAssumption
<1>4. QED
  BY <1>1, <1>2, <1>3, RelayTypeCorrect, PTL DEF Spec

-----------------------------------------------------------------------------
(* A single relay                                                          *)

Single == \A r, q \in Relays : r = q

(* What the relay has in hand is still to be settled, and no row is on its *)
(* list to be marked while its publish can still fail.                     *)
InHand ==
  \A r \in Relays : /\ \A row \in batch[r] \cup sentIds[r] : status[row] = "pending"
                    /\ batch[r] \cap sentIds[r] = {}

LEMMA InHandStep ==
  ASSUME Single, RelayInv, InHand, Next
  PROVE  /\ InHand'
         /\ \A row \in Rows : status[row] \in {"sent", "failed"} => status'[row] = status[row]
<1> USE DEF RelayInv, TypeOK
<1>1. ASSUME NEW r \in Relays, NEW rows \in SUBSET Rows, Claim(r, rows) PROVE InHand'
  BY <1>1 DEF Claim, Claimable, InHand, Single
<1>2. ASSUME NEW r \in Relays, NEW row \in Rows, Publish(r, row) \/ PublishFails(r, row)
      PROVE  InHand'
  BY <1>2 DEF Publish, PublishFails, InHand, Single, table
<1>3. ASSUME NEW r \in Relays, RecordFailure(r)
      PROVE  /\ InHand'
             /\ \A row \in Rows : status[row] \in {"sent", "failed"} => status'[row] = status[row]
  <2>1. PICK x \in Rows : x = failing[r] /\ x \in batch[r]
    BY <1>3 DEF RecordFailure
  <2>2. /\ batch' = [batch EXCEPT ![r] = @ \ {x}] /\ sentIds' = sentIds
        /\ \A row \in Rows \ {x} : status'[row] = status[row]
    BY <1>3, <2>1 DEF RecordFailure
  <2>3. status[x] = "pending" /\ x \notin sentIds[r]
    BY <2>1 DEF InHand
  <2>4. InHand'
    BY <2>1, <2>2, <2>3 DEF InHand, Single
  <2>5. QED
    BY <2>2, <2>3, <2>4
<1>4. ASSUME NEW r \in Relays, MarkSent(r)
      PROVE  /\ InHand'
             /\ \A row \in Rows : status[row] \in {"sent", "failed"} => status'[row] = status[row]
  <2>1. batch[r] = {}
    BY <1>4 DEF MarkSent, Carried
  <2>2. QED
    BY <1>4, <2>1 DEF MarkSent, InHand, Single
<1>5. ASSUME NEW r \in Relays, Abort(r) PROVE InHand'
  BY <1>5 DEF Abort, InHand, Single, table
<1>6. ASSUME NEW row \in Rows, Enqueue(row) \/ Elapse(row)
      PROVE  /\ InHand'
             /\ \A x \in Rows : status[x] \in {"sent", "failed"} => status'[x] = status[x]
  BY <1>6 DEF Enqueue, Elapse, InHand
<1>7. \/ status' = status
      \/ \E r \in Relays : RecordFailure(r) \/ MarkSent(r)
      \/ \E row \in Rows : Enqueue(row) \/ Elapse(row)
  BY DEF Next, Tick, Claim, Publish, PublishFails, Abort, table
<1>8. InHand'
  BY <1>1, <1>2, <1>3, <1>4, <1>5, <1>6 DEF Next, Tick
<1>9. \A row \in Rows : status[row] \in {"sent", "failed"} => status'[row] = status[row]
  BY <1>3, <1>4, <1>6, <1>7
<1>10. QED
  BY <1>8, <1>9

(* With one relay a settled row stays as it is, whatever leases lapse and  *)
(* ticks die: relayOutbox never records a failure of a row it is also to   *)
(* mark, and claims no row before it has settled those in hand.            *)
THEOREM SettledForGood == ASSUME Single PROVE Spec => SettledIsFinal
<1>1. Init => InHand
  BY DEF Init, InHand
<1>2. RelayInv /\ InHand /\ [Next]_vars => InHand'
  <2>1. InHand /\ UNCHANGED vars => InHand'
    BY DEF InHand, vars
  <2>2. QED
    BY <2>1, InHandStep
<1>3. RelayInv /\ InHand /\ [Next]_vars =>
        [\A row \in Rows : status[row] \in {"sent", "failed"} => status'[row] = status[row]]_vars
  BY InHandStep
<1>4. QED
  BY <1>1, <1>2, <1>3, RelayInvariant, PTL DEF Spec, SettledIsFinal

-----------------------------------------------------------------------------
(* The monitor beside the relays                                           *)

(* The lag monitor (checkLag) only watches: beside it the relays behave as *)
(* they do alone, so all of the above holds of them.                       *)
THEOREM MonitorOnlyWatches == HealthSpec => Spec
<1>1. HealthInit => Init
  BY DEF HealthInit
<1>2. [HealthNext]_healthVars => [Next]_vars
  BY DEF HealthNext, Age, ReadHealth, Conclude, healthVars
<1>3. QED
  BY <1>1, <1>2, PTL DEF HealthSpec, Spec

(* Among the consequences: beside the monitor, too, a settled row stays so.*)
THEOREM MonitoredSettledForGood == ASSUME Single PROVE HealthSpec => SettledIsFinal
  BY SettledForGood, MonitorOnlyWatches, PTL
=============================================================================
