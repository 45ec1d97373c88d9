# TLA+ verification of the Baalvion platform's payment, stock and wallet paths

The repository is a monorepo of about sixteen thousand files: some fifty Node services, shared
TypeScript packages, a suite of Java financial services, a Go gateway and several frontends. Most
of it is CRUD and presentation. The parts that carry logic of their own under concurrency and failure are
few, and this project models them: the path a payment takes from a provider's report to the
operators' screen; the resilience layer that guards outbound calls to vendors; the stock an order
takes, keeps and gives back; the wallet's balances and holds; and the event bus's durable
subscription.

```
 webhooks, sagas, sweeps            service database (schema pcl)             Redis            admin-service
 ───────────────────────   ────────────────────────────────────────   ────────────────   ──────────────────────
  PaymentEvent ──apply()──▶ payment_inbox │ payment_state │ outbox ──relay──▶ event_stream ──group──▶ payment_records
                            └──────── one transaction ───────┘          ▲                             (the panel)
                                                             lag monitor┘
```

```
 trade adapters ──request()──▶ circuit breaker ──▶ bulkhead (slots, waiting room) ──▶ attempts ──▶ vendor host
                  ◀─ CIRCUIT_OPEN ┘    ▲   ◀─ BULKHEAD_FULL ┘                              │
                                       └──────────────── outcome of the whole request ─────┘
```

```
 order-service                                        inventory-service
 createOrder ──own transaction──▶ inventory_stock ◀── lock / sweep / release / confirm ◀── carts
      └──────── one hold per line, over HTTP ──────▶  inventory_reservations           adjustStock
 capture, fail, cancel ── transaction, then one call per recorded hold ──▶
```

Paths below are relative to `src/Backend/`; `pcl` stands for `packages/payment-consistency/src`,
`events` for `packages/events/src`, `admin` for `services/platform/admin-service/service`,
`resilience` for `packages/resilience/src`, `orders` for `services/commerce/order-service/service`,
`inventory` for `services/commerce/inventory-service/service`, `wallet` for
`services/commerce/financial-services-java/wallet-service`, `httpClient.js` for
`services/trade/order-execution-service/integrations/_shared/httpClient.js`.

## Inventory

| Component | State | Operations | Interacts with | What is hard | What makes it correct |
|---|---|---|---|---|---|
| State machine (`pcl/{states,events,decide,stateMachine,pgStore}.ts`) | `payment_state`, `payment_inbox`, `payment_outbox` | `apply`: claim key, lock row, decide, advance, enqueue, commit | called by every service that takes money; feeds the relay through the outbox | concurrent, repeated, reordered, contradictory reports; crash at any statement | exactly-once effects; no lost update; contradictions surface; the state converges |
| Outbox relay (`events/outbox.ts`, `events/pgOutboxStore.ts`) | row status, attempts, `available_at`; in memory: batch, `sentIds` | claim with a lease, publish, record failure, mark sent | reads the outbox, publishes to the bus | lease lapses under a publish, tick dies between publish and mark, poison rows | at-least-once: nothing marked sent unhandled, nothing given up early, every row settles |
| Lag monitor (`pcl/relay.ts`) | `wasStalled` | `checkLag` on an interval | reads the outbox beside the relay | checks overlap | the alarm follows the backlog |
| Panel consumer (`admin/paymentRecordsConsumer.js`) | consumer group: last id, pending list, delivery counts | reclaim, read, handle, ack, bury | reads the stream, writes the read model | an entry reclaimed while still being handled; death between upsert and ack | an acked payment is shown or was buried; every entry leaves the pending list |
| Panel read model (`admin/paymentRecordsService.js`) | `admin.payment_records` | rank-guarded upsert, listing, pruning | called by the consumer | late and repeated deliveries | a payment is never taken back |
| Record, spine and normalisers (`pcl/record.ts`, `spine.ts`, `normalize.ts`) | none | pure mappings | in front of `apply`, and in the relay's publisher | missing attribution | attribution carried through |
| Event bus (`events/broker.ts`, `events/index.ts`) | consumer group: last id, pending list; each pod's batch | publish, subscribe, reclaim at subscribe, read, handle, ack | between publishers and every service with a durable subscription | a failed handler's entry waits for a restart; a batch is abandoned half-way | nothing acked unhandled; restarts drain what is pending |
| Idempotent consumer (`events/outbox.ts:233-273`) | set of seen ids | `firstSeen`, wrap a handler | nothing in the repository | seen before handled | no event skipped unhandled |
| Order-service (`orders/orderService.js`, `inventoryClient.js`) | orders, payments, the lock ids on an order | create, capture, record, refund, fail, cancel | writes stock rows itself and asks inventory-service for holds; reports to `apply` fire-and-forget | two guards on one shelf; calls after a commit; cancel racing capture; a crash in between | no shortfall and no left-over hold goes unnoticed; one capture fulfils once |
| Inventory (`inventory/reservationService.js`, `stockService.js`) | stock rows, holds with a TTL | lock, sweep, release, confirm, adjust | called by order-service and carts | a hold lapses under its order; unlocked `adjustStock` | reserved = what active holds ask for; never more than on the shelf; a hold settles once |
| Wallet (`wallet/.../WalletService.java`) | balances (available, held), holds, entries | credit, debit, hold, release, capture, transfer, convert, sweep | clients with idempotency keys, the scheduler | several row locks, statuses read without one, keys checked before they are written | no overdraft; a key is spent once; the books balance; entries explain balances |
| Circuit breaker (`resilience/circuit-breaker.js`) | state, failure count, next attempt, active probes | `exec`, success, failure, error that does not count | wraps any call | calls that outlive the state they were admitted in | no leaked probe slot; it never stays shut |
| Bulkhead (`resilience/bulkhead.js`) | active count, queue | `exec`, wait, abort, hand over | wraps any call | a slot is between two owners for a microtask; aborts | slots and queue accounted for; every waiter leaves |
| Vendor HTTP client (`httpClient.js`) | one breaker and one bulkhead per host, attempt counter | `request`, retry, report | called by the trade adapters; breaker around bulkhead around attempts | admitted, then queued or shed, while the circuit changes | the layers keep each other's accounts; only outages trip |
| Other resilience primitives (`resilience/{retry,timeout,rate-limit,resilient}.js`) | token bucket | retry, timeout, acquire | `createResilient` nests them | a timeout that leaves its call running | at most the configured attempts |
| Session tokens (`services/identity/auth-service`) | refresh tokens, families, sessions | refresh, logout, revoke | browsers and other services | separate statements without a lock | not stated here |

Everything else (CRUD services, the other Java services, gateway, frontends, infrastructure) is listed in
`PROJECT.json` under `components` with the reason it is left out. Every hazard met while reading,
with its line, is under `hazards`; one without a property says why.

## Modules

| Module | Models |
|---|---|
| `PaymentLifecycle` | states, event types, ranks, effects and `decide`; no variables |
| `PaymentLadder` | abstract promise of the state machine: a payment climbs or fails, and a journal gets one entry per move or contradiction |
| `PaymentStateMachine` | `apply` statement by statement, any number of workers; the refinement to `PaymentLadder`; the inductive invariant `IInv` |
| `PaymentStateMachine_proofs` | its theorems, the refinement included |
| `OutboxRelay` | relays over one outbox table; invariants `RelayInv`, `RetryBudget` |
| `OutboxHealth` | extends `OutboxRelay` with the lag monitor |
| `OutboxRelay_proofs` | theorems about both |
| `PaymentPanel` | consumer group and upsert; invariant `PanelInv` |
| `PaymentPipeline` | extends `PaymentPanel`, instantiates `PaymentLadder` as `Ladder` and `OutboxRelay` as `Relay`: the payment path from end to end; invariant `CustodyInv` |
| `PaymentPipeline_proofs` | theorems about the panel and about the path |
| `CircuitBreaker` | `exec` and the end of calls, any number of callers |
| `Bulkhead`, `Bulkhead_proofs` | slots and waiting room; invariant `BulkheadInv`; theorems |
| `VendorClient`, `VendorClient_proofs` | extends `CircuitBreaker`, instantiates `Bulkhead` as `Slots`, adds the retry loop; implements both; theorems about it and the breaker |
| `StockHolds` | stock rows, holds and corrections of inventory-service |
| `OrderStock`, `OrderStock_proofs` | extends `StockHolds` with order-service's orders, payments and calls; invariant `OrderInv`; theorems about both |
| `Wallet`, `Wallet_proofs` | wallet-service's requests as transactions with row locks; invariant `Locked`; theorems |
| `DurableGroup` | abstract promise of a durable subscription: entries are handed out in order and settled for good only once handled |
| `StreamConsumer`, `StreamConsumer_proofs` | the durable Redis Streams subscription of `broker.ts`; the refinement to `DurableGroup`; theorems |
| `MC*` | instances for TLC |

Operators named "Mutant" in a comment are wrong variants of the definition that follows them. No
specification uses them; they record which plausible mistake each property is able to notice.

### PaymentStateMachine

`payment`, `inbox` and `outbox` are what is committed. A worker's `record`, `staged` and `enqueued`
are the row it locked and what its transaction will commit, and `pc` is its next statement:

| Action | Code |
|---|---|
| `Deliver` | an adapter calls `apply(event)` (stateMachine.ts:89-98) |
| `ClaimFresh`, `ClaimDuplicate` | `inbox.claim` (pgStore.ts:194-204), the early return at stateMachine.ts:100-103 |
| `EnsureAndLock` | seed and `SELECT ... FOR UPDATE` (pgStore.ts:146-166) |
| `Ignore`, `SurfaceConflict`, `Advance` | the branches on `decide` (stateMachine.ts:110-124) |
| `Emit` | `emit` and `enqueue` (stateMachine.ts:131-162) |
| `Commit`, `Rollback` | the transaction runner (pgStore.ts:103-124); `Rollback` also stands for a crash |

PostgreSQL is modelled by its two waits. A second inserter of a key waits for the first one's
transaction (`KeyIsFree`), a second locker of a row for the holder's (`RowIsFree`). As the code
waits for a key before it takes a row, and a key belongs to one payment, no two transactions can
wait for each other; `EveryApplyReturns` checks that rather than assume it. The insert that
seeds a row waits in the same way as the lock after it, so the two statements are one action.

Attribution: `attr` is one column. The code keeps `siteId`, `tenantId` and `rail` each under its own
`COALESCE`, so any one of them behaves as `attr` does. Amounts, provider and metadata are carried
but never decided on, and are left out. Two events with one dedupe key that differ in attribution
are part of the instances.

### OutboxRelay

A row is `absent` until its producer's transaction commits (`Enqueue`), then pending, sent or
failed. Time is abstract: `due` says whether `available_at` has passed, and `Elapse` lets a lease or
a backoff run out at any moment, also under a publish, because nothing bounds a publish or renews a
lease. The publisher's outcomes are the four `Kinds` (record.ts:323-349): a record is published, a
conflict alert is acked without publishing, an unattributed envelope throws every time, and an
unparseable payload is given up at once. `PublishFails` may leave the record published: the bus took
it and its answer was lost. `Abort` is a crash or a store call that throws (outbox.ts:212-214).
Several relays are the replicas of a service, and `drainOnce` beside the interval of one process.
`claimBatch` orders by `available_at`; with abstract time any set of due rows may be claimed, which
contains every order.

### OutboxHealth

`ReadHealth` is the query of `readOutboxHealth`, `Conclude` the rest of `checkLag` once the answer
is there. The interval does not wait for a slow check, so two are in flight. `aged[row]` says that
the row was created longer ago than the threshold.

### PaymentPanel

A consumer's `pc` walks through `reclaimStale`, `XREADGROUP` and, for each entry of its batch,
upsert, `XACK`, `XPENDING` and the burial of poison, with an await between any two. `pending`,
`deliveries` and `idle` are what Redis keeps for the group. Each consumer is a replica; replicas
with equal names would only share a pending list, which the code never reads by consumer. An upsert
that commits and then throws is `Apply` followed by `AckFails`; a batch read by a process that died
before it arrived is `Read` followed by `Abort`. Trimming of the stream, party resolution and the
fee, net and tenant columns are left out.

### PaymentPipeline

The three parts only meet where the code meets, so an action of the path is an action of one part, or
of two that share a step:

| Action | Parts |
|---|---|
| `Change`, `Alert` | a move or a contradiction of the ladder and `Relay!Enqueue` of its row: one transaction (stateMachine.ts:117-125) |
| `Forward` | `Relay!Publish`, or a `Relay!PublishFails` whose answer was lost, and the panel's `Publish` of `RecordOf(row)` |
| `Withhold` | the bus refuses the record, the publisher acks an alert or throws for want of a site |
| `Housekeeping`, `LeaseEnds` | the relay's other steps; a lease or backoff runs out |
| `Consume` | everything the panel's replicas do |
| `Others` | other publishers' entries on the same stream |

The state machine appears as the specification it implements (`PaymentLadder`; `Refinement` proves
that it does). A member of `Changes` is one envelope: the payment, the state it moves to and the site
of the event that moved it. The site is the event's, not the row's, so one payment's envelopes may
carry different sites or none (`Sited` are those with one), and `KeyOf` is the panel's primary key.
`taken` is what the bus has accepted, the relay's `published`. What the panel's consumers show can
therefore be compared with what was committed at the other end.

### CircuitBreaker

`exec` decides synchronously, so its first half is one action (`ExecClosed`, `ExecProbe`); its second
half runs when the wrapped promise settles (`Succeed`, `Fail`, `Dismiss`). `admitted[c]` is the local
`state` of `exec` while the call runs. Nothing ties it to the breaker's present state, which is the
point of the model. A rejected `exec` leaves the state as it was and is no step: it cannot be the
first to see the window elapse, since the transition it would make resets the probe count and admits
it. `failures` saturates at the threshold, the only number it is compared with. `resetDue` says
whether `_nextAttempt` has passed, and `Elapse` lets it pass at any time.

### Bulkhead

`phase[c]` is where `exec` stands: `queued` in `_waitForSlot`, `granted` once `_release` has resolved
its promise and before the microtask that continues it, `running` in `fn`. In `granted` the slot is
counted although nobody runs in it. `Abort` is the `onAbort` listener, which `_release` removes.

### VendorClient

The state of one host. `Request` is one synchronous run through breaker and bulkhead, up to the first
fetch, the wait for a slot or `BULKHEAD_FULL`; `Answer` ends the loop and gives the slot back;
`Report` is the breaker's half of the promise chain, a microtask later. Between the two any other step
may happen, which allows more orders than JavaScript's microtask queue does. `Retry` and `SendAgain`
are the loop. `work[c]` is what the request awaits, or its outcome: whether the vendor was down
(`isVendorDown`) is all the breaker learns. No signal is passed on, so nothing queued is aborted.

### StockHolds

`hold[h]` is how far a lock call got and then its row's status. Operations that lock their rows
before reading them are one action (`Reserve`, `Release`, `Confirm`, each transaction of `Sweep`).
Two are not atomic in the code and are split: `lock` first lists the lapsed holds of its SKU
(`Lock`), frees them one transaction at a time (`Sweep`, which looks at the row again) and only then
reserves; `adjustStock` reads the row without a lock (`Count`) and writes it later (`Post`), where
the row's CHECK may refuse it. `Lapse` lets a TTL run out at any time. The count a clerk writes may
be any up to `MaxQuantity`, which contains inbound and outbound movements.

### OrderStock

| Action | Code |
|---|---|
| `Place`, `Decline` | createOrder's transaction with `reserveInventory` (orders/orderService.js:390-419, 509-562) |
| `Ask`, `Arrive`, `HearTaken`, `GiveUp`, `HearRefused` | one hold per line over HTTP: sent, carried out, and 201, no usable answer, or 409 (57-79, inventoryClient.js:61-97) |
| `GiveBack`, `Reject` | the compensation after a 409 (67-71, 574-582) |
| `Persist` | the lock ids are written on the order, or that fails (583-592) |
| `Crash` | the process dies in createOrder, or with calls owed after a commit |
| `Capture`, `DeclineCharge` | confirmPayment and capturePaymentFromWebhook under the order's row lock |
| `RecordPayment`, `Refund` | staff's entries, unlocked (685-790) |
| `BeginUndo`, `CommitUndo` | failPayment, cancelPayment, cancelOrder: read, talk to the provider, commit (653-666, 931-980) |
| `Call` | confirmLocks and releaseLocks, one call at a time, done or not, answered or not (82-99) |

A request that timed out may still `Arrive`. `InDb` are the SKUs whose stock row the order's own
transaction finds by `variant_id`: inventory-service keys stock by SKU, so a row may be seen by one
guard, by both or by neither. Stock rows are taken to exist (an untracked SKU is not guarded at all
and raises no alert), and an order has one line per SKU. `alerted` is the set of lines an alert went
out for; sending it is taken to succeed.

### Wallet

An account is a balance row: a wallet and a currency, numbered in the order `transfer` and `convert`
lock them. Each request is one transaction: `Look` for its key or `ReadHold`, without a lock; `Lock`
row after row (`SELECT ... FOR UPDATE`, or remember a row to insert); then `Apply`, `Refuse` for want
of funds, or `Fail` on a unique index or a version. `Abort` is PostgreSQL breaking a circle of waits.
`owner` are the row locks. The sweep locks in the order it happened to read its holds, everything
else in ascending order. `Swapped` is what transfer does when the source has the higher id. Amounts
are small naturals; currencies, references, wallet status, tenant and ownership checks and the
outbox are left out. Of an entry the model keeps the key, which its unique index is about, and not its
amount, direction or balance. `Accounts` and `Requests` are finite sets, as rows of a table and requests are; the
sums of the books are folds over them (`SumFunction`).

### StreamConsumer

Entries are numbered as their ids order them. A pod's `pc` is `reclaim` until its one XAUTOCLAIM is
through, then it reads and works through batches. A batch is the set of what is left of it; entries come
in the order of their ids, so `Current` is its least. `Reclaimable` are the oldest `Count` pending
entries idle for 30 s; `Idle` lets any pending entry reach that age, also under a slow handler.
Every Redis call may fail before or after it took effect (`ReclaimFails`, `ReadLost`, `SkipFails`,
`AckFails`), a handler may fail once (`Fault`) or always (`Poison`). Trimming (MAXLEN) is left out.

## Runs

| Run | Instance | Shows |
|---|---|---|
| `disputed_payment` | 2 workers, 2 payments; of the one: authorized, captured twice by two sources and a third time under the same key, settled, failed; of the other: captured | safety, the refinement, and `EveryApplyReturns` under fairness, in 100 664 states |
| `relays_share_table` | 2 relays, 3 rows (record, conflict, garbled), batches of 2, 2 attempts, 1 aborted tick | safety, bounded retries and `EveryRowSettles` when leases lapse, in 346 361 states |
| `lag_monitor` | 1 relay without fairness, 3 rows (record, garbled, unattributed), 2 overlapping checks | `AlarmFollowsBacklog`, and `SettledIsFinal` for a single relay, in 343 513 states |
| `panel_replicas` | 2 replicas, 2 entries, 2 deliveries, 1 crash | safety and `EveryEntryLeaves` |
| `payment_pipeline` | 1 payment that is authorized, fails, or is captured by a report without a site; 1 contradiction; 1 relay with 1 attempt and 1 lost tick; 1 replica with 1 delivery and 1 crash; 2 stream entries | what the panel shows against what was committed, in 1 601 070 states |
| `bulkhead` | 5 calls, 2 slots, 2 places to wait | slots, queue, `EveryWaiterLeaves`, in 411 states |
| `vendor_client` | 3 requests, 1 slot, 1 place to wait, threshold 2, 2 attempts | the composition, with a probe that queues and one that is shed, in 24 806 states |
| `order_stock` | an order of two lines (a SKU only inventory-service sees, with 1 unit, and one both see), a cart after the first SKU's unit, a clerk counting the second | stock, holds, alerts, in 3 868 844 states |
| `wallet` | 9 requests on 3 rows, one not created yet: two transfers under one key, one back, a conversion, two holds, a release, a capture, a sweep | balances, keys, locks, who is turned away and why (`FailsForCause`, `RefusedForCause`), how held may drift (`HeldDriftsOnlyLate`), and `EveryRequestReturns`, in 250 833 states |
| `stream_consumer` | 2 pods, 4 entries (one foreign, one poison), batches of 2, 2 faults | the refinement `ImplementsGroup`, which contains that nothing is acked unhandled, and `RestartsDrain`, in 69 079 states |
| `fulfilled_twice`, `hold_resolved_twice` | the same modules, reduced | the two disagreements below |

Why these bounds. A race needs two actors and one thing they race for. A longer cycle of waits would
need a worker that holds a row while it waits for a key, which no `pc` does, so two workers are
enough for `EveryApplyReturns` too. Each dedupe key is applied at most once, so the six events on
one payment bound every history without a counter; together they reach every state and every branch
of `decide`. The relay's counter matters at its limit, which two attempts reach by every route, and
one stale claim per extra relay is what can overshoot it; a row of each kind in batches of two lets
every row be ahead of, beside and behind every other. A panel entry has to be delivered twice to be
buried and be handled by two replicas at once, and two make a batch that may stop in its middle. In the
path the races of each part are covered by its own run; what is new is the order in which records of
one payment reach one row of the panel, and two records with two entries give every order, a repeated
delivery included, while one attempt and one delivery make giving up and burying common.

The breaker's counter matters at its limit, which threshold 2 reaches with calls to spare. In the
bulkhead the fifth caller is the one that is shed. In the client one slot and one place make the
third request the shed one, and any of them may be the probe.

The order's two lines are the least for which an earlier hold must be given back after a later
refusal; the cart makes that refusal, and the sweep's work, possible, and one unit makes every
oversell visible. One SKU is guarded by inventory-service alone, where `HoldsBackReserved` speaks,
the other by both. The wallet's requests are one of each kind that locks or resolves, with a
repeated key, a crossing pair of transfers and three rivals for one hold; that is every pair of
locking orders the code has. Four stream entries are two batches, with a foreign and a poison entry
able to stand at the head, in the middle or at the end of one.

The named bounds: `MaxAborts` and, in the path, `MaxLostTicks` (crashes and thrown calls of panel
replicas and of relays), `MaxStream`
and `Length` (entries ever published), `MaxFaults` (failed calls, failed handlers and crashes of
pods), `MaxCaptures` (captures of one order), `MaxQuantity` (what a clerk writes). Nothing else is
cut off.

`CHECK_DEADLOCK FALSE` appears where the system comes to rest: when every outbox row has settled,
every hold is gone and every order decided, or every wallet request has returned. The other systems
always have a next step.

### Fairness

- `PaymentStateMachine!Fairness`: a transaction runs its statements (weak). Waiting for a key or a
  row gets strong fairness: PostgreSQL queues waiters, so one is not overtaken for ever. Nothing
  says that a transaction commits; it may always roll back.
- `OutboxRelay!Fairness`: the interval keeps firing and awaited calls return; clocks advance. That
  the bus ever accepts a record is not assumed, publishes may fail for ever.
- `HealthFairSpec`: the check's interval fires and its query answers. The relay gets no fairness.
- `PaymentPanel!Fairness`: the pump loops, its calls return, clocks advance. Upserts and
  acknowledgements may fail for ever. Failing `XPENDING` calls and crashes are bounded by
  `MaxAborts`: an entry whose delivery count can never be read is retried for ever by design.
- `BulkheadFairness`, `VendorClient!Fairness`: the clock advances, microtasks run and wrapped calls
  settle (in the client by its deadline per attempt). Nothing is assumed of how they settle, and
  nobody has to call again: `HostAdmitsAgain` must hold without a new caller's help.
- `Wallet!Spec`: the database and its clients do not all stop while one of them can take a step
  (weak fairness of `Next` as a whole). Every request takes finitely many steps, so that is enough.
- `StreamConsumer!Fairness`: calls settle, clocks advance, and pods are replaced again and again,
  since nothing but subscribing reclaims. Reading gets strong fairness: a pod is not replaced every
  single time before it has read anything. No fairness on failures, whose number is bounded.
- `OrderStock` promises nothing in the end: what an order still owes dies with its process.

## Proofs

All theorems hold for every value of the constants under the modules' named assumptions (types of
the constants, positive bounds, the special values distinct); TLC evaluates those on every run.

**State machine.** `OutboxReplaysState` is not inductive: a commit extends the history by what was
decided on a row read several statements ago. `IInv` adds `Exclusive` (open transactions hold
distinct keys and rows), `OpenTransaction` (the locked row is still the committed one, the claimed
key is not committed, and what is staged follows from the two) and `ReportsAccounted` (each
committed report is covered by the state, or by an alert). One lemma per action shows that `IInv` is
preserved, `Commit` with one step per outcome of `decide`. From it follow type correctness,
`OutboxReplaysState`, `ExactlyOnceEffects`, `DisagreementSurfaced`, `NoFalseAlarm`,
`ConvergesToHighestReport`, and with one more step per action `LifecycleOnlyAdvances` and
`AttributionSticks`. `Refinement` proves `Spec => Ladder!Spec`: a commit is a `Move`, a `Contradict`
or a stutter, everything else stutters. `VersionsCount` follows from `IInv` and the cardinality of
the set of non-conflict entries.

**Relay.** `RelayInv` adds `Carried`: what a relay holds from one await to the next, its claimed
counts are never ahead of the table and what it will mark was handled. `SentWasHandled` and
`DeadOnlyWhenExhausted` follow although other relays change the same rows in between.
`AttemptsBounded` needs a potential, `RetryBudget`: the attempts recorded of a row, plus the relays
that hold it (`Holders`), of which those with a count below the limit (`Stale`) can still revive it,
never exceed the budget. A claim of a pending row, a recorded failure and a mark each pay for what
they add by giving one of the terms back.

**Panel.** `PanelInv` adds `Agrees` (what a consumer found out about its entry still holds when it
acts on it) and `HandedOut` (a delivered entry was delivered at least once, so a missing pending
entry counting as one delivery buries nothing early). `AckedIsOnPanel`, `BuriedWasRetried` and
`PanelNeverRegresses` follow.

**Path.** `PartsAreUsed` proves that every step of the path is a step or a stutter of the ladder, of the
relay and of the panel, so what was proved of each holds in it: the panel's theorems because the
path extends its module, the relay's through an instance of `OutboxRelay_proofs`. What is left is what
they hand to each other, `CustodyInv`: an outbox row for each move and none besides (`RowsAreMoves`),
the relay holds only rows (`HeldAreRows`), the stream's records are those the bus took and the other
way round (`EntriesAreTaken`), and the panel shows what an entry said (`ShownAreTaken`).
`ShowsOnlyHistory` is that chain read backwards. `LatestPrevails` joins it with `AckedIsOnPanel`: what
is shown ranks no lower than the acknowledged state, what was committed no higher than the latest, and
`STATE_RANK` tells states apart (`MovesAscend`). `ChainOfCustody` follows the row through
`SentWasHandled` and `AckedIsOnPanel`. None of the three needs to know how a part does its work.

**Breaker.** `BreakerTypeOK` is inductive; `NoLeakedProbe` is inductive beside it, with one lemma for
what a step does to the set of running probes. It holds because slots are only given back in excess:
late calls may free a slot they never took, never keep one.

**Bulkhead.** `BulkheadInv` joins the type with `SlotsAccounted`, `QueueHoldsWaiters` and `NoIdleSlot`,
which need each other: a hand-over keeps the count because the head of the queue is a waiter, and a
slot is only freed when the queue is empty.

**Client.** Every step of the client is a step or a stutter of each layer (`BreakerIsUsed`,
`BulkheadIsUsed`), so the theorems of the two modules are used through INSTANCE rather than proved
again: `LayersKeepAccount`. `ClientTypeCorrect` adds that the three layers agree on where each request
is, strengthened by "a request in backoff has attempts left". `OnlyOutagesTrip` is an action property:
of the reports, only that of an outage opens the circuit.

**Stock and orders.** `StepKinds` reduces every action to what it can do to the holds: nothing, move a
call on, take a hold, or free an active one. `HoldsBackReserved` (by the cardinality of the held
units) and `HoldSettlesOnce` follow from it; `StockInBounds` from both columns shrinking together
or the row's CHECK. `NoSilentShortfall` and `RejectedLeavesNothing` are not inductive: `OrderInv`
states, line by line, how what createOrder heard, what the hold became, what is still owed to it and
what was alerted agree (`LineAgrees`), and that an order is asked for one line at a time.

**Wallet.** `Locked` is the inductive invariant: a locking request has passed, or is at, every row it
needs (`Covers`), and a row it passed is its own and still as it read it, or did not exist
(`Backed`). It is preserved because whoever moves a balance holds its row. `FailsForCause` (nothing is ever
stale at commit) and `NoOverdraft` follow; `EachKeyOnce` from "the keys on file are those of applied
requests".

The books are sums over finite sets. `SumFunction` is a fold that chooses its elements one after the
other, and induction over finite sets is not to be had as a theorem here, so the proofs go by minimal
counterexample: the strict subset relation on finite subsets is well-founded, hence of the sets for which
a claim about the fold fails one would be smallest, and taking one element out of it gives a smaller one.
From that come the laws the proofs use (`SumTakesOut`, `SumsAdd`, `SumsAgree`, `SumOfUnion`), and from
them `LedgerBalances`: an applied request changes two sums by the same worth, whatever rows it swapped.
`RefusedForCause` is the other half of `NoOverdraft`: a spender is turned away only while its payer lacks
the money or has no row. It needs `Locked`, and that a row nobody has inserted holds nothing
(`UnbornEmpty`). Its exception is real: a transfer that swapped its rows and found none for its
destination has nothing to lock, and is refused although another request has created and credited the
row since. The run's accounts do not produce that case, the theorem covers it.
The claim of the schema about held that the code breaks gets its exact extent: `HeldDriftsOnlyLate` says
that held leaves its active holds only in a step that resolves a hold resolved before.

`OnlySweepsDeadlock`: suppose there is a circle of waits without a sweep in it, and take a smallest one.
Each member waits for a row above all it has locked (`InOrder`), hence for a lower row than the one its
owner waits for. Those who wait for higher rows than some member would then be a circle too, and a
smaller one (`CirclesNeedSweeps`).

**Event bus.** `GroupInv` says that the entry a pod is about to acknowledge was handled (`Handled`), also when
another pod has reclaimed it meanwhile, and that what was delivered and not acknowledged is pending
(`NothingForgotten`), so that no fault drops an entry out of reach of a later reclaim. `AckedWasHandled` follows, and `SubscriptionIsDurable` proves
`Spec => Promise!GroupSpec`: reads and lost answers are a `Deliver`, acknowledgements a `Settle` or, the
second time, a stutter.

**Relay, continued.** `SettledIsFinal` holds for one relay, and `SettledForGood` proves it under that
hypothesis (`Single`) only: with one relay, whatever it has in hand is still pending, and nothing it is
to mark can still fail (`InHand`). `MonitorOnlyWatches` proves that `HealthSpec` implies the relay's `Spec`, so that every
theorem about the relay holds beside the lag monitor.

**Only model-checked.** The liveness properties `EveryApplyReturns`, `EveryRowSettles`,
`AlarmFollowsBacklog`, `EveryEntryLeaves`, `EveryWaiterLeaves`, `HostAdmitsAgain`,
`EveryRequestEnds`, `EveryRequestReturns` and `RestartsDrain`: liveness under fairness is out of the
prover's reach. Every safety property and action property of the passing runs is a theorem.

**Only proved.** `NoFalseAlarm`, `AttributionSticks`, `LifecycleOnlyAdvances`, `BuriedWasRetried`,
`NoIdleSlot`, `AckedWasHandled`, the type invariants and the inductive invariants are theorems and have no
run of their own.

## Where code and documentation disagree

Each of these is a run that checks one quoted claim and finds it violated.

1. *"So it is idempotent AND never double-fulfills / double-ledgers / double-emails"*
   (orders/orderService.js:1092-1093). A capture counts as a repetition only while the order is
   `paid` (lines 887, 1111). After a refund, even a partial one, or a failure or cancellation that
   committed behind it, the same webhook delivered again fulfils the order a second time.
   `FulfilledOnce`.
2. *"held = reserved by active holds"* (wallet/.../V1__init.sql:21). releaseHold and captureHold read
   the status before they lock the balance (WalletService.java:185, 209) and holds have no version:
   two resolutions of one hold both apply. A release beside the sweep even makes money: both give
   the amount back. `HeldIsActiveHolds`; `HeldDriftsOnlyLate` shows that nothing else makes it wrong. (`LedgerBalances` counts what is available and held
   together, which a double release leaves right.)

Others came up while modelling and have no run of their own.

- Relay: *"The relay retries forever and never loses a row"* (pcl/relay.ts:52-53): after ten refused
  publishes a row is `failed` and never claimed again (events/outbox.ts:160). *"Concurrent
  relays/ticks never double-claim"* (events/pgOutboxStore.ts:11): they do once a publish outlives its
  lease, and then two relays can turn `sent` into `failed` and back (`SettledIsFinal` holds for one
  relay). Giving up the row that stalled the outbox makes the monitor log a recovery
  (pcl/relay.ts:202).
- Attribution: *"the attribution it validated is the same attribution that gets persisted and
  emitted"* (pcl/record.ts:293-294): the row keeps the first attribution, the envelope carries the
  event's.
- Panel: an entry whose apply succeeded and whose acknowledgements failed is logged as "NOT in the
  read model" (admin/paymentRecordsConsumer.js:92).
- Breaker: *"concurrent probe calls allowed in HALF_OPEN"* (resilience/circuit-breaker.js:38): a late
  failure of a call from the closed period gives a probe's slot back (line 116), and a new half-open
  period forgets the probes of the last one (line 141), so more than `halfOpenMax` can run. A late
  success closes the circuit as if it were the probe's (line 109). Requests the bulkhead queued are
  sent after the circuit has opened (httpClient.js:181, against 16-18).
- Stock: both guards on the same row reserve and deduct an order twice (orders/orderService.js:48-50
  calls one the backstop of the other). Unwinding takes at most what the row has reserved, whoever
  reserved it (641-647), so a second failure of an order frees other orders' units.
  updateOrderStatus to `cancelled` (601-619) frees neither guard's reservation. A hold that lapsed
  before the capture leaves an order paid and its units undeducted, with an alert. An `authorized`
  payment recorded by staff makes the order `paid`, and its later capture is then a repetition that
  confirms no hold. `adjustStock` overwrites a concurrent confirm (inventory/stockService.js:35).
- Statements: *"Append-only ledger of every balance movement"* (wallet/.../V1__init.sql:36). When the
  source's id is the higher, transfer's swap (WalletService.java:265-266) makes the destination pay the
  source, while the entries say the opposite. And a hold that is captured is debited twice: hold writes a
  DEBIT entry of the amount (174) and captureHold another (221), though available falls once. So the
  entries of an account do not add up to its balance. The comment on the transfer's ownership check,
  *"only the source funds must be the caller's own"* (WalletService.java:250), fails with the swap too.
- Wallet (read, not run): two callbacks for one event may both pass its "applied" check before either
  marks it so; the second to credit is refused by the key's constraint, and marks the deposit failed
  although its credit was made once (WalletDepositService.java:139-181).
- Event bus: *"so a pod restart (new consumer name) doesn't strand them in the PEL forever"*
  (events/broker.ts:360-361): a restart within 30 s reclaims nothing, and as each reclaim takes the 20
  oldest, 20 entries whose handlers always fail keep everything behind them pending for good.
  `RestartsDrain` holds with fewer poison entries than one reclaim takes, and fails with as many.
- Idempotent consumers: an event is marked seen before its handler runs (events/outbox.ts:270), and
  the Redis store's SET has its arguments in an order Redis refuses, which is taken for "already
  seen" (258). Nothing in the repository uses either.

## Not modelled

- The pure packages (ledger, revenue, money, party, entitlements), normalisers and pricing: mappings
  on amounts without state.
- What an order does beside stock and payment status: mails, fulfilment, returns, points, the ledger
  outbox; wallet opening, deposits and billing credits; the other Java services.
- `createResilient`, `withRetry`, `withTimeout` and the rate limiter, whose token arithmetic is data.
- NATS and Kafka transports, stream trimming.
- Session tokens, CRUD services, gateway, frontends, infrastructure: no control of the kind a model
  checker adds to, or nothing shared with the paths above.

## Plan

Done: the payment path, part by part and from end to end, its monitor, the vendor client's resilience
layer, orders over stock, the wallet, the event bus's subscription, and the proofs above. What is left,
in order:

1. Order-service's reports to `apply` beside its own payment status, composed with `OrderStock`.
2. Wallet deposits with their provider callbacks, on top of `Wallet`.
3. The path over `PaymentStateMachine` itself in place of `PaymentLadder`, with `Refinement` as the
   mapping.
