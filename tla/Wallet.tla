------------------------------- MODULE Wallet -------------------------------
(***************************************************************************)
(* wallet-service (financial-services-java): balances of wallets in        *)
(* currencies, the holds on them and the entries that explain them         *)
(* (WalletService.java, WalletScheduler.java).                             *)
(*                                                                         *)
(* Every request is one transaction: it looks at its idempotency key, or   *)
(* at the status of its hold, without a lock; reads and locks the balance  *)
(* rows it needs one after the other; then changes them, writes its        *)
(* entries and commits.  An account here is a balance row: a wallet and a  *)
(* currency, numbered in the order transfer and convert lock them.         *)
(***************************************************************************)
EXTENDS Integers, FiniteSets, Functions

CONSTANTS
  Requests,
  Accounts,     \* balance rows, some not created yet
  Missing,      \* those
  Opening,      \* Opening[a]: available at first
  Keys,         \* idempotency keys clients send
  Job,          \* Job[t]: what request t asks for
  NoOne,        \* an unlocked row
  NoAccount     \* no row left to ask for

Keyed    == {"credit", "debit", "transfer", "convert"}
Spends   == {"debit", "hold", "transfer", "convert"}
Resolves == {"release", "capture", "sweep"}

ASSUME AccountsAssumption == /\ Accounts \subseteq Nat /\ NoAccount \notin Accounts
                             /\ IsFiniteSet(Accounts)
                             /\ Missing \subseteq Accounts
                             /\ Opening \in [Accounts -> Nat]
                             /\ \A a \in Missing : Opening[a] = 0
ASSUME RequestsAssumption == IsFiniteSet(Requests) /\ NoOne \notin Requests

\* hold is the request that placed the hold to resolve; a field its kind has no use for is free.
ASSUME JobAssumption ==
  /\ Job \in [Requests -> [kind: Keyed \cup Spends \cup Resolves, from: Accounts, to: Accounts,
                           amount: Nat \ {0}, bought: Nat \ {0}, key: Keys, hold: Requests]]
  /\ \A t \in Requests : Job[t].kind \in {"transfer", "convert"} => Job[t].from # Job[t].to

VARIABLES
  available,  \* wallet_balances.available
  held,       \* wallet_balances.held
  exists,     \* the rows that exist
  hold,       \* hold[t]: status of the hold that request t placed
  keys,       \* wallet_entries: the idempotency keys written
  pc,         \* pc[t]: where request t is, or how it ended
  picked,     \* picked[t]: the holds t read as ACTIVE and is to resolve
  passed,     \* passed[t]: the rows t is done asking for
  fresh,      \* fresh[t]: those of them it did not find and will insert
  seen,       \* seen[t][a]: <<available, held>> as t read them on row a
  next,       \* next[t]: the row t asks for
  owner       \* owner[a]: who has a locked

balances == <<available, held, exists, hold, keys>>
vars     == <<available, held, exists, hold, keys, pc, picked, passed, fresh, seen, next, owner>>

Ends    == {"applied", "replayed", "refused", "failed", "aborted"}
Nothing == [a \in Accounts |-> <<0, 0>>]

Init ==
  /\ available = Opening
  /\ held      = [a \in Accounts |-> 0]
  /\ exists    = Accounts \ Missing
  /\ hold      = [t \in Requests |-> "none"]
  /\ keys      = {}
  /\ pc        = [t \in Requests |-> "start"]
  /\ picked    = [t \in Requests |-> {}]
  /\ passed    = [t \in Requests |-> {}]
  /\ fresh     = [t \in Requests |-> {}]
  /\ seen      = [t \in Requests |-> Nothing]
  /\ next      = [t \in Requests |-> NoAccount]
  /\ owner     = [a \in Accounts |-> NoOne]

-----------------------------------------------------------------------------
(* What a request does                                                     *)

(* The keys of its entries; those of a hold are made from the hold's id.   *)
EntryKeys(t, hs) ==
  LET k == Job[t].kind IN
  CASE k \in Keyed -> {<<"client", Job[t].key>>}
    [] k = "hold"  -> {<<"hold", t>>}
    [] OTHER       -> {<<k, h>> : h \in hs}

Credited(t) == IF Job[t].kind \in {"credit", "transfer", "convert"} THEN {Job[t].to} ELSE {}

(* The rows it locks to resolve the holds hs, or for itself.               *)
Needs(t, hs) ==
  IF Job[t].kind \in Resolves THEN {Job[h].from : h \in hs}
  ELSE Credited(t) \cup IF Job[t].kind \in Spends THEN {Job[t].from} ELSE {}

(* Mutant: nobody keeps to an order.                                       *)
FollowAsRead(t, rest) == IF rest = {} THEN {NoAccount} ELSE rest

(* What it may ask for next: the lowest row, but expireHolds goes through  *)
(* its holds in the order it happened to read them.                        *)
Follow(t, rest) ==
  CASE rest = {}               -> {NoAccount}
    [] Job[t].kind = "sweep"   -> rest
    [] OTHER                   -> {a \in rest : \A b \in rest : a <= b}

(* Who pays.  transfer calls its locked rows first and second, and where   *)
(* the source has the higher id it takes them the wrong way round: the     *)
(* lower row always pays and the higher is always paid.                    *)
Swapped(t) == Job[t].kind = "transfer" /\ Job[t].from > Job[t].to
Payer(t)   == IF Swapped(t) THEN Job[t].to ELSE Job[t].from
Payee(t)   == IF Swapped(t) THEN Job[t].from ELSE Job[t].to

(* Mutant: held money is spent too.                                        *)
FundsWithHeld(t) ==
  Job[t].kind \in Spends => seen[t][Payer(t)][1] + seen[t][Payer(t)][2] >= Job[t].amount

(* requireFunds; overdrafts are off.                                       *)
Funds(t) == Job[t].kind \in Spends => seen[t][Payer(t)][1] >= Job[t].amount

(* What the holds hs keep on a.                                            *)
Kept(hs, a) == SumFunction([h \in {g \in hs : Job[g].from = a} |-> Job[h].amount])

(* Mutant: a captured hold is also given back.                             *)
InTwice(t, a) ==
  CASE Job[t].kind \in {"credit", "transfer"} /\ a = Payee(t) -> Job[t].amount
    [] Job[t].kind = "convert" /\ a = Payee(t)                -> Job[t].bought
    [] Job[t].kind \in Resolves                               -> Kept(picked[t], a)
    [] OTHER                                                  -> 0

(* Mutant: a captured hold stays reserved.                                 *)
ReserveLeft(t, a) == CASE Job[t].kind = "hold" /\ a = Job[t].from  -> Job[t].amount
                       [] Job[t].kind \in {"release", "sweep"}     -> - Kept(picked[t], a)
                       [] OTHER                                    -> 0

(* What it adds to available, takes from it, and adds to held.             *)
In(t, a) ==
  CASE Job[t].kind \in {"credit", "transfer"} /\ a = Payee(t) -> Job[t].amount
    [] Job[t].kind = "convert" /\ a = Payee(t)                -> Job[t].bought
    [] Job[t].kind \in {"release", "sweep"}                   -> Kept(picked[t], a)
    [] OTHER                                                  -> 0

Out(t, a)     == IF Job[t].kind \in Spends /\ a = Payer(t) THEN Job[t].amount ELSE 0
Reserve(t, a) == CASE Job[t].kind = "hold" /\ a = Job[t].from -> Job[t].amount
                   [] Job[t].kind \in Resolves                -> - Kept(picked[t], a)
                   [] OTHER                                   -> 0

Resolution == [release |-> "released", capture |-> "captured", sweep |-> "expired"]

-----------------------------------------------------------------------------
(* Steps                                                                   *)

(* An applied request remembers which holds it resolved, for the accounts  *)
(* below.                                                                  *)
Close(t, how) ==
  /\ pc'     = [pc EXCEPT ![t] = how]
  /\ picked' = [picked EXCEPT ![t] = IF how = "applied" THEN @ ELSE {}]
  /\ passed' = [passed EXCEPT ![t] = {}]
  /\ fresh'  = [fresh EXCEPT ![t] = {}]
  /\ seen'   = [seen EXCEPT ![t] = Nothing]
  /\ next'   = [next EXCEPT ![t] = NoAccount]

Unlock(t) == owner' = [a \in Accounts |-> IF owner[a] = t THEN NoOne ELSE owner[a]]

(* Mutant: a refusal leaves its locks behind.                              *)
FinishLocked(t, how) == Close(t, how) /\ IF how = "refused" THEN UNCHANGED owner ELSE Unlock(t)

(* A transaction ends and its locks go.                                    *)
Finish(t, how) == Close(t, how) /\ Unlock(t)

Begin(t, hs) ==
  /\ pc'     = [pc EXCEPT ![t] = "locking"]
  /\ picked' = [picked EXCEPT ![t] = hs]
  /\ \E a \in Follow(t, Needs(t, hs)) : next' = [next EXCEPT ![t] = a]
  /\ UNCHANGED <<passed, fresh, seen, owner>>

(* A keyed request looks for its key: an entry that has it answers for it. *)
Look(t) ==
  /\ pc[t] = "start"
  /\ Job[t].kind \in Keyed \cup {"hold"}
  /\ IF Job[t].kind \in Keyed /\ EntryKeys(t, {}) \subseteq keys
     THEN Finish(t, "replayed")
     ELSE Begin(t, {})
  /\ UNCHANGED balances

(* releaseHold and captureHold check the status of a hold the client was   *)
(* told of; expireHolds reads those that ran out.  None of them locks.     *)
ReadHold(t) ==
  /\ pc[t] = "start"
  /\ \/ /\ Job[t].kind \in {"release", "capture"}
        /\ hold[Job[t].hold] # "none"
        /\ IF hold[Job[t].hold] = "active" THEN Begin(t, {Job[t].hold}) ELSE Finish(t, "refused")
     \/ /\ Job[t].kind = "sweep"
        /\ \E hs \in SUBSET {h \in Requests : hold[h] = "active"} : Begin(t, hs)
  /\ UNCHANGED balances

(* Mutant: the balance is read without FOR UPDATE.                         *)
LockableAlways(t, a) == TRUE

Lockable(t, a) == owner[a] = NoOne

(* lockBalance and lockOrCreateBalance: SELECT ... FOR UPDATE.             *)
Lock(t) ==
  LET a == next[t] IN
  /\ pc[t] = "locking" /\ a # NoAccount
  /\ \/ /\ a \in exists /\ Lockable(t, a)
        /\ owner' = [owner EXCEPT ![a] = t]
        /\ seen'  = [seen EXCEPT ![t][a] = <<available[a], held[a]>>]
        /\ UNCHANGED fresh
     \/ /\ a \in Credited(t) \ exists
        /\ fresh' = [fresh EXCEPT ![t] = @ \cup {a}]
        /\ UNCHANGED <<owner, seen>>
  /\ passed' = [passed EXCEPT ![t] = @ \cup {a}]
  /\ \E b \in Follow(t, Needs(t, picked[t]) \ passed'[t]) : next' = [next EXCEPT ![t] = b]
  /\ UNCHANGED <<balances, pc, picked>>

(* lockBalance finds no row to debit, or requireFunds too little on it.    *)
Refuse(t) ==
  /\ pc[t] = "locking"
  /\ \/ next[t] \in Accounts \ (exists \cup Credited(t))
     \/ next[t] = NoAccount /\ ~ Funds(t)
  /\ Finish(t, "refused")
  /\ UNCHANGED balances

(* Mutant: the index on idempotency keys is not unique.                    *)
KeyUnchecked(t) == FALSE

(* An entry with one of its keys, or a row it is to insert, is there now   *)
(* (the unique indexes), or a row changed under it (@Version).             *)
KeyTaken(t) == EntryKeys(t, picked[t]) \cap keys # {}
RowTaken(t) == fresh[t] \cap exists # {}
Stale(t)    == \E a \in passed[t] \ fresh[t] : seen[t][a] # <<available[a], held[a]>>

Fail(t) ==
  /\ pc[t] = "locking" /\ next[t] = NoAccount /\ Funds(t)
  /\ KeyTaken(t) \/ RowTaken(t) \/ Stale(t)
  /\ Finish(t, "failed")
  /\ UNCHANGED balances

(* The balances move, the entries are written, and the holds are set to    *)
(* what this request makes of them, whatever they have become meanwhile.   *)
Apply(t) ==
  /\ pc[t] = "locking" /\ next[t] = NoAccount /\ Funds(t)
  /\ ~ KeyTaken(t) /\ ~ RowTaken(t) /\ ~ Stale(t)
  /\ available' = [a \in Accounts |-> available[a] + In(t, a) - Out(t, a)]
  /\ held'      = [a \in Accounts |-> held[a] + Reserve(t, a)]
  /\ exists'    = exists \cup fresh[t]
  /\ keys'      = keys \cup EntryKeys(t, picked[t])
  /\ hold'      = [h \in Requests |->
                     CASE h \in picked[t]                -> Resolution[Job[t].kind]
                       [] h = t /\ Job[t].kind = "hold"  -> "active"
                       [] OTHER                          -> hold[h]]
  /\ Finish(t, "applied")

(* t waits for a row of somebody who waits in turn, and so back to t:      *)
(* Postgres breaks the circle.                                             *)
Blocked == {u \in Requests : pc[u] = "locking" /\ next[u] \in exists /\ ~ Lockable(u, next[u])}

InDeadlock(t) ==
  t \in Blocked /\ \E S \in SUBSET Blocked : t \in S /\ \A u \in S : owner[next[u]] \in S

Abort(t) == InDeadlock(t) /\ Finish(t, "aborted") /\ UNCHANGED balances

Step(t) == Look(t) \/ ReadHold(t) \/ Lock(t) \/ Refuse(t) \/ Fail(t) \/ Apply(t) \/ Abort(t)

Next == \E t \in Requests : Step(t)

(* The database and its clients do not stop while a step can be taken.     *)
Spec == Init /\ [][Next]_vars /\ WF_vars(Next)

-----------------------------------------------------------------------------
(* Properties                                                              *)

(* The types, and no lock outlives its transaction.                        *)
TypeOK ==
  /\ available \in [Accounts -> Int]
  /\ held \in [Accounts -> Int]
  /\ exists \subseteq Accounts
  /\ hold \in [Requests -> {"none", "active", "released", "captured", "expired"}]
  /\ keys \subseteq UNION {EntryKeys(t, Requests) : t \in Requests}
  /\ pc \in [Requests -> {"start", "locking"} \cup Ends]
  /\ picked \in [Requests -> SUBSET Requests]
  /\ \A t \in Requests : picked[t] # {} => Job[t].kind \in Resolves
  /\ passed \in [Requests -> SUBSET Accounts]
  /\ fresh \in [Requests -> SUBSET Accounts]
  /\ seen \in [Requests -> [Accounts -> Int \X Int]]
  /\ next \in [Requests -> Accounts \cup {NoAccount}]
  /\ owner \in [Accounts -> Requests \cup {NoOne}]
  /\ \A a \in Accounts : owner[a] = NoOne \/ pc[owner[a]] = "locking"

Applied == {t \in Requests : pc[t] = "applied"}

(* No account is overdrawn, whatever runs beside a payment                 *)
(* (requireFunds on a row read under its lock).                            *)
NoOverdraft == \A a \in Accounts : available[a] >= 0

(* A key is spent once, and a request is answered as a repetition only     *)
(* when another that had its key was carried out: a client that retries    *)
(* moves the money exactly once (dup check and uq_entry_tenant_idem).      *)
EachKeyOnce ==
  /\ \A t, u \in Applied : t # u => EntryKeys(t, picked[t]) \cap EntryKeys(u, picked[u]) = {}
  /\ \A t \in Requests : pc[t] = "replayed" =>
       \E u \in Applied : Job[u].kind \in Keyed /\ Job[u].key = Job[t].key

(* What a carried out request is meant to add to all the balances.         *)
Worth(t) ==
  CASE Job[t].kind = "credit"  -> Job[t].amount
    [] Job[t].kind = "debit"   -> - Job[t].amount
    [] Job[t].kind = "convert" -> Job[t].bought - Job[t].amount
    [] Job[t].kind = "capture" -> - Job[Job[t].hold].amount
    [] OTHER                   -> 0

(* Money is neither lost nor made: what all accounts hold, free or held,   *)
(* is what they opened with and what requests put in or took out.          *)
LedgerBalances ==
  SumFunction([a \in Accounts |-> available[a] + held[a] - Opening[a]])
    = SumFunction([t \in Applied |-> Worth(t)])

(* Locking before reading leaves the version check nothing to catch: only  *)
(* a key or a row inserted meanwhile fails a request (@Version, 500).      *)
FailsForCause ==
  [][\A t \in Requests : pc[t] # "failed" /\ pc'[t] = "failed" => KeyTaken(t) \/ RowTaken(t)]_vars

(* Nobody is turned away whose money is there: when requireFunds or        *)
(* lockBalance refuses a request, the row that is to pay still lacks the   *)
(* amount, or the row asked for still does not exist, whatever has been    *)
(* credited or released since they were read.  The one exception: a        *)
(* transfer that swapped its rows may have found no row to lock where      *)
(* another request has inserted one since (lockOrCreateBalance).           *)
RefusedForCause ==
  [][\A t \in Requests : pc[t] = "locking" /\ pc'[t] = "refused" =>
       \/ next[t] \in Accounts \ exists
       \/ available[Payer(t)] < Job[t].amount
       \/ RowTaken(t)]_vars

(* The fixed order of locking keeps clients' requests from deadlocking;    *)
(* only the sweep, which has none, can be caught in a circle.              *)
OnlySweepsDeadlock ==
  [][\A t \in Requests : pc[t] # "aborted" /\ pc'[t] = "aborted" =>
       \E u \in Requests : Job[u].kind = "sweep" /\ pc[u] = "locking"]_vars

(* Nobody waits for ever: a time comes when no request is under way, for   *)
(* whoever waits is served or aborted and every end frees its locks.       *)
EveryRequestReturns == <>[](\A t \in Requests : pc[t] # "locking")

(* "held = reserved by active holds" (V1__init.sql:21).                    *)
HeldIsActiveHolds ==
  \A a \in Accounts : held[a] = Kept({h \in Requests : hold[h] = "active"}, a)

(* ... and it stops being so only where a request resolves a hold that     *)
(* another has resolved since it looked (releaseHold, captureHold and      *)
(* expireHolds check the status before they lock, and not again).          *)
HeldDriftsOnlyLate ==
  [][HeldIsActiveHolds /\ ~ HeldIsActiveHolds' =>
       \E t \in Requests : /\ pc[t] # "applied" /\ pc'[t] = "applied"
                           /\ \E h \in picked[t] : hold[h] # "active"]_vars
=============================================================================
