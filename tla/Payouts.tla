------------------------------ MODULE Payouts ------------------------------
(***************************************************************************)
(* createPayout: look the idempotency key up, check the beneficiary and    *)
(* the wallet, move the money in one database transaction guarded by       *)
(* Wallet.version, then clear the cached balances, enqueue a notification  *)
(* and write the audit log.  Every await is a point where other calls run, *)
(* so every await is a value of pc:                                        *)
(*                                                                         *)
(*   idle  -> beneficiary -> wallet -> debit [-> credit] -> insert         *)
(*         -> commit -> evict [-> evictPeer] -> enqueue -> audit -> notify *)
(*         -> created                                                      *)
(*                                                                         *)
(* pc names what the call does next; credit and evictPeer are visited for  *)
(* an internal beneficiary only.  The call answers replayed, rejected,     *)
(* conflict, clash or failed when it leaves this path, and lost means that *)
(* the process died under it.                                              *)
(*                                                                         *)
(* The transaction runs at READ COMMITTED: what it changes becomes visible *)
(* at its commit, and the rows it has updated stay locked until then, so   *)
(* the new values are computed in the step Commit.                         *)
(***************************************************************************)
EXTENDS Beneficiaries, Sockets

CONSTANTS
  PayoutIds,  \* calls of createPayout; the row a call inserts has its name
  Keys,       \* idempotency keys
  Calls,      \* the requests that can arrive
  NoCall,     \* the request of a call that has not arrived
  Unreliable, \* calls of createPayout whose database or Redis can fail
  Instants    \* the milliseconds in which rows are inserted

Requests ==
  [merchant : Merchants, beneficiary : Beneficiaries,
   amount : Nat \ {0}, key : Keys \union {NoKey}]

ASSUME PayoutsAssumption ==
  /\ Calls \subseteq Requests
  /\ NoCall \notin Requests
  /\ Free \notin PayoutIds
  /\ Unreliable \subseteq PayoutIds
  /\ NoKey \notin Keys
  /\ Instants \subseteq Nat

VARIABLES
  payout, \* the calls of createPayout
  jobs    \* the jobs of the queue payout-notifications, by payout row

payoutVars == <<payout, jobs>>

PayoutsInit ==
  /\ payout = [p \in PayoutIds |->
       [pc |-> "idle", call |-> NoCall, seen |-> 0, at |-> 0]]
  /\ jobs = {}

Sender(p)    == payout[p].call.merchant
Recipient(p) == Peer[payout[p].call.beneficiary]
Internal(p)  == Recipient(p) # Bank

\* The open transactions, and the calls that have answered or died.
InTransaction == {"credit", "insert", "commit"}
Settled == {"replayed", "rejected", "conflict", "clash", "failed", "created", "lost"}

GoTo(p, from, to) ==
  /\ payout[p].pc = from
  /\ payout' = [payout EXCEPT ![p].pc = to]

\* Mutated form: the transaction is left open.
LeaveOpen(p, from, to) ==
  /\ GoTo(p, from, to)
  /\ UNCHANGED <<walletVars, cache, effectVars, jobs>>

\* GoTo with the transaction rolled back.
Rollback(p, from, to) ==
  /\ GoTo(p, from, to)
  /\ rowLock' = Unlocked(p)
  /\ UNCHANGED <<balance, version, ledger, cache, effectVars, jobs>>

-----------------------------------------------------------------------------
\* Call p arrives with request c; the lookup of its key sends it to label.
Arrive(p, c, label) ==
  /\ payout[p].pc = "idle"
  /\ payout' = [payout EXCEPT ![p].pc = label, ![p].call = c]
  /\ UNCHANGED <<walletVars, cache, effectVars, jobs>>

RowWithKey(r, k) == k # NoKey /\ r.key = k

\* Mutated form: a key is taken for the caller's own whoever used it.
ReplayAnyExisting(p, c) ==
  /\ \E r \in ledger : RowWithKey(r, c.key)
  /\ Arrive(p, c, "replayed")

ReplayExisting(p, c) ==
  /\ \E r \in ledger : RowWithKey(r, c.key) /\ r.user = c.merchant
  /\ Arrive(p, c, "replayed")

KeyTakenByOther(p, c) ==
  /\ \E r \in ledger : RowWithKey(r, c.key) /\ r.user # c.merchant
  /\ Arrive(p, c, "conflict")

Admit(p, c) ==
  /\ ~ \E r \in ledger : RowWithKey(r, c.key)
  /\ Arrive(p, c, "beneficiary")

\* Mutated forms: a blocked beneficiary was looked at too; the wallet of the
\* linked user is not looked at.
PayableReviewed(c) ==
  /\ benStatus[c.beneficiary] \in {"VERIFIED", "BLOCKED"}
  /\ Owner[c.beneficiary] = c.merchant
  /\ Peer[c.beneficiary] \notin Frozen

PayableAnyPeer(c) ==
  /\ benStatus[c.beneficiary] = "VERIFIED"
  /\ Owner[c.beneficiary] = c.merchant

Payable(c) ==
  /\ benStatus[c.beneficiary] = "VERIFIED"
  /\ Owner[c.beneficiary] = c.merchant
  /\ Peer[c.beneficiary] \notin Frozen

CheckBeneficiary(p) ==
  /\ GoTo(p, "beneficiary", "wallet")
  /\ Payable(payout[p].call)
  /\ UNCHANGED <<walletVars, cache, effectVars, jobs>>

RefuseBeneficiary(p) ==
  /\ GoTo(p, "beneficiary", "rejected")
  /\ ~ Payable(payout[p].call)
  /\ UNCHANGED <<walletVars, cache, effectVars, jobs>>

Affordable(p) ==
  /\ Sender(p) \notin Frozen
  /\ Covers(balance[Sender(p)], payout[p].call.amount)

ReadWallet(p) ==
  /\ payout[p].pc = "wallet"
  /\ Affordable(p)
  /\ payout' = [payout EXCEPT ![p].pc = "debit", ![p].seen = version[Sender(p)]]
  /\ UNCHANGED <<walletVars, cache, effectVars, jobs>>

RefuseWallet(p) ==
  /\ GoTo(p, "wallet", "rejected")
  /\ ~ Affordable(p)
  /\ UNCHANGED <<walletVars, cache, effectVars, jobs>>

-----------------------------------------------------------------------------
(* updateMany with the version in its condition.  A row whose committed    *)
(* version differs is not matched and needs no lock; a matching row that   *)
(* is locked is waited for, and its condition evaluated again.             *)
LoseRace(p) ==
  /\ Rollback(p, "debit", "conflict")
  /\ version[Sender(p)] # payout[p].seen

\* Mutated form: the condition is the id alone.
DebitById(p) ==
  /\ GoTo(p, "debit", IF Internal(p) THEN "credit" ELSE "insert")
  /\ Lock(p, Sender(p))
  /\ UNCHANGED <<balance, version, ledger, cache, effectVars, jobs>>

Debit(p) ==
  /\ GoTo(p, "debit", IF Internal(p) THEN "credit" ELSE "insert")
  /\ version[Sender(p)] = payout[p].seen
  /\ Lock(p, Sender(p))
  /\ UNCHANGED <<balance, version, ledger, cache, effectVars, jobs>>

Credit(p) ==
  /\ GoTo(p, "credit", "insert")
  /\ Lock(p, Recipient(p))
  /\ UNCHANGED <<balance, version, ledger, cache, effectVars, jobs>>

\* The index entry of an open transaction makes an equal key wait.
KeyBusy(p) ==
  \E q \in PayoutIds \ {p} :
    /\ payout[q].pc = "commit"
    /\ payout[q].call.key = payout[p].call.key
    /\ payout[q].call.key # NoKey

DuplicateKey(p) ==
  /\ Rollback(p, "insert", "conflict")
  /\ \E r \in ledger : RowWithKey(r, payout[p].call.key)

\* The milliseconds that it can be when p inserts its row: the clock does not
\* run backwards.  One reading stands for Date.now() and createdAt.
Now == {t \in Instants : \A q \in PayoutIds : payout[q].at <= t}

\* Mutated form: referenceId is the beginning of the beneficiary's id alone.
SameBeneficiary(p, t, r) ==
  /\ r.type = "PAYOUT"
  /\ payout[r.id].call.beneficiary = payout[p].call.beneficiary

(* referenceId is the millisecond with the beginning of the beneficiary's  *)
(* id.  Only committed rows need looking at: an open payout to the same    *)
(* beneficiary holds the row lock of the same sender.                      *)
SameReference(p, t, r) ==
  /\ r.type = "PAYOUT"
  /\ payout[r.id].call.beneficiary = payout[p].call.beneficiary
  /\ payout[r.id].at = t

(* referenceId is unique too: a second payout to one beneficiary in one    *)
(* millisecond is refused with 409.                                        *)
DuplicateReference(p) ==
  /\ payout[p].pc = "insert"
  /\ \E t \in Now :
       /\ \E r \in ledger : SameReference(p, t, r)
       /\ payout' = [payout EXCEPT ![p].pc = "clash", ![p].at = t]
  /\ rowLock' = Unlocked(p)
  /\ UNCHANGED <<balance, version, ledger, cache, effectVars, jobs>>

\* Mutated forms: there is no unique index on idempotencyKey; the job is
\* added inside the transaction.
InsertAnyRow(p) ==
  /\ GoTo(p, "insert", "commit")
  /\ UNCHANGED <<walletVars, cache, effectVars, jobs>>

InsertAndEnqueue(p) ==
  /\ GoTo(p, "insert", "commit")
  /\ ~ \E r \in ledger : RowWithKey(r, payout[p].call.key)
  /\ ~ KeyBusy(p)
  /\ jobs' = jobs \union {p}
  /\ UNCHANGED <<walletVars, cache, effectVars>>

InsertRow(p) ==
  /\ payout[p].pc = "insert"
  /\ ~ \E r \in ledger : RowWithKey(r, payout[p].call.key)
  /\ ~ KeyBusy(p)
  /\ \E t \in Now :
       /\ ~ \E r \in ledger : SameReference(p, t, r)
       /\ payout' = [payout EXCEPT ![p].pc = "commit", ![p].at = t]
  /\ UNCHANGED <<walletVars, cache, effectVars, jobs>>

(* The balances that the transaction leaves behind.                        *)
Moved(p) ==
  [m \in Merchants |->
     IF m = Sender(p) THEN Debited(balance[m], payout[p].call.amount)
     ELSE IF m = Recipient(p) THEN Credited(balance[m], payout[p].call.amount)
     ELSE balance[m]]

\* Mutated forms: the version counts down; only the credit, or only the
\* debit, counts it up.
CountedDown(p) ==
  [m \in Merchants |->
     IF m \in {Sender(p), Recipient(p)} THEN version[m] - 1 ELSE version[m]]

CreditBumped(p) ==
  [m \in Merchants |-> IF m = Recipient(p) THEN version[m] + 1 ELSE version[m]]

DebitBumped(p) ==
  [m \in Merchants |-> IF m = Sender(p) THEN version[m] + 1 ELSE version[m]]

Bumped(p) ==
  [m \in Merchants |->
     IF m \in {Sender(p), Recipient(p)} THEN version[m] + 1 ELSE version[m]]

PayoutRow(p) ==
  [id |-> p, type |-> "PAYOUT", user |-> Sender(p),
   amount |-> Stored(payout[p].call.amount), key |-> payout[p].call.key]

Commit(p) ==
  /\ GoTo(p, "commit", "evict")
  /\ balance' = Moved(p)
  /\ version' = Bumped(p)
  /\ ledger' = ledger \union {PayoutRow(p)}
  /\ rowLock' = Unlocked(p)
  /\ UNCHANGED <<cache, effectVars, jobs>>

-----------------------------------------------------------------------------
Evict(p) ==
  /\ GoTo(p, "evict", IF Internal(p) THEN "evictPeer" ELSE "enqueue")
  /\ cache' = Evicted(Sender(p))
  /\ UNCHANGED <<walletVars, effectVars, jobs>>

\* Mutated form: the recipient's key is left.
EvictSenderOnly(p) ==
  /\ GoTo(p, "evictPeer", "enqueue")
  /\ UNCHANGED <<walletVars, cache, effectVars, jobs>>

EvictPeer(p) ==
  /\ GoTo(p, "evictPeer", "enqueue")
  /\ cache' = Evicted(Recipient(p))
  /\ UNCHANGED <<walletVars, effectVars, jobs>>

Enqueue(p) ==
  /\ GoTo(p, "enqueue", "audit")
  /\ jobs' = jobs \union {p}
  /\ UNCHANGED <<walletVars, cache, effectVars>>

(* logAction is awaited, and its failure swallowed.                        *)
LogPayout(p) ==
  /\ GoTo(p, "audit", "notify")
  /\ audit' \in {audit, audit \union {<<"PAYOUT_COMPLETED", p>>}}
  /\ UNCHANGED <<walletVars, cache, owed, pushed, jobs>>

(* The merchant's socket is looked up and told in the same breath as the   *)
(* client.                                                                 *)
Finish(p) ==
  /\ GoTo(p, "notify", "created")
  /\ NotifyUser(Sender(p), p)
  /\ UNCHANGED <<walletVars, cache, logVars, jobs>>

(* An await rejects: an error of the database or of Redis, or the timeout  *)
(* of the interactive transaction.  An open transaction is rolled back, a  *)
(* committed one is not, and the handler ends there.                       *)
Fails(p) ==
  \E l \in {"beneficiary", "wallet", "debit", "evict", "evictPeer", "enqueue"}
             \union InTransaction :
    Rollback(p, l, "failed")

\* Every call of S waits for a wallet row that a call of S has locked.
Deadlocked(S) ==
  \A q \in S : payout[q].pc = "credit" /\ rowLock[Recipient(q)] \in S

(* PostgreSQL aborts one transaction of a cycle of waiting ones.           *)
DeadlockVictim(p) ==
  /\ Rollback(p, "credit", "failed")
  /\ \E S \in SUBSET PayoutIds : p \in S /\ Deadlocked(S)

-----------------------------------------------------------------------------
Arrival(p) ==
  \E c \in Calls : ReplayExisting(p, c) \/ KeyTakenByOther(p, c) \/ Admit(p, c)

PayoutStep(p) ==
  \/ CheckBeneficiary(p) \/ RefuseBeneficiary(p)
  \/ ReadWallet(p) \/ RefuseWallet(p)
  \/ LoseRace(p) \/ Debit(p) \/ Credit(p)
  \/ DuplicateKey(p) \/ DuplicateReference(p) \/ InsertRow(p) \/ Commit(p)
  \/ Evict(p) \/ EvictPeer(p) \/ Enqueue(p) \/ LogPayout(p) \/ Finish(p)
  \/ DeadlockVictim(p)

PayoutsNext ==
  \/ \E p \in PayoutIds : Arrival(p) \/ PayoutStep(p)
  \/ \E p \in Unreliable : Fails(p)

PayoutsLost ==
  [p \in PayoutIds |->
     IF payout[p].pc \in {"idle"} \union Settled THEN payout[p]
     ELSE [payout[p] EXCEPT !.pc = "lost"]]
=============================================================================
