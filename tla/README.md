# Verification of mini-payout-v2

TLA+ models of the payout backend in this repository, the TLC configurations
that check them on small worlds, and machine-checked proofs (TLAPS) of the
results that matter most for worlds of any size. Paths below are relative to
the repository's root.

## 1. The system

One Node process (`server.js`, `app.js`) serves a REST API, one GraphQL query
and the socket connections of its users, over PostgreSQL (through Prisma) and
Redis. A second process works off a queue of notifications. Node runs one
handler at a time, but every handler gives way at every `await`, so the calls of
all services interleave between their awaits. Only `prisma.$transaction` makes
several writes atomic.

| Part | State | Operations | Meets the others through | What is hard |
|---|---|---|---|---|
| Payouts (`src/services/payout.service.js`) | rows of `Transaction`, `Wallet.balance`, `Wallet.version` | `createPayout`; `getAllPayouts` with a cursor, `getMyPayouts` | wallets, beneficiaries, cache, queue, audit log, sockets | checks outside the transaction, optimistic lock, opposite lock orders, idempotency keys, what fails after the commit, pages read while rows are inserted |
| Top-ups (`topup.service.js`) | `TopUpRequest.status` | `createTopUp`, `approveTopUp`; two listings | wallets, selected channels, cache, audit log, sockets | two approvals of one request; a credit that does not count the version |
| Bank webhook (`webhook.service.js`) | none of its own | `handleBankTransferWebhook` | finds channel and request, then calls `approveTopUp` | repeated messages, ambiguous account numbers |
| Channels (`channel.service.js`) | `Channel.status`, `User.selectedChannelId` | add, select, verify; two listings | top-ups and the webhook read them | look-up and insert, read and update are two steps |
| Beneficiaries (`beneficiary.service.js`) | `Beneficiary.status` | add, verify, block; two listings | payouts read them | verify and block overwrite each other |
| Wallet reads (`wallet.service.js`, `utils/cache.js`) | Redis keys `wallet:<userId>`, 30 s | `getMyWallet` | payouts and approvals evict | a fill that comes after an eviction |
| Audit log (`utils/auditLog.js`) | rows of `AuditLog` | `logAction` | called by every service | its failure is swallowed |
| Queue and worker (`queues/`, `workers/`) | jobs and their locks in Redis, worker processes | add, take, handle, report | payouts add | a worker that dies with a job, or loses its lock while it lives |
| Sockets (`config/socketRegistry.js`, `server.js`, `utils/notify.js`) | map user → socket | connect, disconnect, `notifyUser` | payouts and approvals push | connections of one user that overlap |
| Registration and login (`auth.service.js`) | `User`, `Wallet` rows | `register`, `login` | creates the wallets; audit log | look-up, slow hash and insert; addresses folded in two schemas |
| HTTP pipeline (`middlewares/`, `validators/`, `routes/`) | rate-limit counters | refuse or let through | in front of every service | stateless apart from the counters |

What makes each part correct:

* payouts: no overdraft; no lost update; a key moves money once; the answer is
  true of the tables; nothing follows from a transaction that rolled back;
* top-ups and webhook: status, credit and ledger row go together; what the bank
  reports is what is credited; each request and each transfer once;
* channels and beneficiaries: one row per account; only verified ones of one's
  own are used; a block stays;
* cache: no stale balance comes there;
* queue: the notification of a payout that was made is handled, at least once,
  and not more often than it is given out;
* sockets: the registry has the user's live connection, and what is pushed is
  true and the user's own;
* list: a client that pages to the end has seen what was there when it began;
* registration: one user per mailbox, each with a wallet, each found by login;
* all of it together: the balances are the sums of the ledger, and the whole is
  a ledger of indivisible transfers.

## 2. The modules

```
                       WalletDb                shared tables, row locks, cache, log
   ┌──────────┬───────────┼───────────┬──────────────┐
Beneficiaries Sockets  Channels   WalletReads   Registration
   └─────┬────┴─────┬─────┘           │              │
      Payouts     TopUps              │              │       TopUps has the webhook
     ┌───┴───┐      │                 │              │
  Worker  Listing   │                 │              │
     └───────┴──────┴──── Backend ────┴──────────────┘       all of it, crash, fairness
                             │         Ledger, Notices,      the abstract promises
                             │         Directory
                     BackendProperties ──┘                   types, invariants, liveness,
                   │  │      │        │                      refinements
     PayeeHistory ─┘  │      │        │                      with a history of verifications
              Divergences BackendProofs SumProofs            what the code does not keep, and
                │    │       │            │                  when it would; the theorems
          MCBackend  │  AccountProofs     │
           + *.cfg   │       │            │                  (MCHistory: MCBackend with
                     │   PayeeProofs      │                  PayeeHistory)
                     │       │            │
                     │  EffectProofs      │
                     │       │            │
                     │   BookProofs ──────┘
                     │       │       │
                 DivergenceProofs  ListingProofs
```

Conventions:

* One action per step between two awaits. A call is a record whose `pc` names
  what it does next (`payout[p].pc = "debit"` is the `updateMany` of line 83).
  Two awaits are one step only where nothing in the code can come between them
  to any effect; the comment at the action says so.
* Transactions run at READ COMMITTED. What they write becomes visible in the
  step that commits (`Commit`, `CommitApproval`, `CommitUser`); the wallet rows
  they have updated are locked from the update on (`rowLock`), and an update of a
  locked row waits. Because of the lock the new value can be computed at the
  commit. An insert whose unique key an open transaction has inserted waits for
  it (`KeyBusy`, `RowBusy`). A cycle of waiting transactions is broken by
  aborting one (`DeadlockVictim`).
* Errors: `Fails`, `ApprovalFails`, `ReadFails` and `SignupFails` let an await
  reject, which rolls an open transaction back and ends the handler there.
  `Crash` ends every call at once and empties the registry; tables, cache and
  queue stay, and workers and clients go on.
* Money is in cents, as in `Decimal(18,2)`. The amount of a request is a
  JavaScript number the validator only requires to be positive, so it is counted
  in quarters of a cent; `Stored`, `Debited` and `Credited` are the rounding
  PostgreSQL does where the code stores it.
* `createdAt` is a number that does not run backwards and may repeat. One reading
  of the clock stands for it and for the `Date.now()` in `referenceId`, and the
  beginning of a beneficiary's id stands for the id (`SameReference`). Rows with
  an equal `createdAt` come in any order, another one in each query; a page is
  therefore a set, chosen anew for each query (`Following`, `Newest`).
* Wallet status, merchants and links are constants where no code changes them.
  The users that `Registration` makes are kept apart from the constant
  `Merchants` whose wallets move money: a new wallet is empty, and the two parts
  share only the log.
* A comment "Mutated form" marks a plausible bug: an operator with the
  parameters of one below it, kept to see that a property notices the
  difference. No specification uses it.

| Module | Models | State |
|---|---|---|
| `WalletDb` | `Wallet`, `Transaction`, `AuditLog`, the Redis keys, `logAction` | `balance`, `version`, `rowLock`, `ledger`, `cache`, `audit`, `owed` |
| `Beneficiaries` | add, verify, block | `benStatus`, `review` |
| `Sockets` | connect, break, disconnect, `notifyUser` | `link`, `registry`, `pushed` |
| `Payouts` | `createPayout` from key look-up to answer | `payout`, `jobs` |
| `Worker` | the queue's workers, which die, lose locks and are started again; the queue's own rules are external | `running`, `handling`, `done`, `notices`, `claim`, `stalls`, `completed` |
| `Listing` | `getAllPayouts`, page by page, for all or for one merchant | `pager` |
| `Channels` | add, select, verify | `chStatus`, `selected`, `channelCall` |
| `TopUps` | `createTopUp`, `approveTopUp`, the webhook | `topUpStatus`, `approval` |
| `WalletReads` | `getMyWallet` | `reader` |
| `Registration` | `register`, `login` | `users`, `wallets`, `signup` |
| `Backend` | the whole: `Next` is a step of one call of one service, of a connection or of a worker, an audit insert, an expiry of a key, or the death of the process | all of the above |
| `Ledger` | abstract specification of money: `Pay`, which charges one and pays another, and `Fund`, each indivisible | `balance`, `ledger` |
| `Notices` | abstract specification of the notification of a payout, at least once: made, queued, tried a bounded number of times, sent at most once a try, settled after it was sent | `stage`, `tries`, `sent` |
| `Directory` | abstract specification of users: `Register`, indivisible | `users`, `wallets` |
| `BackendProperties` | types, invariants, liveness, and the three refinement mappings | |
| `PayeeHistory` | `Backend` with a history variable that no step reads: which payouts had a verified beneficiary at some moment before their commit | `vetted` |
| `Divergences` | sentences of the documentation that the code does not keep, and the condition under which it would | |

`owed` holds the `logAction` calls of handlers that have nothing else left to
do; payouts and approvals make theirs as a step of the call itself
(`LogPayout`, `LogApproval`), because their push and their answer wait for it
(`Finish`, `FinishApproval`).

### The queue

What the repository says of the queue is which job is added
(`payout.service.js:132`) and what the handler does with it
(`payoutNotification.worker.js:10-15`): it waits for a timer and writes a line.
When a worker gets a job, and what becomes of a job whose worker is gone, is
BullMQ's doing; the map calls those definitions external. A worker takes a
waiting job and has its lock (`TakeJob`), its handler comes to an end
(`EndHandler`), and it reports that to Redis (`CompleteJob`): three steps, with
death possible between any two of them. A lock may expire at any time, whether
its worker is dead or only slow (`StallJob`); the job then waits again, so that
two workers may handle it at once, and one that was handled is handled again if
its worker died or lost its lock before the report. A report of a worker that
has lost its lock is refused (`RefuseReport`). After more than `MaxStalls` such
expiries the job is given up. `notices` counts how often the handler of a job
has come to its end, which is how often the merchant is notified.

## 3. The runs

The run `accounts` uses `MCHistory`, all others `MCBackend`; `<run>.cfg` chooses
the world. Bounds are the sets of
calls and rows, and `MaxStalls`: no counter needs a bound in a guard, because
each call ends, and a job is given out `MaxStalls + 1` times at most. Deadlock
checking is on; `Idle` is the step that is always there when no call is under
way.

| Run | World | Shows |
|---|---|---|
| `payouts` | 3 payouts at once and an approval, among three wallets of 2 cents, one of them frozen, and a bank; whole cents and fractions; two merchants use the same key, some payouts have none; one request is too large | `TypeOK`, `NonNegativeBalances`, `OptimisticLock`, `KeyPaidOnce`, `VersionCountsPayouts`, `BooksBalance`, `FrozenUntouched` |
| `faults` | 2 payouts in two instants, one of which may end in a half cent, and an approval; every await may reject, the process may die | `LocksHeld`, `AnswersAreTrue`, `EffectsFollowCommit`, and the refinement `ImplementsLedger` |
| `accounts` | 4 payees to be (two accounts at the bank, one payee that is its owner), 2 reviews, a payout; or 3 accounts of two merchants (two of them equal), 3 channel calls, a top-up request; or 2 registrations with two spellings of one address, and logins; the process may die | `PaidWhileVerified`, `OneChannelPerAccount`, `SelectedIsVerifiedAndOwn`, `RequestsAreBacked`, `OneUserPerMailbox`, `RegistrationAnswersAreTrue`, `RegisteredCanLogIn`, and the refinement `ImplementsDirectory` |
| `funding` | 3 requests (one for a cent and a half), 2 approvals by hand or by message, two channels with one account number, two transfers, awaits may reject; or 3 payouts in two instants, and a client that pages by none or one | `ApprovedIffCredited`, `TransferCreditedAsReported`, `UntiedListedOnce` |
| `liveness` | 2 payouts in any directions, one of which may fail anywhere, and an approval; then two workers that may die, be started again, and lose a lock while they live; or a review, a channel call and 2 registrations | `EveryCallEnds`, `EveryJobEnds`, and the refinement `ImplementsNotices` |
| `clients` | a merchant that connects twice and reads its wallet, a payout, an approval, a process that may die | `RegistryIsLive`, `PushesAreTrue`, `FreshIfApart` |

Six more runs check a sentence of the documentation that the code does not
keep; TLC answers with the behaviour that contradicts it:

| Run | Sentence | What happens |
|---|---|---|
| `double_approval` | `topup.routes.js:112`, `swagger.js:10` | two approvals both read PENDING; the wallet is credited twice |
| `double_delivery` | `swagger.js:10` | the bank repeats a message, whose `referenceId` is not used, and the next request of equal amount is funded |
| `stale_cache` | `README.MD:132` | a reader fills the cache with what it read before a payout's commit, after the payout's eviction |
| `unblocked` | `beneficiary.routes.js:134` | verify and block both read PENDING; verify writes last |
| `unreachable` | `README.MD:118` | a merchant connects anew, the late disconnect of its old socket takes the new one out of the registry, and its payout is pushed to nobody |
| `skipped_page` | `README.MD:133` | two rows of one millisecond change places between two queries, and one of them is on no page |

Why these bounds are enough to be interesting: two calls show every race of a
check and a write, three let a third come between them (`payouts`); amounts of
one, two and three cents against balances of two make the second payout of a
pair unaffordable; quarters of a cent fall below, on and above the half cent
where PostgreSQL rounds; two keys and two merchants give replay, conflict and
reuse; two instants for three rows give ties and a row that is inserted first
and committed last; two connections of one user overlap in every way; two
workers let one take over what the other died with, or is still handling.

What the worlds leave out on purpose:

* Calls of one kind are interchangeable, so the safety runs use symmetry over
  them (`PayoutSymmetry`, `ApprovalSymmetry`, `AccountSymmetry`); runs with a
  liveness property use none.
* `accounts` asks about three services that share nothing but the log.
  `OneServiceAtATime` keeps to states in which only one of them has been called,
  and at most one login is logged.
* `funding` asks about approvals and about the list. `ApprovalsOrPages` keeps to
  states with either, and with at most two payouts under way.
* `liveness` keeps to states in which only money or only accounts have been
  touched, and in the first case the workers have not begun, or both payouts have
  been made and logged and the approval has not begun (`OnePartAtATime`): workers
  look at nothing but jobs, and no call looks at what workers do. The limit only
  takes behaviours away, since TLC still counts a step out of it as enabled: that
  a call ends, or a job, is checked of every behaviour that stays within it.
* `payouts` lets the clock move on only for a payout to a beneficiary that an
  earlier one has paid (`ClockWhereItMatters`): nothing else it checks looks at
  the clock.

All that these runs check but the two liveness properties is also proved, without
such limits (section 4).

### Fairness

`FairSpec` adds weak fairness of the next step of each call that has arrived
(payouts, approvals, reads, reviews, channel calls, registrations) and of the
audit insert; and, as long as some worker runs, of a waiting job being
taken (`JobTaken`), of a handler that has begun coming to its end
(`HandlerEnds`), of a report being answered (`ReportEnds`), and of a job that its
worker has left being found (`StallFound`). The code justifies it: the event loop
resumes a handler whose await has settled, PostgreSQL and Redis answer or reject,
a waiting row lock is handed on or the deadlock detector steps in; BullMQ hands
waiting jobs to idle workers and looks for stalled ones twice a minute, and the
handler waits for nothing but its timer. Nothing is assumed about requests
arriving, awaits rejecting, a key or a lock expiring, a process dying, or one
being started again: `docker-compose.yml` has no restart policy. So `EveryJobEnds`
says that the job of a payout that was answered 201 is completed, or given up by
BullMQ after its lock was lost too often, or no worker is left; with two workers,
one takes over what the other died with. An outage of Redis that never ends would
break `EveryCallEnds`: with `maxRetriesPerRequest: null` (`config/redis.js:7`) a
call then waits for ever, and the fairness assumes it away. Safety runs use `Spec`
without fairness.

## 4. The proofs

The theorems hold for every choice of the constants that satisfies the named
assumptions of the modules.

| Module | Theorem | States |
|---|---|---|
| `BackendProofs` | `TypeCorrect` | `Spec => []TypeOK` |
| | `LocksCorrect` | `Spec => []LocksHeld` |
| | `OptimisticLockCorrect` | `Spec => []OptimisticLock` |
| | `NeverOverdrawn` | `Spec => []NonNegativeBalances` |
| | `Idempotent` | `Spec => []KeyPaidOnce` |
| `AccountProofs` | `RegistryCorrect` | `Spec => []RegistryIsLive` |
| | `MailboxesUnique` | `Spec => []OneUserPerMailbox` |
| | `RegistrationAnswersCorrect` | `Spec => []RegistrationAnswersAreTrue` |
| | `RegisteredLogIn` | `Spec => []RegisteredCanLogIn` |
| | `DirectoryImplemented` | `Spec => ImplementsDirectory` |
| `PayeeProofs` | `PaidToVerified` | `HistorySpec => []PaidWhileVerified` |
| | `AccountsUnique` | `Spec => []OneChannelPerAccount` |
| | `SelectionCorrect` | `Spec => []SelectedIsVerifiedAndOwn` |
| | `FundingBacked` | `Spec => []RequestsAreBacked` |
| `EffectProofs` | `ApprovalsCredit` | `Spec => []ApprovedIffCredited` |
| | `TransfersCredited` | `Spec => []TransferCreditedAsReported` |
| | `EffectsFollow` | `Spec => []EffectsFollowCommit` |
| | `PushesCorrect` | `Spec => []PushesAreTrue` |
| | `AnswersTrue` | `Spec => []AnswersAreTrue` |
| | `NoticesImplemented` | `Spec => ImplementsNotices` |
| `BookProofs` | `FrozenStay` | `Spec => []FrozenUntouched` |
| | `VersionsCount` | `Spec => []VersionCountsPayouts` |
| | `BooksCorrect` | `Spec => []BooksBalance` |
| | `LedgerImplemented` | `Spec => ImplementsLedger` |
| `ListingProofs` | `ListedOnce` | `Spec => []UntiedListedOnce` |
| `DivergenceProofs` | `CacheFresh` | `Spec => FreshIfApart` |
| | `CreditedOnce` | `Spec => CreditedOnceIfApart` |
| | `BlockedForGood` | `Spec => BlockedForGoodIfApart` |
| | `PushedToConnected` | `Spec => PushedIfApart` |

### Money (`BackendProofs`)

`TypeOK` is inductive, and is proved service by service. `LocksHeld`, that a row
is locked exactly while a transaction that has updated it is open, is inductive
given `TypeOK`: a step either leaves locks and open transactions alone, takes
one lock while it opens or extends a transaction, or releases all of a call's
locks while it ends one. `NonNegativeBalances` is not inductive: a payout at its
commit could be one that the balance does not cover. The strengthening is
`OptimisticLock` (`Solvent` is the two together): at `debit` a payout whose
version is current is covered, and in its transaction it is covered. A commit of
another payout preserves it because either the wallet is locked, and `LocksHeld`
says that the other cannot be its holder, or it raises the version past the one
that was read (`GuardedAtCommit`); an approval preserves it because it only
raises balances (`TopUpsRaise`); rounding preserves it because an amount that
the exact balance covers leaves at least zero after rounding half up
(`RoundingBounds`). `KeyPaidOnce` needs `KeysFresh`: a call about to commit has a
key that is in no row and in no other such call, which is what the unique index
and the waiting insert establish.

### Connections and users (`AccountProofs`)

`OwnService` says once that each part of the state is changed by its own service
and by a crash alone; the proofs about accounts and payees start from it.
`RegistryIsLive` needs `InOrder`, that connections are made in the order of their
numbers, so a socket just registered has no newer one beside it.
`OneUserPerMailbox` needs two facts (`UsersInv`): a registration about to commit
clashes with no row and with no other such registration (`SignupsFresh`), and
each row is that of a call that was answered 201 (`RowsOfCreated`). That rows are
compared as they are stored and mailboxes in small letters makes no difference
because a stored address is already folded (`RowEmail`).
`DirectoryImplemented` maps `CommitUser` to `Register` (`CommitRegisters`) and
every other step to a stutter; what makes `Register` allowed, that nobody has the
address or the number at the commit, which no step of the code looks at any more,
is `UsersInv`. `RegisteredLogIn` puts together what `register` stores
(`Normalised`), what `login` looks for (`LoginAddress`) and that no other row has
that address, which is `UsersInv` again: two schemas that folded letters
differently would break it.

### Payees and funding (`PayeeProofs`)

The updates of reviews, channel verifications and selections are by id and look
at nothing, so each proof carries what the call had read. `PaidWhileVerified`
needs the history of `PayeeHistory`: what a beneficiary's row says after a payout
does not tell whether it was ever verified, since it can be blocked from PENDING.
`VettedInv` says that a payout past its check of the beneficiary is in that
history (`CheckedWhenVerified`: the beneficiary was VERIFIED in the very step of
the check), and so are the payouts with rows, which come from such calls only
(`RowsFromCommits`). That the payee is the sender's own is `PaidInv`.
`OneChannelPerAccount` and `SelectedIsVerifiedAndOwn` need `CallsOfChannels`: a
selection in flight is of a verified channel of its user, a verification of a row
that exists; no step takes a verification back (`VerifiedStay`).
`RequestsAreBacked` rests on these and on `WritesToRequests`: an approval that
writes has found its request.

### What is told of money (`EffectProofs`)

Answers, jobs, log entries and pushes come several awaits after the commit they
are about, and a crash or a rejection may come in between, so each proof ties
the call to its row. `RowsAsCommitted` says that a payout has its row exactly
from its commit on; only of a call that failed or died is nothing said, for that
can happen on either side. `CreditsInv` says the same of approvals, and that row,
status and request of a top-up agree (`CreditOf`). With both, every step that
tells somebody of a row is of a row that is there (`TellingStep`), and rows are
never taken back (`LedgerGrows`). `PushesAreTrue` also needs `RegistryIsLive`:
the socket that is told belongs to the user. `TransfersInv` carries what the
webhook has found through the steps of the approval it calls. A refusal is true
when it is given and stays true, because versions only grow and calls and rows
stay (`RefusalsAreTrue`, `GroundsStay`).

`NoticesImplemented` maps `Commit` to `Make`, `Enqueue` to `Queue`, `TakeJob` to
`Try`, `EndHandler` to `Send` and `CompleteJob` to `Settle`; everything else, the
deaths of workers and the expiry of locks among them, is a stutter. How often a
job was tried is read off Redis: once for each time it was found stalled, and
once more if it is given out or completed (`Tries`). That a job is not sent more
often than it was tried is not inductive, since a worker may still be handling a
job that Redis has given to another; `HandlingInv` counts these too: the notices
of a job and the workers that have it in their hands and have not come to the end
(`Holders`) are together at most its tries. A death or an expiry only takes away
from the left side or leaves both (an expired lock moves a try from `claim` to
`stalls`). `HandlingInv` also says that whoever has ended its handler has left a
notice, so what is completed was sent; and `PaidForInv` that a job is of a payout
with a row.

### The books (`BookProofs`)

Only the two commits touch balances, versions and rows (`BooksKept`). The status
of wallets does not change, so what a call found out of its transaction still
holds in it (`Thawed`). `VersionsInv` counts the rows of a wallet: a commit adds
one row to sender and recipient each, and raises just their versions.
`LedgerImplemented` maps `Commit` to `Pay` and `CommitApproval` to `Fund`, and
every other step, failures, deadlocks and crashes among them, to a stutter; what
makes `Pay` and `Fund` allowed are `OptimisticLock`, `KeysFresh`, `PaidInv` and
`CreditsInv`. It is for every amount a request may name: `Payments` pairs what
PostgreSQL takes from the sender (`Charged`) with what it gives and records, and
these are the same for whatever balance stood there before, because a balance is
whole cents.

`BooksCorrect` follows from the same two commits: each adds one row to the ledger,
and changes the balances by what that row says. That a sum over rows grows by the
amount of the row that is added (`TotalAdd` in `SumProofs`) is not obvious to a
prover: the sum takes the rows in the order in which `CHOOSE` draws them, and a
new row may be drawn anywhere. `TotalWithout` says that any row may be taken
first. It is proved without an induction rule: of the finite sets for which it
failed, one has no smaller one among its subsets (`SmallestSet`, from the well
founded order of finite sets), and taking the drawn row out of that one gives the
contradiction.

### The list (`ListingProofs`)

`AsFar` says what a cursor means: of the rows the pager knew at its first page and
that share their `createdAt` with no other, those up to the cursor have been
listed once, and those after it not at all. A page keeps it (`PageFetched`),
because a page is made of the newest of what follows; a commit between two pages
keeps it, because rows are stamped before they are visible and never again
(`StampsStay`). The last page holds all that is left (`LastPage`), which needs
that the table is finite.

### What the code does not keep (`DivergenceProofs`)

The six runs that end in a violation show behaviours; they do not say how far the
damage goes. For four of the sentences `Divergences` therefore names the overlap
they fail on, and the theorems say that nothing else breaks them, for any number
of calls, failures and restarts:

| Sentence | Fails only if | Strengthening |
|---|---|---|
| `TopUpCreditedOnce` | two approvals of one request are between look and commit at once (`ApprovalsApart`) | `OnceInv`: the request of an approval past its look is still PENDING |
| `CacheNeverStale` | a call is about to commit to a wallet while a `getMyWallet` of it is about to fill the cache (`FillsApart`), or a call dies between commit and eviction (`EvictionsDone`) | `FreshInv`: a fill in flight has the stored balance, and a cached value that is stale has an eviction due |
| `BlockedStaysBlocked` | two reviews of one beneficiary are between look and update at once (`ReviewsApart`) | `PendingTillVerified`: a verification in flight is of a PENDING row |
| `PayoutIsPushed` | the server has two connections of one user at once (`ConnectionsApart`) | `OpenIsRegistered`: every open connection is the registered one |

The conditions do not rule out the hazards next to
them: under `ApprovalsApart` a request may be approved any number of times in a
row, and under `FillsApart` fills and evictions come in any order. `CacheFresh`
is also a property of the run `clients`; for the other three TLC's runs show the
sentence fail without the condition, and the theorem is that it holds with it.
The sentence of `double_delivery` has no such theorem: the code keeps no
reference, so nothing but the bank's own care would do. For `skipped_page` it is
`ListedOnce`, whose rows have their `createdAt` for themselves.

### Assumptions

The assumptions on constants (`...Assumption`) say what the schema says: owners
and holders are merchants, rows that exist at the start satisfy the unique
constraints, folding letters twice is folding them once, sentinels are not
values, and a session is either a payout or an approval. TLC evaluates them in
every run.

### Model-checked only

* `EveryCallEnds`, `EveryJobEnds`: liveness under fairness, and ENABLED, are out of
  the prover's reach. Both assume that Redis answers.

Every other property of the passing runs is proved.

## 5. Not modelled, and why

* Routes, validators, authentication and roles, signatures: stateless filters in
  front of the services. The models let every request arrive that they let
  through, and for amounts that is every positive number up to the limit.
* Rate limits: they only delay or refuse requests.
* Listings other than `getAllPayouts`: single queries without pages. Its filters
  by status and date only narrow the set of rows; a negative `limit`, with which
  Prisma pages backwards, is left out.
* Password hashes and tokens: a login with a known address may or may not have
  the right password, and a connection's token only says whose it is.
* Attempts and backoff of jobs: the worker's handler has nothing that can throw,
  so what repetition there is comes from workers that die or lose a lock.
* Log lines, messages, HTTP bodies, seed, scripts, the test client.
* The connection pool and the 5 s limit of interactive transactions: the limit
  is one of the ways an await rejects, the pool is not modelled.
* What two texts mean: the case of an IFSC code, which
  `beneficiary.validator.js:20` does not normalise while
  `channel.validator.js:23` does, and the spelling of a phone number.
* A race of two additions of one payee: `addBeneficiary` looks for no equal row,
  so its insert is one step that the unique constraints decide, and there is
  nothing to say of it but the constraint.

### Noticed while reading and modelling, without a run of its own

* A payout of an amount that ends in a half cent takes a cent less from the
  wallet than it records (0.015 takes 0.01 and records 0.02): the row and what is
  left after the debit are both rounded up (`payout.service.js:89`).
  `BooksBalance` states the books exactly, this cent included.
* `webhook.service.js:9` looks a channel up by account number alone, while the
  schema makes it unique only together with the IFSC (`schema.prisma:121`).
* `createPayout` looks at the beneficiary's status before its transaction, so a
  payee blocked in between is still paid; `PaidWhileVerified` states what does
  hold.
* A retry that overlaps its first call is answered 409 (`payout.routes.js:30`)
  rather than with the original row (`README.MD:130`); `AnswersAreTrue` states
  what does hold.
* A lost race for the wallet's version is answered 409, as `README.MD:95` has it;
  `payout.routes.js:57` lists it under 400.
* `referenceId` is the millisecond and the beginning of the beneficiary's id
  (`payout.service.js:112`): two payouts to one beneficiary in one millisecond,
  even with different keys, clash, and one answers 409.
* Opposite payouts can deadlock, and one of them answers 500, although
  `README.MD:129` names deadlock as what the version check avoids.
* The job is added with an `await` before the answer, so a Redis that rejects
  turns a payout that was made into a 500 (`README.MD:134` says the queue never
  blocks or risks it).
* A payout whose audit insert fails, or whose process dies after the commit, is
  in no log, and a channel's selection is never logged (`README.MD:135`).
* `createPayout` never sets `Transaction.beneficiaryId`, so the
  `onDelete: Restrict` of `README.MD:137` protects no payout.
* The push to the client comes from the API process, not from the worker as
  `README.MD:115` has it, and the worker's three attempts (`README.MD:114`) never
  come to bear; a lost lock or a worker that dies after it has handled a job has
  the merchant notified again.
* `README.MD:191` documents a GraphQL query `myTransactions` that
  `graphql/schema.js` does not have; `README.MD:184` speaks of a cursor on all
  administrators' lists, of which only that of payouts has one.
* `limit=0` answers 500: the page has no last row to take the cursor from
  (`payout.service.js:202`; `Fetch` has it).
* `channel.routes.js:73,100,118,145` and `topup.routes.js:84` validate a body
  that these requests have no use for; `payout.routes.js:124` lets merchants list
  all payouts.

## 6. Plan

What could still be added:

1. An abstract specification of funding: a request is asked, then credited, and
   by whom; with the approvals and the webhook as its implementation.
2. The step that the liveness properties rest on, without fairness: that a call
   that waits for a row waits for another that can go on, or stands in a cycle
   that a deadlock victim breaks.
3. The connection pool as a bounded resource: interactive transactions that wait
   for rows while they hold connections.
