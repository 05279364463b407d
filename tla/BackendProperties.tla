------------------------- MODULE BackendProperties -------------------------
(***************************************************************************)
(* What the backend as a whole should keep true, stated over the state of  *)
(* Backend.  Properties that the code does not keep are at the end; each   *)
(* quotes the sentence of the documentation that it formalises.            *)
(***************************************************************************)
EXTENDS Backend

Sessions == PayoutIds \union Approvals

PayoutRows  == {r \in ledger : r.type = "PAYOUT"}
FundingRows == {r \in ledger : r.type = "WALLET_TOPUP"}

PayoutPC ==
  {"idle", "beneficiary", "wallet", "debit", "evict", "evictPeer", "enqueue", "audit",
   "notify"}
    \union InTransaction \union Settled

ApprovalPC ==
  {"idle", "match", "approve", "credit", "commit", "evict", "audit", "notify"}
    \union Answered

Rows ==
  [id : PayoutIds, type : {"PAYOUT"}, user : Merchants,
   amount : Nat, key : Keys \union {NoKey}]
    \union
  [id : Approvals, type : {"WALLET_TOPUP"}, user : Merchants, amount : Nat, key : {NoKey}]

WalletsOK ==
  /\ balance \in [Merchants -> Int]
  /\ version \in [Merchants -> Nat]
  /\ rowLock \in [Merchants -> Sessions \union {Free}]
  /\ ledger \subseteq Rows
  /\ cache \in [Merchants -> Int \union {Miss}]

PayoutsOK ==
  /\ payout \in [PayoutIds -> [pc : PayoutPC, call : Calls \union {NoCall},
                               seen : Nat, at : Nat]]
  /\ \A p \in PayoutIds : payout[p].pc # "idle" => payout[p].call \in Calls
  /\ jobs \subseteq PayoutIds

BeneficiariesOK ==
  /\ benStatus \in [Beneficiaries -> Existing \union {"none"}]
  /\ review \in [Reviews -> [pc : {"idle", "verify", "block", "done"},
                             beneficiary : Beneficiaries \union {Nobody}]]
  /\ \A v \in Reviews : review[v].pc # "idle" => review[v].beneficiary \in Beneficiaries

ChannelsOK ==
  /\ chStatus \in [Channels -> {"none", "PENDING", "VERIFIED"}]
  /\ selected \in [Merchants -> Channels \union {NoChannel}]
  /\ channelCall \in [ChannelCalls -> [pc : {"idle", "insert", "select", "verify", "done"},
                                       channel : Channels \union {NoChannel},
                                       user : Merchants \union {NoUser}]]
  /\ \A o \in ChannelCalls :
       /\ channelCall[o].pc # "idle" => channelCall[o].channel \in Channels
       /\ channelCall[o].pc = "select" => channelCall[o].user \in Merchants

TopUpsOK ==
  /\ topUpStatus \in [TopUpIds -> {"none", "PENDING", "APPROVED"}]
  /\ approval \in [Approvals -> [pc : ApprovalPC,
                                 topUp : TopUpIds \union {NoTopUp},
                                 transfer : Transfers \union {NoTransfer},
                                 channel : Channels \union {NoChannel}]]
  /\ \A a \in Approvals :
       /\ approval[a].pc = "match" =>
            approval[a].channel \in Channels /\ approval[a].transfer \in Transfers
       /\ approval[a].pc \in {"approve", "credit", "commit", "evict", "audit", "notify",
                              "approved"} =>
            approval[a].topUp \in TopUpIds

ReadersOK ==
  /\ reader \in [Readers -> [pc : {"idle", "query", "fill", "served", "failed"},
                             user : Merchants \union {Nowhere},
                             seen : Int \union {Miss}]]
  /\ \A r \in Readers : reader[r].pc # "idle" => reader[r].user \in Merchants

SocketsOK ==
  /\ link \in [Sockets -> {"new", "open", "severed", "closed"}]
  /\ registry \in [Merchants -> Sockets \union {NoSocket}]
  /\ pushed \subseteq Sessions \X Sockets

WorkerOK ==
  /\ running \subseteq Workers
  /\ handling \in [Workers -> PayoutIds \union {NoJob}]
  /\ done \subseteq Workers
  /\ \A w \in done : handling[w] # NoJob
  /\ notices \in [PayoutIds -> Nat]
  /\ claim \in [PayoutIds -> Workers \union {Free}]
  /\ stalls \in [PayoutIds -> Nat]
  /\ completed \subseteq PayoutIds

ListingOK ==
  pager \in [Pagers -> [pc : {"idle", "paging", "ended", "failed"},
                        of : Merchants \union {Everyone},
                        size : Nat,
                        cursor : PayoutIds \union {NoRow},
                        known : SUBSET PayoutIds,
                        listed : [PayoutIds -> 0 .. 2]]]

RegistrationOK ==
  /\ users \subseteq [id : Signups, email : Emails, phone : Phones]
  /\ wallets \subseteq Signups
  /\ signup \in [Signups -> [pc : {"idle", "insert", "commit", "created", "conflict",
                                  "failed", "lost"},
                             form : Forms \union {NoForm}]]
  /\ \A g \in Signups : signup[g].pc # "idle" => signup[g].form \in Forms

(* Every table, every key and every call in flight has values of the shape *)
(* the code gives it; a call past its arrival has the request it serves.   *)
TypeOK ==
  /\ WalletsOK
  /\ PayoutsOK
  /\ BeneficiariesOK
  /\ ChannelsOK
  /\ TopUpsOK
  /\ ReadersOK
  /\ SocketsOK
  /\ WorkerOK
  /\ ListingOK
  /\ RegistrationOK

-----------------------------------------------------------------------------
(* No interleaving of debits and credits overdraws a wallet, although each *)
(* payout compares balance and amount outside its transaction and the      *)
(* update itself only compares the version.                                *)
NonNegativeBalances == \A m \in Merchants : balance[m] >= 0

(* Why: as long as the version a payout has read is the current one, and   *)
(* all through its transaction, the wallet covers the amount, although an  *)
(* approved top-up changes the balance without changing the version.       *)
OptimisticLock ==
  \A p \in PayoutIds :
    /\ payout[p].pc = "debit" =>
         /\ payout[p].seen <= version[Sender(p)]
         /\ payout[p].seen = version[Sender(p)] =>
              Covers(balance[Sender(p)], payout[p].call.amount)
    /\ payout[p].pc \in InTransaction =>
         Covers(balance[Sender(p)], payout[p].call.amount)

\* The wallets that the open transaction of a call has updated.
PayoutUpdated(p, m) ==
  \/ payout[p].pc \in InTransaction /\ m = Sender(p)
  \/ payout[p].pc \in {"insert", "commit"} /\ m = Recipient(p)

ApprovalUpdated(a, m) == approval[a].pc = "commit" /\ m = Beneficial(a)

(* A row is locked exactly while a transaction that has updated it is      *)
(* open: no error path, answer or restart leaves a wallet locked, and no   *)
(* transaction goes on without its lock.                                   *)
LocksHeld ==
  \A m \in Merchants :
    /\ \A p \in PayoutIds : (rowLock[m] = p) <=> PayoutUpdated(p, m)
    /\ \A a \in Approvals : (rowLock[m] = a) <=> ApprovalUpdated(a, m)

(* However many calls carry an idempotency key, at once or one after the   *)
(* other, at most one of them moves money.                                 *)
KeyPaidOnce ==
  \A r, s \in ledger : (r.key # NoKey /\ r.key = s.key) => r = s

(* The version of a wallet counts the committed payouts that debited or    *)
(* credited it: none is lost under another, and nothing else touches it.   *)
VersionCountsPayouts ==
  \A m \in Merchants :
    version[m] = Cardinality({r \in PayoutRows : m \in {r.user, Recipient(r.id)}})

-----------------------------------------------------------------------------
Total(S) == MapThenSumSet(LAMBDA r : r.amount, S)

SentBy(m)   == {r \in PayoutRows : r.user = m}
PaidTo(m)   == {r \in PayoutRows : Recipient(r.id) = m}
FundedTo(m) == {r \in FundingRows : r.user = m}

\* What the rows of Transaction say a wallet should hold.
BookBalance(m) ==
  OpeningBalance[m] + Total(FundedTo(m)) + Total(PaidTo(m)) - Total(SentBy(m))

\* The payouts of m whose amount ends in a half cent.
HalfCents(m) == {r \in SentBy(m) : payout[r.id].call.amount % 4 = 2}

(* The balances are the sums of the ledger, for every interleaving of      *)
(* payouts and top-ups and whatever fails in between.  The one difference  *)
(* is a cent that the sender keeps for each amount ending in a half cent:  *)
(* the row and the credit round it up, and so does what is left after the  *)
(* debit.                                                                  *)
BooksBalance ==
  \A m \in Merchants : balance[m] = BookBalance(m) + Cardinality(HalfCents(m))

(* No money goes into or out of a frozen wallet.  Payouts look at both     *)
(* wallets and approvals at theirs, each outside its transaction; nothing  *)
(* in the code freezes a wallet while it runs.                             *)
FrozenUntouched == \A m \in Frozen : balance[m] = OpeningBalance[m]

(* What the client is told is true of the tables: 201 when the payout is   *)
(* in the ledger and its notification in the queue, the original row on a  *)
(* replay, 400 and 409 only when no money of this call moved, and 409 only *)
(* when another payout did change the wallet, take the key, or go to the   *)
(* same beneficiary in the same millisecond.                               *)
AnswersAreTrue ==
  \A p \in PayoutIds :
    LET paid == \E r \in PayoutRows : r.id = p
        keyUsed == \E r \in ledger : RowWithKey(r, payout[p].call.key)
    IN
      /\ payout[p].pc = "created" => paid /\ p \in jobs
      /\ payout[p].pc = "replayed" =>
           \E r \in PayoutRows : RowWithKey(r, payout[p].call.key) /\ r.user = Sender(p)
      /\ payout[p].pc \in {"replayed", "rejected", "conflict", "clash"} => ~ paid
      /\ payout[p].pc = "clash" =>
           \E r \in PayoutRows :
             /\ payout[r.id].call.beneficiary = payout[p].call.beneficiary
             /\ payout[r.id].at = payout[p].at
      /\ payout[p].pc = "conflict" =>
           keyUsed \/ version[Sender(p)] > payout[p].seen

(* A notification or an audit entry is about a payout or an approval that  *)
(* is in the ledger, never about one that was rolled back.                 *)
EffectsFollowCommit ==
  /\ \A p \in jobs : \E r \in PayoutRows : r.id = p
  /\ \A e \in audit \union owed :
       e[1] \in {"PAYOUT_COMPLETED", "TOPUP_APPROVED"} => \E r \in ledger : r.id = e[2]

-----------------------------------------------------------------------------
(* A bank account is the channel of one merchant, although addChannel      *)
(* looks for it and inserts it in two steps.                               *)
OneChannelPerAccount ==
  \A c, d \in Channels :
    (c # d /\ chStatus[c] # "none" /\ chStatus[d] # "none") => ~ SameAccount(c, d)

(* The channel a merchant funds its wallet from is its own and verified.   *)
SelectedIsVerifiedAndOwn ==
  \A m \in Merchants :
    selected[m] # NoChannel =>
      Holder[selected[m]] = m /\ chStatus[selected[m]] = "VERIFIED"

(* A top-up is approved exactly when some approval of it has credited the  *)
(* wallet and left its row: the three writes happen together or not at all.*)
ApprovedIffCredited ==
  \A t \in TopUpIds :
    (topUpStatus[t] = "APPROVED") <=>
      \E r \in FundingRows :
        approval[r.id].topUp = t /\ r.user = Requester[t] /\ r.amount = Worth(t)

(* Only merchants with a verified account of their own are funded.         *)
RequestsAreBacked ==
  \A t \in TopUpIds :
    (topUpStatus[t] # "none" /\ InitialTopUp[t] = "none") =>
      \E c \in Channels : Holder[c] = Requester[t] /\ chStatus[c] = "VERIFIED"

(* What the bank reports is credited as reported: to the holder of a       *)
(* verified channel with that account number, and in that amount.          *)
TransferCreditedAsReported ==
  \A r \in FundingRows :
    LET x == approval[r.id].transfer IN
      x # NoTransfer =>
        /\ 4 * r.amount = x.amount
        /\ \E c \in Channels :
             /\ AccountNumber[c] = x.account
             /\ chStatus[c] = "VERIFIED"
             /\ Holder[c] = r.user

-----------------------------------------------------------------------------
(* The socket that the registry has for a user is the user's own, is not   *)
(* closed, and is the last that the user opened: an old socket that is     *)
(* disconnected late takes a newer one out, but never comes back for it.   *)
RegistryIsLive ==
  \A m \in Merchants :
    registry[m] # NoSocket =>
      /\ SocketUser[registry[m]] = m
      /\ Live(registry[m])
      /\ \A s \in Sockets : (s > registry[m] /\ SocketUser[s] = m) => link[s] = "new"

(* What a client is told over its socket is about a committed payout or    *)
(* top-up of its own, in whatever order connections, payouts, approvals    *)
(* and restarts come.                                                      *)
PushesAreTrue ==
  \A e \in pushed : \E r \in ledger : r.id = e[1] /\ r.user = SocketUser[e[2]]

(* A pager that has come to the end of the list has seen every row that    *)
(* was there when it began exactly once, although rows are inserted and    *)
(* committed between its pages, if no other row has the same createdAt.    *)
UntiedListedOnce ==
  \A g \in Pagers : pager[g].pc = "ended" =>
    \A p \in pager[g].known :
      (\A q \in Queried(pager[g].of) \ {p} : payout[q].at # payout[p].at) =>
        pager[g].listed[p] = 1

-----------------------------------------------------------------------------
(* No two users have one mailbox, in whatever letters the address was      *)
(* typed, or one phone number, however registrations interleave.           *)
OneUserPerMailbox ==
  \A u, v \in users : u # v => Lower[u.email] # Lower[v.email] /\ u.phone # v.phone

(* 201 only to a call whose user exists and has a wallet, 409 only when    *)
(* somebody else has the address or the number, no wallet without its      *)
(* user, and log entries are about users that exist.                       *)
RegistrationAnswersAreTrue ==
  /\ \A g \in Signups :
       /\ signup[g].pc = "created" => UserRow(g) \in users
       /\ signup[g].pc = "conflict" =>
            \E u \in users : u.id # g /\ Clashes(u, signup[g].form)
  /\ wallets = {u.id : u \in users}
  /\ \A e \in audit \union owed :
       e[1] \in {"USER_REGISTERED", "LOGIN_SUCCESS"} => \E u \in users : u.id = e[2]

(* Who was told 201 is found, and nobody else, when the address is typed   *)
(* to log in, in whatever letters: what register stores and what login     *)
(* looks for go through two schemas, and agree for every pair of spellings.*)
RegisteredCanLogIn ==
  \A g \in Signups, e \in Emails :
    (signup[g].pc = "created" /\ Lower[e] = Lower[signup[g].form.email]) =>
      Found(e) = {UserRow(g)}

-----------------------------------------------------------------------------
(* Every call that arrives comes to an answer, though payouts in opposite  *)
(* directions lock the same two wallets in opposite order, and a           *)
(* registration waits for one that has inserted the same address.          *)
EveryCallEnds ==
  /\ \A p \in PayoutIds : payout[p].pc # "idle" ~> payout[p].pc \in Settled
  /\ \A a \in Approvals : approval[a].pc # "idle" ~> approval[a].pc \in Answered
  /\ \A v \in Reviews : review[v].pc # "idle" ~> review[v].pc = "done"
  /\ \A o \in ChannelCalls : channelCall[o].pc # "idle" ~> channelCall[o].pc = "done"
  /\ \A g \in Signups :
       signup[g].pc # "idle" ~> signup[g].pc \in {"created", "conflict", "failed", "lost"}

(* The job of every payout that was answered 201 is completed by some      *)
(* worker, whatever workers die with it in their hands or lose its lock,   *)
(* unless that happens too often or no worker is left.                     *)
EveryJobEnds ==
  \A p \in PayoutIds :
    payout[p].pc = "created" ~> p \in completed \/ GivenUp(p) \/ running = {}

-----------------------------------------------------------------------------
\* What an amount costs its sender: what is paid, but for the cent that the
\* rounding of a half cent leaves in the wallet.
Charged(a) == Stored(a) - (IF a % 4 = 2 THEN 1 ELSE 0)

Promise == INSTANCE Ledger WITH
  Outside  <- Bank,
  Ids      <- Sessions,
  Payments <- {<<Charged(c.amount), Stored(c.amount)>> : c \in Calls},
  Credits  <- {Worth(t) : t \in TopUpIds}

(* All the steps of all the calls come down to the indivisible payments    *)
(* and credits of Ledger: what is between them, and every failure, crash   *)
(* and deadlock, is invisible in the books.                                *)
ImplementsLedger == Promise!Spec

\* How far the notification of payout p has come.
Stage(p) ==
  IF p \in completed THEN "done"
  ELSE IF p \in jobs THEN "queued"
  ELSE IF \E r \in PayoutRows : r.id = p THEN "made"
  ELSE "none"

\* How often a worker was given the job: whenever it was found stalled, and the
\* time that it is with a worker now or was completed.
Tries(p) == stalls[p] + (IF claim[p] # Free \/ p \in completed THEN 1 ELSE 0)

Delivery == INSTANCE Notices WITH
  Ids      <- PayoutIds,
  MaxTries <- MaxStalls + 1,
  stage    <- [p \in PayoutIds |-> Stage(p)],
  tries    <- [p \in PayoutIds |-> Tries(p)],
  sent     <- notices

(* A notification goes its way in the order of Notices, whoever dies or    *)
(* loses a lock, although a job can be with two workers at once: no payout *)
(* that was rolled back gets one, none is recorded as completed before a   *)
(* handler of it has come to its end, none is begun again after that, and  *)
(* a merchant is notified once more only for a lock that was lost.         *)
ImplementsNotices == Delivery!Spec

Directory == INSTANCE Directory WITH
  Ids       <- Signups,
  Mailboxes <- {Lower[e] : e \in Emails},
  Numbers   <- Phones

(* However registrations interleave and fail, each comes down to one step  *)
(* of Directory or to none.                                                *)
ImplementsDirectory == Directory!Spec
=============================================================================
