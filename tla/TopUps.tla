------------------------------- MODULE TopUps -------------------------------
(***************************************************************************)
(* Top-ups of a wallet.  A merchant with a verified selected channel asks  *)
(* for one; an administrator approves it, or the bank does through the     *)
(* webhook, which looks for the account's holder and the oldest pending    *)
(* request of that holder with the transferred amount, and then runs the   *)
(* same approveTopUp.  An approval reads the request, tests the status it  *)
(* read, and credits the wallet in a transaction that tests nothing again: *)
(*                                                                         *)
(*   idle [-> match] -> approve -> credit -> commit -> evict -> audit      *)
(*        -> notify -> approved                                            *)
(*                                                                         *)
(* The transaction updates the wallet row before the request's row, so two *)
(* approvals of one request already wait for each other at the wallet row. *)
(***************************************************************************)
EXTENDS Channels, Sockets

CONSTANTS
  TopUpIds,       \* rows that may come to exist in TopUpRequest, by createdAt
  Requester,      \* TopUpRequest.userId
  Asked,          \* the amount of the request, in quarter-cents
  InitialTopUp,   \* the status of each row when the model starts
  Approvals,      \* calls of approveTopUp; the row a call inserts has its name
  Transfers,      \* what the webhook is told of: [account, amount]
  NoTransfer,     \* an approval by an administrator
  NoTopUp,        \* no request yet
  Unacknowledged  \* approvals whose database or Redis can fail

ASSUME TopUpsAssumption ==
  /\ TopUpIds \subseteq Nat
  /\ Requester \in [TopUpIds -> Merchants]
  /\ Asked \in [TopUpIds -> Nat \ {0}]
  /\ InitialTopUp \in [TopUpIds -> {"none", "PENDING"}]
  /\ \A x \in Transfers : x.amount \in Nat
  /\ NoTransfer \notin Transfers
  /\ NoTopUp \notin TopUpIds
  /\ Free \notin Approvals

VARIABLES
  topUpStatus, \* TopUpRequest.status, "none" while there is no row
  approval     \* the calls of approveTopUp and of the webhook

topUpVars == <<topUpStatus, approval>>

TopUpsInit ==
  /\ topUpStatus = InitialTopUp
  /\ approval = [a \in Approvals |->
       [pc |-> "idle", topUp |-> NoTopUp, transfer |-> NoTransfer,
        channel |-> NoChannel]]

Beneficial(a) == Requester[approval[a].topUp]  \* the user whose wallet is credited
Worth(t)      == Stored(Asked[t])              \* TopUpRequest.amount, in cents

\* The approvals that have answered or died.
Answered == {"rejected", "failed", "approved", "lost"}

ApprovalGoes(a, from, to) ==
  /\ approval[a].pc = from
  /\ approval' = [approval EXCEPT ![a].pc = to]

-----------------------------------------------------------------------------
\* Mutated form: the selected channel is not looked at.
RequestUnchecked(t) ==
  /\ topUpStatus[t] = "none"
  /\ \A u \in TopUpIds : u > t => topUpStatus[u] = "none"
  /\ topUpStatus' = [topUpStatus EXCEPT ![t] = "PENDING"]
  /\ owed' = owed \union {<<"TOPUP_REQUESTED", t>>}
  /\ UNCHANGED <<walletVars, cache, audit, pushed, approval>>

(* createTopUp.  A selected channel stays selected and verified, so what   *)
(* is read before the insert still holds at the insert: one step.          *)
RequestTopUp(t) ==
  /\ topUpStatus[t] = "none"
  /\ \A u \in TopUpIds : u > t => topUpStatus[u] = "none"
  /\ selected[Requester[t]] # NoChannel
  /\ chStatus[selected[Requester[t]]] = "VERIFIED"
  /\ topUpStatus' = [topUpStatus EXCEPT ![t] = "PENDING"]
  /\ owed' = owed \union {<<"TOPUP_REQUESTED", t>>}
  /\ UNCHANGED <<walletVars, cache, audit, pushed, approval>>

ApprovalArrives(a, call) ==
  /\ approval[a].pc = "idle"
  /\ approval' = [approval EXCEPT ![a] = call]
  /\ UNCHANGED <<walletVars, cache, effectVars, topUpStatus>>

AdminApproves(a, t) ==
  ApprovalArrives(a, [pc |-> "approve", topUp |-> t, transfer |-> NoTransfer,
                      channel |-> NoChannel])

(* The webhook takes any verified channel with the account number; banks   *)
(* number accounts independently, so there can be several.                 *)
WebhookReceived(a, x) ==
  \E c \in Channels :
    /\ chStatus[c] = "VERIFIED"
    /\ AccountNumber[c] = x.account
    /\ ApprovalArrives(a, [pc |-> "match", topUp |-> NoTopUp, transfer |-> x,
                           channel |-> c])

WebhookUnknown(a, x) ==
  /\ ~ \E c \in Channels : chStatus[c] = "VERIFIED" /\ AccountNumber[c] = x.account
  /\ ApprovalArrives(a, [pc |-> "rejected", topUp |-> NoTopUp, transfer |-> x,
                         channel |-> NoChannel])

\* The pending requests of the account's holder with the transferred amount.
Matching(a) ==
  {t \in TopUpIds :
     /\ topUpStatus[t] = "PENDING"
     /\ Requester[t] = Holder[approval[a].channel]
     /\ 4 * Worth(t) = approval[a].transfer.amount}

\* Mutated form: any request of the holder will do.
MatchAnyAmount(a) ==
  /\ approval[a].pc = "match"
  /\ \E t \in TopUpIds :
       /\ topUpStatus[t] = "PENDING"
       /\ Requester[t] = Holder[approval[a].channel]
       /\ approval' = [approval EXCEPT ![a].pc = "approve", ![a].topUp = t]
  /\ UNCHANGED <<walletVars, cache, effectVars, topUpStatus>>

MatchOldest(a) ==
  /\ approval[a].pc = "match"
  /\ \E t \in Matching(a) :
       /\ \A u \in Matching(a) : t <= u
       /\ approval' = [approval EXCEPT ![a].pc = "approve", ![a].topUp = t]
  /\ UNCHANGED <<walletVars, cache, effectVars, topUpStatus>>

MatchNone(a) ==
  /\ ApprovalGoes(a, "match", "rejected")
  /\ Matching(a) = {}
  /\ UNCHANGED <<walletVars, cache, effectVars, topUpStatus>>

-----------------------------------------------------------------------------
Approvable(a) ==
  /\ topUpStatus[approval[a].topUp] = "PENDING"
  /\ Beneficial(a) \notin Frozen

ReadTopUp(a) ==
  /\ ApprovalGoes(a, "approve", "credit")
  /\ Approvable(a)
  /\ UNCHANGED <<walletVars, cache, effectVars, topUpStatus>>

RefuseTopUp(a) ==
  /\ ApprovalGoes(a, "approve", "rejected")
  /\ ~ Approvable(a)
  /\ UNCHANGED <<walletVars, cache, effectVars, topUpStatus>>

(* The update of the wallet row waits for its lock.                        *)
CreditWallet(a) ==
  /\ ApprovalGoes(a, "credit", "commit")
  /\ Lock(a, Beneficial(a))
  /\ UNCHANGED <<balance, version, ledger, cache, effectVars, topUpStatus>>

TopUpRow(a) ==
  [id |-> a, type |-> "WALLET_TOPUP", user |-> Beneficial(a),
   amount |-> Worth(approval[a].topUp), key |-> NoKey]

\* Mutated form: the request stays pending.
CommitCreditOnly(a) ==
  /\ ApprovalGoes(a, "commit", "evict")
  /\ balance' = [balance EXCEPT ![Beneficial(a)] = @ + Worth(approval[a].topUp)]
  /\ ledger' = ledger \union {TopUpRow(a)}
  /\ rowLock' = Unlocked(a)
  /\ UNCHANGED <<version, cache, effectVars, topUpStatus>>

\* Mutated form: no ledger row is written.
CommitWithoutRow(a) ==
  /\ ApprovalGoes(a, "commit", "evict")
  /\ balance' = [balance EXCEPT ![Beneficial(a)] = @ + Worth(approval[a].topUp)]
  /\ topUpStatus' = [topUpStatus EXCEPT ![approval[a].topUp] = "APPROVED"]
  /\ rowLock' = Unlocked(a)
  /\ UNCHANGED <<version, ledger, cache, effectVars>>

(* The credit does not count the version up, and the status of the request *)
(* is not looked at again.                                                 *)
CommitApproval(a) ==
  /\ ApprovalGoes(a, "commit", "evict")
  /\ balance' = [balance EXCEPT ![Beneficial(a)] = @ + Worth(approval[a].topUp)]
  /\ topUpStatus' = [topUpStatus EXCEPT ![approval[a].topUp] = "APPROVED"]
  /\ ledger' = ledger \union {TopUpRow(a)}
  /\ rowLock' = Unlocked(a)
  /\ UNCHANGED <<version, cache, effectVars>>

EvictApproved(a) ==
  /\ ApprovalGoes(a, "evict", "audit")
  /\ cache' = Evicted(Beneficial(a))
  /\ UNCHANGED <<walletVars, effectVars, topUpStatus>>

LogApproval(a) ==
  /\ ApprovalGoes(a, "audit", "notify")
  /\ audit' \in {audit, audit \union {<<"TOPUP_APPROVED", a>>}}
  /\ UNCHANGED <<walletVars, cache, owed, pushed, topUpStatus>>

FinishApproval(a) ==
  /\ ApprovalGoes(a, "notify", "approved")
  /\ NotifyUser(Beneficial(a), a)
  /\ UNCHANGED <<walletVars, cache, logVars, topUpStatus>>

(* An await rejects; an open transaction is rolled back.                   *)
ApprovalFails(a) ==
  /\ \E l \in {"match", "approve", "credit", "commit", "evict"} :
       ApprovalGoes(a, l, "failed")
  /\ rowLock' = Unlocked(a)
  /\ UNCHANGED <<balance, version, ledger, cache, effectVars, topUpStatus>>

-----------------------------------------------------------------------------
ApprovalArrival(a) ==
  \/ \E t \in TopUpIds : AdminApproves(a, t)
  \/ \E x \in Transfers : WebhookReceived(a, x) \/ WebhookUnknown(a, x)

ApprovalStep(a) ==
  \/ MatchOldest(a) \/ MatchNone(a)
  \/ ReadTopUp(a) \/ RefuseTopUp(a)
  \/ CreditWallet(a) \/ CommitApproval(a)
  \/ EvictApproved(a) \/ LogApproval(a) \/ FinishApproval(a)

TopUpsNext ==
  \/ \E t \in TopUpIds : RequestTopUp(t)
  \/ \E a \in Approvals : ApprovalArrival(a) \/ ApprovalStep(a)
  \/ \E a \in Approvals \intersect Unacknowledged : ApprovalFails(a)

ApprovalsLost ==
  [a \in Approvals |->
     IF approval[a].pc \in {"idle"} \union Answered THEN approval[a]
     ELSE [approval[a] EXCEPT !.pc = "lost"]]
=============================================================================
