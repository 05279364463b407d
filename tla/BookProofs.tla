----------------------------- MODULE BookProofs -----------------------------
(***************************************************************************)
(* Proofs about the books, for every choice of the constants of Backend:   *)
(* frozen wallets are left alone, a version counts the payouts of its      *)
(* wallet, the backend implements Ledger, and the books balance.           *)
(***************************************************************************)
EXTENDS EffectProofs, SumProofs

\* What a step of each service does to the books.
LEMMA BooksKept ==
  ASSUME TypeOK, Solvent, [Next]_vars,
         ~ (\E p \in PayoutIds : Commit(p)), ~ (\E a \in Approvals : CommitApproval(a))
  PROVE  UNCHANGED <<balance, version, ledger>>
<1> USE DEF walletVars
<1>1. CASE \/ Log \/ (\E m \in Merchants : Lapse(m)) \/ OtherService \/ Idle \/ UNCHANGED vars
  BY <1>1, OtherSteps
<1>2. CASE PayoutService
  <2>1. PICK p \in PayoutIds : Arrival(p) \/ PayoutStep(p) \/ Fails(p)
    BY <1>2, PayoutsAssumption DEF PayoutService, PayoutsNext
  <2>2. balance' = balance /\ version' = version
    BY <2>1, GuardedStep, SolventGuarded DEF Solvent
  <2>3. ledger' = ledger
    BY <2>1, OtherPayoutSteps DEF InsertRow
  <2> QED
    BY <2>2, <2>3
<1>3. CASE TopUpService
  <2>1. CASE \E t \in TopUpIds : RequestTopUp(t)
    BY <2>1 DEF RequestTopUp
  <2>2. ASSUME NEW a \in Approvals, ApprovalArrival(a) \/ ApprovalStep(a) \/ ApprovalFails(a)
        PROVE  UNCHANGED <<balance, version, ledger>>
    BY <2>2 DEF ApprovalArrival, AdminApproves, WebhookReceived, WebhookUnknown, ApprovalArrives,
       ApprovalStep, ApprovalFails, MatchOldest, MatchNone, ReadTopUp, RefuseTopUp, CreditWallet,
       EvictApproved, LogApproval, FinishApproval
  <2> QED
    BY <1>3, <2>1, <2>2 DEF TopUpService, TopUpsNext
<1>4. CASE Crash
  BY <1>4 DEF Crash
<1> QED
  BY <1>1, <1>2, <1>3, <1>4 DEF Next, OtherService

-----------------------------------------------------------------------------
(* Frozen wallets.  Which wallets are frozen does not change, so what a    *)
(* call has found of its wallets outside the transaction still holds in    *)
(* it.                                                                     *)

PastWallet == {"debit", "credit", "insert", "commit"}

Thawed ==
  /\ \A p \in PayoutIds :
       /\ payout[p].pc \in PastCheck => Recipient(p) \notin Frozen
       /\ payout[p].pc \in PastWallet => Sender(p) \notin Frozen
  /\ \A a \in Approvals :
       approval[a].pc \in {"credit", "commit"} => Beneficial(a) \notin Frozen

FrozenInv == Thawed /\ FrozenUntouched

\* How a payout gets past its checks.
LEMMA CheckSteps ==
  ASSUME TypeOK, NEW p \in PayoutIds, Arrival(p) \/ PayoutStep(p) \/ Fails(p)
  PROVE  /\ payout'[p].pc \in PastCheck => payout[p].pc \in PastCheck \/ CheckBeneficiary(p)
         /\ payout'[p].pc \in PastWallet => payout[p].pc \in PastWallet \/ ReadWallet(p)
         /\ payout'[p].pc \in PastCheck => payout'[p].call = payout[p].call
<1>0. PayoutsOK
  BY DEF TypeOK
<1> USE DEF PastCheck, PastWallet
<1>1. CASE Arrival(p)
  <2>1. PICK c \in Calls, l \in {"replayed", "conflict", "beneficiary"} : Arrive(p, c, l)
    BY <1>1 DEF Arrival, ReplayExisting, KeyTakenByOther, Admit
  <2> QED
    BY <1>0, <2>1 DEF Arrive, PayoutsOK
<1>2. CASE ReadWallet(p)
  BY <1>0, <1>2 DEF ReadWallet, PayoutsOK
<1>3. CASE InsertRow(p) \/ DuplicateReference(p)
  BY <1>0, <1>3, InsertFrame, ClashFrame
<1>4. ASSUME NEW from, NEW to, GoTo(p, from, to),
             to \in PastCheck => from \in PastCheck \/ CheckBeneficiary(p),
             to \in PastWallet => from \in PastWallet
      PROVE  /\ payout'[p].pc \in PastCheck => payout[p].pc \in PastCheck \/ CheckBeneficiary(p)
             /\ payout'[p].pc \in PastWallet => payout[p].pc \in PastWallet
             /\ payout'[p].call = payout[p].call
  BY <1>0, <1>4, GoToFrame
<1>5. CASE CheckBeneficiary(p)
  <2>1. GoTo(p, "beneficiary", "wallet")
    BY <1>5 DEF CheckBeneficiary
  <2> QED
    BY <1>4, <1>5, <2>1
<1>6. CASE Debit(p)
  <2>1. GoTo(p, "debit", "credit") \/ GoTo(p, "debit", "insert")
    BY <1>6 DEF Debit
  <2> QED
    BY <1>4, <2>1
<1>7. CASE Evict(p)
  <2>1. GoTo(p, "evict", "evictPeer") \/ GoTo(p, "evict", "enqueue")
    BY <1>7 DEF Evict
  <2> QED
    BY <1>4, <2>1
<1>8. CASE Credit(p) \/ Commit(p)
  BY <1>4, <1>8 DEF Credit, Commit
<1>9. CASE RefuseBeneficiary(p) \/ RefuseWallet(p) \/ EvictPeer(p) \/ Enqueue(p)
           \/ LogPayout(p) \/ Finish(p)
  BY <1>4, <1>9 DEF RefuseBeneficiary, RefuseWallet, EvictPeer, Enqueue, LogPayout, Finish
<1>10. CASE LoseRace(p) \/ DuplicateKey(p) \/ DeadlockVictim(p) \/ Fails(p)
  <2>1. \E from : \E to \in {"conflict", "clash", "failed"} : GoTo(p, from, to)
    BY <1>10 DEF LoseRace, DuplicateKey, DeadlockVictim, Fails, Rollback
  <2> QED
    BY <1>4, <2>1
<1> QED
  BY <1>1, <1>2, <1>3, <1>5, <1>6, <1>7, <1>8, <1>9, <1>10 DEF PayoutStep

LEMMA ThawedPayout ==
  ASSUME TypeOK, Thawed, NEW p \in PayoutIds, Arrival(p) \/ PayoutStep(p) \/ Fails(p),
         approval' = approval
  PROVE  Thawed'
<1>1. CheckBeneficiary(p) => Recipient(p) \notin Frozen
  BY DEF CheckBeneficiary, Payable, Recipient
<1>2. ReadWallet(p) => Sender(p) \notin Frozen
  BY DEF ReadWallet, Affordable
<1>3. \A q \in PayoutIds \ {p} : payout'[q] = payout[q]
  BY PayoutsFrame
<1>4. PastWallet \subseteq PastCheck
  BY DEF PastWallet, PastCheck
<1>5. /\ payout'[p].pc \in PastCheck => Recipient(p)' \notin Frozen
      /\ payout'[p].pc \in PastWallet => Sender(p)' \notin Frozen
  BY <1>1, <1>2, <1>4, CheckSteps DEF Thawed, Recipient, Sender
<1> QED
  BY <1>3, <1>5 DEF Thawed, Recipient, Sender, Beneficial

LEMMA ThawedApproval ==
  ASSUME TypeOK, Thawed, NEW a \in Approvals,
         ApprovalArrival(a) \/ ApprovalStep(a) \/ ApprovalFails(a), payout' = payout
  PROVE  Thawed'
<1>0. TopUpsOK
  BY DEF TypeOK
<1>1. ASSUME \A d \in Approvals \ {a} : approval'[d] = approval[d],
             approval'[a].pc \in {"credit", "commit"} => Beneficial(a)' \notin Frozen
      PROVE  Thawed'
  BY <1>1 DEF Thawed, Recipient, Sender, Beneficial
<1>2. CASE ApprovalArrival(a)
  BY <1>1, <1>2, ApprovalComes
<1>3. CASE MatchOldest(a)
  BY <1>1, <1>3, ApprovalMatches
<1>4. ASSUME NEW from, NEW to, ApprovalGoes(a, from, to),
             to \in {"credit", "commit"} => Beneficial(a) \notin Frozen
      PROVE  Thawed'
  BY <1>0, <1>1, <1>4, ApprovalGoesFrame DEF Beneficial
<1>5. CASE ReadTopUp(a)
  BY <1>4, <1>5 DEF ReadTopUp, Approvable
<1>6. CASE CreditWallet(a)
  <2>1. ApprovalGoes(a, "credit", "commit") /\ Beneficial(a) \notin Frozen
    BY <1>6 DEF CreditWallet, ApprovalGoes, Thawed
  <2> QED
    BY <1>4, <2>1
<1>7. CASE MatchNone(a) \/ RefuseTopUp(a) \/ CommitApproval(a) \/ EvictApproved(a)
           \/ LogApproval(a) \/ FinishApproval(a)
  BY <1>4, <1>7 DEF MatchNone, RefuseTopUp, CommitApproval, EvictApproved, LogApproval, FinishApproval
<1>8. CASE ApprovalFails(a)
  BY <1>4, <1>8 DEF ApprovalFails
<1> QED
  BY <1>2, <1>3, <1>5, <1>6, <1>7, <1>8 DEF ApprovalStep

LEMMA ThawedNext ==
  ASSUME TypeOK, Thawed, [Next]_vars
  PROVE  Thawed'
<1>1. ASSUME UNCHANGED <<payout, approval>> PROVE Thawed'
  BY <1>1 DEF Thawed, Recipient, Sender, Beneficial
<1>2. CASE \/ Log \/ (\E m \in Merchants : Lapse(m)) \/ OtherService \/ Idle \/ UNCHANGED vars
  BY <1>1, <1>2, OtherSteps DEF payoutVars, topUpVars
<1>3. CASE PayoutService
  BY <1>3, ThawedPayout, PayoutsAssumption DEF PayoutService, PayoutsNext, NotPayouts, topUpVars
<1>4. CASE TopUpService
  <2>1. CASE \E t \in TopUpIds : RequestTopUp(t)
    BY <1>1, <1>4, <2>1 DEF RequestTopUp, TopUpService, NotTopUps, payoutVars
  <2> QED
    BY <1>4, <2>1, ThawedApproval DEF TopUpService, TopUpsNext, NotTopUps, payoutVars
<1>5. CASE Crash
  <2>1. ASSUME NEW p \in PayoutIds PROVE payout'[p].pc \notin PastCheck \union PastWallet
    <3>1. payout'[p] = IF payout[p].pc \in {"idle"} \union Settled THEN payout[p]
                       ELSE [payout[p] EXCEPT !.pc = "lost"]
      BY <1>5 DEF Crash, PayoutsLost
    <3> QED
      BY <3>1 DEF TypeOK, PayoutsOK, PastCheck, PastWallet, Settled
  <2>2. ASSUME NEW a \in Approvals PROVE approval'[a].pc \notin {"credit", "commit"}
    <3>1. approval'[a] = IF approval[a].pc \in {"idle"} \union Answered THEN approval[a]
                         ELSE [approval[a] EXCEPT !.pc = "lost"]
      BY <1>5 DEF Crash, ApprovalsLost
    <3> QED
      BY <3>1 DEF TypeOK, TopUpsOK, Answered
  <2> QED
    BY <2>1, <2>2 DEF Thawed
<1> QED
  BY <1>2, <1>3, <1>4, <1>5 DEF Next, OtherService

LEMMA FrozenNext ==
  ASSUME TypeOK, Solvent, FrozenInv, [Next]_vars
  PROVE  FrozenInv'
<1>0. Thawed'
  BY ThawedNext DEF FrozenInv
<1>1. CASE \E p \in PayoutIds : Commit(p)
  <2>1. PICK p \in PayoutIds : Commit(p)
    BY <1>1
  <2>2. Sender(p) \notin Frozen /\ Recipient(p) \notin Frozen /\ balance' = Moved(p)
    BY <2>1 DEF Commit, GoTo, FrozenInv, Thawed, PastCheck, PastWallet
  <2> QED
    BY <1>0, <2>2, WalletDbAssumption DEF FrozenInv, FrozenUntouched, Moved
<1>2. CASE \E a \in Approvals : CommitApproval(a)
  <2>1. PICK a \in Approvals : CommitApproval(a)
    BY <1>2
  <2>2. /\ Beneficial(a) \notin Frozen
        /\ balance' = [balance EXCEPT ![Beneficial(a)] = @ + Worth(approval[a].topUp)]
    BY <2>1 DEF CommitApproval, ApprovalGoes, FrozenInv, Thawed
  <2> QED
    BY <1>0, <2>2, WalletDbAssumption DEF FrozenInv, FrozenUntouched, TypeOK, WalletsOK
<1>3. CASE ~ (\E p \in PayoutIds : Commit(p)) /\ ~ (\E a \in Approvals : CommitApproval(a))
  BY <1>0, <1>3, BooksKept DEF FrozenInv, FrozenUntouched
<1> QED
  BY <1>1, <1>2, <1>3

(* No money goes into or out of a frozen wallet, although each call looks  *)
(* at the status of its wallets before, and outside, its transaction.      *)
THEOREM FrozenStay == Spec => []FrozenUntouched
<1>1. Init => FrozenInv
  <2> SUFFICES ASSUME Init PROVE FrozenInv
    OBVIOUS
  <2>1. /\ \A p \in PayoutIds : payout[p].pc = "idle"
        /\ \A a \in Approvals : approval[a].pc = "idle"
        /\ balance = OpeningBalance
    BY DEF Init, PayoutsInit, TopUpsInit, WalletDbInit
  <2> QED
    BY <2>1 DEF FrozenInv, Thawed, FrozenUntouched, PastCheck, PastWallet
<1>2. TypeOK /\ Solvent /\ FrozenInv /\ [Next]_vars => FrozenInv'
  BY FrozenNext
<1>3. FrozenInv => FrozenUntouched
  BY DEF FrozenInv
<1> QED
  BY TypeCorrect, SolventAlways, <1>1, <1>2, <1>3, PTL DEF Spec
-----------------------------------------------------------------------------
(* Versions.  Debit and credit of one payout count each wallet up once,    *)
(* and its row is new, so both sides of the equation grow together.        *)

RowsOf(m) == {r \in PayoutRows : m \in {r.user, Recipient(r.id)}}

VersionsInv ==
  /\ IsFiniteSet(ledger)
  /\ \A m \in Merchants : version[m] = Cardinality(RowsOf(m))

\* The payees of rows are looked up in calls that do not change.
LEMMA RowsOfKept ==
  ASSUME TypeOK, PaidInv, [Next]_vars, NEW m
  PROVE  RowsOf(m)' = {r \in PayoutRows' : m \in {r.user, Recipient(r.id)'}}
         /\ \A r \in PayoutRows : Recipient(r.id)' = Recipient(r.id)
<1>1. \A r \in PayoutRows : payout'[r.id].call = payout[r.id].call
  BY CallsStay, RowIds DEF PaidInv
<1> QED
  BY <1>1 DEF RowsOf, Recipient

LEMMA VersionsAtCommit ==
  ASSUME TypeOK, PaidInv, PaidForInv, VersionsInv, [Next]_vars,
         NEW p \in PayoutIds, Commit(p), NEW m \in Merchants
  PROVE  version'[m] = Cardinality(RowsOf(m)')
<1>1. payout[p].pc = "commit" /\ payout'[p].call = payout[p].call
  BY GoToFrame DEF Commit, TypeOK
<1>2. PayoutRows' = PayoutRows \union {PayoutRow(p)}
  BY DEF Commit, PayoutRows, PayoutRow
<1>3. PayoutRow(p) \notin RowsOf(m)
  BY <1>1 DEF RowsOf, PayoutRow, PaidForInv, RowsAsCommitted, Unpaid, Paid
<1>4. PayoutRow(p).id = p /\ PayoutRow(p).user = Sender(p) /\ Recipient(p)' = Recipient(p)
  BY <1>1 DEF PayoutRow, Recipient
<1>5. RowsOf(m)' = IF m \in {Sender(p), Recipient(p)} THEN RowsOf(m) \union {PayoutRow(p)}
                   ELSE RowsOf(m)
  BY <1>2, <1>4, RowsOfKept DEF RowsOf
<1>6. IsFiniteSet(RowsOf(m))
  BY FS_Subset DEF VersionsInv, RowsOf, PayoutRows
<1>7. Cardinality(RowsOf(m)') = IF m \in {Sender(p), Recipient(p)} THEN Cardinality(RowsOf(m)) + 1
                                ELSE Cardinality(RowsOf(m))
  BY <1>3, <1>5, <1>6, FS_AddElement
<1>8. version'[m] = IF m \in {Sender(p), Recipient(p)} THEN version[m] + 1 ELSE version[m]
  BY DEF Commit, Bumped
<1> QED
  BY <1>7, <1>8 DEF VersionsInv

LEMMA VersionsNext ==
  ASSUME TypeOK, Solvent, PaidInv, PaidForInv, VersionsInv, [Next]_vars
  PROVE  VersionsInv'
<1>1. CASE \E p \in PayoutIds : Commit(p)
  <2>1. PICK p \in PayoutIds : Commit(p)
    BY <1>1
  <2>2. IsFiniteSet(ledger')
    BY <2>1, FS_AddElement DEF Commit, VersionsInv
  <2> QED
    BY <2>1, <2>2, VersionsAtCommit DEF VersionsInv
<1>2. CASE \E a \in Approvals : CommitApproval(a)
  <2>1. PICK a \in Approvals : CommitApproval(a)
    BY <1>2
  <2>2. IsFiniteSet(ledger')
    BY <2>1, FS_AddElement DEF CommitApproval, VersionsInv
  <2>3. PayoutRows' = PayoutRows /\ version' = version
    BY <2>1 DEF CommitApproval, TopUpRow, PayoutRows
  <2>4. \A m : RowsOf(m)' = RowsOf(m)
    BY <2>3, RowsOfKept DEF RowsOf
  <2> QED
    BY <2>2, <2>3, <2>4 DEF VersionsInv
<1>3. CASE ~ (\E p \in PayoutIds : Commit(p)) /\ ~ (\E a \in Approvals : CommitApproval(a))
  <2>1. UNCHANGED <<version, ledger>>
    BY <1>3, BooksKept
  <2>2. \A m : RowsOf(m)' = RowsOf(m)
    BY <2>1, RowsOfKept DEF RowsOf, PayoutRows
  <2> QED
    BY <2>1, <2>2 DEF VersionsInv
<1> QED
  BY <1>1, <1>2, <1>3

LEMMA VersionsAlways == Spec => []VersionsInv
<1>1. Init => VersionsInv
  <2> SUFFICES ASSUME Init PROVE VersionsInv
    OBVIOUS
  <2>1. ledger = {} /\ \A m \in Merchants : version[m] = 0 /\ RowsOf(m) = {}
    BY DEF Init, WalletDbInit, RowsOf, PayoutRows
  <2> QED
    BY <2>1, FS_EmptySet DEF VersionsInv
<1>2. TypeOK /\ Solvent /\ PaidInv /\ PaidForInv /\ VersionsInv /\ [Next]_vars => VersionsInv'
  BY VersionsNext
<1> QED
  BY TypeCorrect, SolventAlways, PaidAlways, PaidForAlways, <1>1, <1>2, PTL DEF Spec

(* A wallet's version is the number of committed payouts that debited or   *)
(* credited it: no update is lost under another, and top-ups, failures and *)
(* restarts do not count.                                                  *)
THEOREM VersionsCount == Spec => []VersionCountsPayouts
<1>1. VersionsInv => VersionCountsPayouts
  BY DEF VersionsInv, VersionCountsPayouts, RowsOf
<1> QED
  BY VersionsAlways, <1>1, PTL

-----------------------------------------------------------------------------
(* The refinement of Ledger.  Only the two commits show; every other step  *)
(* leaves balances and rows alone.                                         *)

LEMMA MoneyTypes ==
  ASSUME NEW a \in Nat
  PROVE  Stored(a) \in Nat /\ Charged(a) \in Int
<1>1. Stored(a) \in Nat
  BY DEF Stored
<1> QED
  BY <1>1 DEF Charged

\* What rounding does: a credit is what is stored, a debit what is charged, and
\* a wallet that covers an amount has what is charged for it.
LEMMA RoundedMoves ==
  ASSUME NEW b \in Int, NEW a \in Nat
  PROVE  /\ Credited(b, a) = b + Stored(a)
         /\ Debited(b, a) = b - Charged(a)
         /\ Covers(b, a) => Charged(a) <= b
<1>1. PICK q \in Nat, r \in 0 .. 3 : a = 4 * q + r
  <2>1. a \div 4 \in Nat /\ a % 4 \in 0 .. 3
    OBVIOUS
  <2>2. a = 4 * (a \div 4) + (a % 4)
    OBVIOUS
  <2> QED
    BY <2>1, <2>2
<1>2. a % 4 = r
  BY <1>1
<1>3. Stored(a) = IF r \in {2, 3} THEN q + 1 ELSE q
  BY <1>1 DEF Stored
<1>4. Charged(a) = IF r = 3 THEN q + 1 ELSE q
  BY <1>2, <1>3 DEF Charged
<1>5. Credited(b, a) = IF r \in {2, 3} THEN b + q + 1 ELSE b + q
  BY <1>1 DEF Credited
<1>6. Debited(b, a) = IF r = 3 THEN b - q - 1 ELSE b - q
  BY <1>1 DEF Debited
<1>7. Covers(b, a) => 4 * b >= 4 * q + r
  BY <1>1 DEF Covers
<1> QED
  BY <1>3, <1>4, <1>5, <1>6, <1>7

\* A payee that has a row is outside or another merchant.
AcceptableRows == \A b \in Beneficiaries : benStatus[b] # "none" => Acceptable(b)

LEMMA AcceptableNext ==
  ASSUME TypeOK, ReviewsOfRows, AcceptableRows, [Next]_vars
  PROVE  AcceptableRows'
<1>0. benStatus \in [Beneficiaries -> Existing \union {"none"}]
  BY DEF TypeOK, BeneficiariesOK
<1>1. CASE benStatus' = benStatus
  BY <1>1 DEF AcceptableRows
<1>2. ASSUME NEW b \in Beneficiaries, AddBeneficiary(b) PROVE AcceptableRows'
  <2>1. Acceptable(b) /\ benStatus' = [benStatus EXCEPT ![b] = "PENDING"]
    BY <1>2 DEF AddBeneficiary
  <2> QED
    BY <1>0, <2>1 DEF AcceptableRows
<1>3. ASSUME NEW v \in Reviews, ReviewStep(v) PROVE AcceptableRows'
  <2>1. PICK s \in Reviewed :
          /\ benStatus' = [benStatus EXCEPT ![review[v].beneficiary] = s]
          /\ benStatus[review[v].beneficiary] # "none"
    BY <1>3, ReviewWrites
  <2>2. \A b \in Beneficiaries : benStatus'[b] # "none" => benStatus[b] # "none"
    BY <1>0, <2>1
  <2> QED
    BY <2>2 DEF AcceptableRows
<1>4. CASE BeneficiaryService
  <2>1. ASSUME NEW v \in Reviews, NEW b \in Beneficiaries,
               ReadToVerify(v, b) \/ ReadToBlock(v, b) \/ RefuseReview(v, b)
        PROVE  AcceptableRows'
    BY <1>1, <2>1 DEF ReadToVerify, ReadToBlock, RefuseReview, StartReview
  <2> QED
    BY <1>2, <1>3, <1>4, <2>1 DEF BeneficiaryService, BeneficiariesNext
<1>5. CASE Crash \/ UNCHANGED beneficiaryVars
  BY <1>1, <1>5 DEF Crash, beneficiaryVars
<1> QED
  BY <1>4, <1>5, OwnService

LEMMA AcceptableAlways == Spec => []AcceptableRows
<1>1. Init => AcceptableRows
  BY BeneficiariesAssumption DEF Init, BeneficiariesInit, AcceptableRows
<1>2. TypeOK /\ ReviewsOfRows /\ AcceptableRows /\ [Next]_vars => AcceptableRows'
  BY AcceptableNext
<1> QED
  BY TypeCorrect, PayeesAlways, <1>1, <1>2, PTL DEF Spec

LEMMA CommitPays ==
  ASSUME TypeOK, AcceptableRows, PaidInv, PaidForInv, CreditsInv, Solvent, KeysFresh,
         NEW p \in PayoutIds, Commit(p)
  PROVE  Promise!Next
<1> DEFINE m == Sender(p)
           n == Recipient(p)
           b == payout[p].call.beneficiary
           a == payout[p].call.amount
           k == payout[p].call.key
<1>1. payout[p].pc = "commit" /\ payout[p].call \in Calls
  BY DEF Commit, GoTo, TypeOK, PayoutsOK
<1>2. /\ m \in Merchants /\ b \in Beneficiaries /\ k \in Keys \union {NoKey}
      /\ a \in Nat
  BY <1>1, CallFields DEF Sender
<1>3. n \in Merchants \union {Bank} /\ m # n
  <2>1. Owner[b] = m /\ benStatus[b] # "none"
    BY <1>1 DEF PaidInv, PastCheck, PaysOwnPayee, Reviewed
  <2>2. Peer[b] = Bank \/ Peer[b] \in Merchants \ {Owner[b]}
    BY <1>2, <2>1 DEF AcceptableRows, Acceptable
  <2> QED
    BY <1>2, <2>1, <2>2, BeneficiariesAssumption DEF Recipient
<1>4. Stored(a) \in Nat /\ Charged(a) \in Int
  BY <1>2, MoneyTypes
<1>5. \A w \in Merchants : balance[w] \in Int
  BY DEF TypeOK, WalletsOK
<1>6. Charged(a) <= balance[m]
  <2>1. Covers(balance[m], a)
    BY <1>1 DEF Solvent, OptimisticLock, InTransaction
  <2> QED
    BY <1>2, <1>5, <2>1, RoundedMoves
<1>7. balance' = [w \in Merchants |-> IF w = m THEN balance[w] - Charged(a)
                                     ELSE IF w = n THEN balance[w] + Stored(a)
                                     ELSE balance[w]]
  BY <1>2, <1>5, RoundedMoves DEF Commit, Moved
<1>8. PayoutRow(p) = [id |-> p, type |-> "PAYOUT", user |-> m, amount |-> Stored(a), key |-> k]
  BY DEF PayoutRow
<1>9. \A r \in ledger : r.id # p
  <2>1. ~ Paid(p)
    BY <1>1 DEF PaidForInv, RowsAsCommitted, Unpaid
  <2>2. \A r \in FundingRows : r.id # p
    BY BackendAssumption DEF CreditsInv, CreditOf
  <2>3. ledger = PayoutRows \union FundingRows
    BY DEF TypeOK, WalletsOK, Rows, PayoutRows, FundingRows
  <2> QED
    BY <2>1, <2>2, <2>3 DEF Paid
<1>10. k = NoKey \/ \A r \in ledger : r.key # k
  BY <1>1 DEF KeysFresh
<1>11. ledger' = ledger \union {PayoutRow(p)}
  BY DEF Commit
<1>12. p \in Sessions
  BY DEF Sessions
<1>13. <<Charged(a), Stored(a)>> \in {<<Charged(c.amount), Stored(c.amount)>> : c \in Calls}
  BY <1>1
<1> HIDE DEF m, n, b, a, k
<1>14. Promise!Pay(p, m, n, Charged(a), Stored(a), k)
  BY <1>3, <1>6, <1>7, <1>8, <1>9, <1>10, <1>11 DEF Promise!Pay, Promise!Fresh
<1> QED
  BY <1>2, <1>3, <1>13, <1>12, <1>14 DEF Promise!Next

LEMMA CommitFunds ==
  ASSUME TypeOK, PaidForInv, CreditsInv, NEW a \in Approvals, CommitApproval(a)
  PROVE  Promise!Next
<1> DEFINE t == approval[a].topUp
           m == Beneficial(a)
<1>1. approval[a].pc = "commit"
  BY DEF CommitApproval, ApprovalGoes
<1>2. t \in TopUpIds /\ m \in Merchants
  BY <1>1, ApprovalFields DEF TypeOK
<1>3. Worth(t) \in {Worth(u) : u \in TopUpIds}
  BY <1>2
<1>4. /\ balance' = [balance EXCEPT ![m] = @ + Worth(t)]
      /\ ledger' = ledger \union {TopUpRow(a)}
  BY DEF CommitApproval
<1>5. TopUpRow(a) = [id |-> a, type |-> "WALLET_TOPUP", user |-> m, amount |-> Worth(t), key |-> NoKey]
  BY DEF TopUpRow
<1>6. \A r \in ledger : r.id # a
  <2>1. \A r \in PayoutRows : r.id # a
    BY RowIds, BackendAssumption
  <2>2. \A r \in FundingRows : r.id # a
    BY <1>1 DEF CreditsInv, CreditOf, PastCommit
  <2>3. ledger = PayoutRows \union FundingRows
    BY DEF TypeOK, WalletsOK, Rows, PayoutRows, FundingRows
  <2> QED
    BY <2>1, <2>2, <2>3
<1>7. a \in Sessions
  BY DEF Sessions
<1> HIDE DEF t, m
<1>8. Promise!Fund(a, m, Worth(t))
  BY <1>4, <1>5, <1>6 DEF Promise!Fund, Promise!Fresh
<1> QED
  BY <1>2, <1>3, <1>7, <1>8 DEF Promise!Next

LEMMA KeysAlways == Spec => []KeysFresh
<1>1. Init => KeysFresh /\ KeyPaidOnce
  BY DEF Init, PayoutsInit, WalletDbInit, KeysFresh, KeyPaidOnce
<1>2. TypeOK /\ TypeOK' /\ KeysFresh /\ KeyPaidOnce /\ [Next]_vars => KeysFresh' /\ KeyPaidOnce'
  BY KeysNext
<1> QED
  BY TypeCorrect, <1>1, <1>2, PTL DEF Spec

(* All the steps of all calls, with every failure, crash and deadlock      *)
(* among them, come down to indivisible payments and credits: the backend  *)
(* implements Ledger.                                                      *)
THEOREM LedgerImplemented == Spec => ImplementsLedger
<1>1. Init => Promise!Init
  BY DEF Init, WalletDbInit, Promise!Init
<1>2. /\ TypeOK /\ AcceptableRows /\ PaidInv /\ PaidForInv /\ CreditsInv /\ Solvent /\ KeysFresh
      /\ [Next]_vars
      => [Promise!Next]_Promise!ledgerVars
  <2> SUFFICES ASSUME TypeOK, AcceptableRows, PaidInv, PaidForInv, CreditsInv, Solvent, KeysFresh,
                      [Next]_vars
               PROVE  Promise!Next \/ UNCHANGED <<balance, ledger>>
    BY DEF Promise!ledgerVars
  <2> QED
    BY CommitPays, CommitFunds, BooksKept
<1> QED
  BY TypeCorrect, AcceptableAlways, PaidAlways, PaidForAlways, CreditsAlways, SolventAlways, KeysAlways,
     <1>1, <1>2, PTL DEF Spec, ImplementsLedger, Promise!Spec
-----------------------------------------------------------------------------
(* The books.  Balance and rows change in the same two steps, and a row    *)
(* that is added adds its amount to one sum of each wallet it touches.     *)

\* One row more in a set of rows.
LEMMA RowAdded ==
  ASSUME TypeOK, VersionsInv, NEW S \in SUBSET ledger, NEW x, x \notin ledger, x.amount \in Nat
  PROVE  /\ Total(S) \in Nat /\ Total(S \union {x}) = Total(S) + x.amount
         /\ Cardinality(S) \in Nat /\ Cardinality(S \union {x}) = Cardinality(S) + 1
<1>1. IsFiniteSet(S)
  BY FS_Subset DEF VersionsInv
<1>2. \A r \in S : r.amount \in Nat
  BY DEF TypeOK, WalletsOK, Rows
<1> QED
  BY <1>1, <1>2, TotalAdd, TotalNat, FS_AddElement, FS_CardinalityType

\* The rows of a wallet as a step leaves them.
LEMMA AccountsKept ==
  ASSUME TypeOK, PaidInv, [Next]_vars, NEW m
  PROVE  /\ SentBy(m)' = {r \in PayoutRows' : r.user = m}
         /\ PaidTo(m)' = {r \in PayoutRows' : Recipient(r.id)' = m}
         /\ \A r \in PayoutRows : /\ Recipient(r.id)' = Recipient(r.id)
                                  /\ payout'[r.id].call = payout[r.id].call
<1>1. \A r \in PayoutRows : payout'[r.id].call = payout[r.id].call
  BY CallsStay, RowIds DEF PaidInv
<1> QED
  BY <1>1 DEF SentBy, PaidTo, Recipient

\* Only the rows of m count for it.
LEMMA AccountsSame ==
  ASSUME TypeOK, PaidInv, [Next]_vars, PayoutRows' = PayoutRows, NEW m
  PROVE  SentBy(m)' = SentBy(m) /\ PaidTo(m)' = PaidTo(m) /\ HalfCents(m)' = HalfCents(m)
<1>1. SentBy(m)' = SentBy(m)
  BY AccountsKept DEF SentBy
<1>2. PaidTo(m)' = PaidTo(m)
  BY AccountsKept DEF PaidTo
<1>3. HalfCents(m)' = {r \in SentBy(m)' : payout'[r.id].call.amount % 4 = 2}
  BY DEF HalfCents
<1>4. SentBy(m) \subseteq PayoutRows
  BY DEF SentBy
<1> QED
  BY <1>1, <1>2, <1>3, <1>4, AccountsKept DEF HalfCents

LEMMA BooksAtCommit ==
  ASSUME TypeOK, PaidInv, PaidForInv, CreditsInv, AcceptableRows, VersionsInv, BooksBalance,
         [Next]_vars, NEW p \in PayoutIds, Commit(p), NEW m \in Merchants
  PROVE  balance'[m] = BookBalance(m)' + Cardinality(HalfCents(m)')
<1> DEFINE row == PayoutRow(p)
           a == payout[p].call.amount
           cent == IF a % 4 = 2 THEN 1 ELSE 0
<1>1. /\ payout[p].pc = "commit" /\ payout[p].call \in Calls
      /\ payout'[p].call = payout[p].call
  BY GoToFrame DEF Commit, GoTo, TypeOK, PayoutsOK
<1>2. a \in Nat /\ Sender(p) \in Merchants
  BY <1>1, CallFields DEF Sender
<1>3. /\ row.id = p /\ row.user = Sender(p) /\ row.amount = Stored(a)
      /\ Recipient(p)' = Recipient(p) /\ Stored(a) \in Nat
  BY <1>1, <1>2, MoneyTypes DEF PayoutRow, Recipient
<1>4. PayoutRows' = PayoutRows \union {row}
  BY DEF Commit, PayoutRows, PayoutRow
<1>5. row \notin ledger
  <2>1. row \notin PayoutRows
    BY <1>1, <1>3 DEF PaidForInv, RowsAsCommitted, Unpaid, Paid
  <2> QED
    BY <2>1 DEF PayoutRows, PayoutRow
<1>6. /\ SentBy(m)' = IF m = Sender(p) THEN SentBy(m) \union {row} ELSE SentBy(m)
      /\ PaidTo(m)' = IF m = Recipient(p) THEN PaidTo(m) \union {row} ELSE PaidTo(m)
  BY <1>3, <1>4, AccountsKept DEF SentBy, PaidTo
<1>7. HalfCents(m)' = IF m = Sender(p) /\ a % 4 = 2 THEN HalfCents(m) \union {row} ELSE HalfCents(m)
  <2>1. HalfCents(m)' = {r \in SentBy(m)' : payout'[r.id].call.amount % 4 = 2}
    BY DEF HalfCents
  <2>2. SentBy(m) \subseteq PayoutRows
    BY DEF SentBy
  <2> QED
    BY <1>1, <1>3, <1>6, <2>1, <2>2, AccountsKept DEF HalfCents
<1>8. FundedTo(m)' = FundedTo(m)
  BY DEF Commit, PayoutRow, FundedTo, FundingRows
<1>9. /\ SentBy(m) \subseteq ledger /\ PaidTo(m) \subseteq ledger /\ HalfCents(m) \subseteq ledger
      /\ FundedTo(m) \subseteq ledger
  BY DEF SentBy, PaidTo, HalfCents, FundedTo, PayoutRows, FundingRows
<1>10. Sender(p) # Recipient(p)
  <2>1. Owner[payout[p].call.beneficiary] = Sender(p) /\ benStatus[payout[p].call.beneficiary] # "none"
    BY <1>1 DEF PaidInv, PastCheck, PaysOwnPayee, Reviewed
  <2>2. payout[p].call.beneficiary \in Beneficiaries
    BY <1>1, CallFields
  <2> QED
    BY <1>2, <2>1, <2>2, BeneficiariesAssumption DEF AcceptableRows, Acceptable, Recipient
<1>11. balance[m] \in Int /\ OpeningBalance[m] \in Nat
  BY WalletDbAssumption DEF TypeOK, WalletsOK
<1>12. balance'[m] = IF m = Sender(p) THEN balance[m] - Stored(a) + cent
                     ELSE IF m = Recipient(p) THEN balance[m] + Stored(a)
                     ELSE balance[m]
  <2>1. balance[m] - Charged(a) = balance[m] - Stored(a) + cent
    BY <1>3, <1>11 DEF Charged
  <2> QED
    BY <1>2, <1>11, <2>1, RoundedMoves DEF Commit, Moved
<1>13. balance[m] = OpeningBalance[m] + Total(FundedTo(m)) + Total(PaidTo(m)) - Total(SentBy(m))
                    + Cardinality(HalfCents(m))
  BY DEF BooksBalance, BookBalance
<1>14. BookBalance(m)' = OpeningBalance[m] + Total(FundedTo(m)') + Total(PaidTo(m)') - Total(SentBy(m)')
  BY DEF BookBalance
<1> HIDE DEF row, a
<1>15. Total(FundedTo(m)') = Total(FundedTo(m)) /\ Total(FundedTo(m)) \in Nat
  BY <1>3, <1>5, <1>8, <1>9, RowAdded
<1>16. /\ Total(SentBy(m)') = IF m = Sender(p) THEN Total(SentBy(m)) + Stored(a) ELSE Total(SentBy(m))
       /\ Total(SentBy(m)) \in Nat
  BY <1>3, <1>5, <1>6, <1>9, RowAdded
<1>17. /\ Total(PaidTo(m)') = IF m = Recipient(p) THEN Total(PaidTo(m)) + Stored(a) ELSE Total(PaidTo(m))
       /\ Total(PaidTo(m)) \in Nat
  BY <1>3, <1>5, <1>6, <1>9, RowAdded
<1>18. /\ Cardinality(HalfCents(m)') = IF m = Sender(p) THEN Cardinality(HalfCents(m)) + cent
                                       ELSE Cardinality(HalfCents(m))
       /\ Cardinality(HalfCents(m)) \in Nat
  <2>1. /\ Cardinality(HalfCents(m)) \in Nat
        /\ Cardinality(HalfCents(m) \union {row}) = Cardinality(HalfCents(m)) + 1
    BY <1>3, <1>5, <1>9, RowAdded
  <2>2. CASE m = Sender(p) /\ a % 4 = 2
    BY <1>7, <2>1, <2>2
  <2>3. CASE ~ (m = Sender(p) /\ a % 4 = 2)
    BY <1>7, <2>1, <2>3
  <2> QED
    BY <2>2, <2>3
<1>19. cent \in {0, 1}
  OBVIOUS
<1> HIDE DEF cent
<1>20. CASE m = Sender(p)
  BY <1>3, <1>10, <1>11, <1>12, <1>13, <1>14, <1>15, <1>16, <1>17, <1>18, <1>19, <1>20
<1>21. CASE m # Sender(p)
  BY <1>3, <1>11, <1>12, <1>13, <1>14, <1>15, <1>16, <1>17, <1>18, <1>21
<1> QED
  BY <1>20, <1>21

LEMMA BooksAtApproval ==
  ASSUME TypeOK, PaidInv, CreditsInv, VersionsInv, BooksBalance, [Next]_vars,
         NEW d \in Approvals, CommitApproval(d), NEW m \in Merchants
  PROVE  balance'[m] = BookBalance(m)' + Cardinality(HalfCents(m)')
<1> DEFINE row == TopUpRow(d)
           worth == Worth(approval[d].topUp)
<1>1. approval[d].pc = "commit"
  BY DEF CommitApproval, ApprovalGoes
<1>2. Beneficial(d) \in Merchants /\ worth \in Nat
  BY <1>1, ApprovalFields DEF TypeOK
<1>3. row.id = d /\ row.user = Beneficial(d) /\ row.amount = worth
  BY DEF TopUpRow
<1>4. PayoutRows' = PayoutRows /\ FundingRows' = FundingRows \union {row}
  BY DEF CommitApproval, TopUpRow, PayoutRows, FundingRows
<1>5. row \notin ledger
  <2>1. row \notin FundingRows
    BY <1>1, <1>3 DEF CreditsInv, CreditOf, PastCommit
  <2> QED
    BY <2>1 DEF FundingRows, TopUpRow
<1>6. SentBy(m)' = SentBy(m) /\ PaidTo(m)' = PaidTo(m) /\ HalfCents(m)' = HalfCents(m)
  BY <1>4, AccountsSame
<1>7. FundedTo(m)' = IF m = Beneficial(d) THEN FundedTo(m) \union {row} ELSE FundedTo(m)
  BY <1>3, <1>4 DEF FundedTo
<1>8. /\ SentBy(m) \subseteq ledger /\ PaidTo(m) \subseteq ledger /\ HalfCents(m) \subseteq ledger
      /\ FundedTo(m) \subseteq ledger
  BY DEF SentBy, PaidTo, HalfCents, FundedTo, PayoutRows, FundingRows
<1>9. balance[m] \in Int /\ OpeningBalance[m] \in Nat
  BY WalletDbAssumption DEF TypeOK, WalletsOK
<1>10. balance'[m] = IF m = Beneficial(d) THEN balance[m] + worth ELSE balance[m]
  BY <1>2 DEF CommitApproval, TypeOK, WalletsOK
<1>11. balance[m] = OpeningBalance[m] + Total(FundedTo(m)) + Total(PaidTo(m)) - Total(SentBy(m))
                    + Cardinality(HalfCents(m))
  BY DEF BooksBalance, BookBalance
<1>12. BookBalance(m)' = OpeningBalance[m] + Total(FundedTo(m)') + Total(PaidTo(m)') - Total(SentBy(m)')
  BY DEF BookBalance
<1> HIDE DEF row, worth
<1>13. /\ Total(FundedTo(m)') = IF m = Beneficial(d) THEN Total(FundedTo(m)) + worth ELSE Total(FundedTo(m))
       /\ Total(SentBy(m)) \in Nat /\ Total(PaidTo(m)) \in Nat /\ Total(FundedTo(m)) \in Nat
       /\ Cardinality(HalfCents(m)) \in Nat
  BY <1>2, <1>3, <1>5, <1>7, <1>8, RowAdded
<1> QED
  BY <1>2, <1>6, <1>9, <1>10, <1>11, <1>12, <1>13

LEMMA BooksNext ==
  ASSUME TypeOK, Solvent, PaidInv, PaidForInv, CreditsInv, AcceptableRows, VersionsInv, BooksBalance,
         [Next]_vars
  PROVE  BooksBalance'
<1>1. CASE \E p \in PayoutIds : Commit(p)
  BY <1>1, BooksAtCommit DEF BooksBalance
<1>2. CASE \E d \in Approvals : CommitApproval(d)
  BY <1>2, BooksAtApproval DEF BooksBalance
<1>3. CASE ~ (\E p \in PayoutIds : Commit(p)) /\ ~ (\E d \in Approvals : CommitApproval(d))
  <2>1. UNCHANGED <<balance, ledger>>
    BY <1>3, BooksKept
  <2>2. PayoutRows' = PayoutRows /\ \A m : FundedTo(m)' = FundedTo(m)
    BY <2>1 DEF PayoutRows, FundingRows, FundedTo
  <2>3. \A m : SentBy(m)' = SentBy(m) /\ PaidTo(m)' = PaidTo(m) /\ HalfCents(m)' = HalfCents(m)
    BY <2>2, AccountsSame
  <2> QED
    BY <2>1, <2>2, <2>3 DEF BooksBalance, BookBalance
<1> QED
  BY <1>1, <1>2, <1>3

(* A balance is the sum of the wallet's rows, but for a cent for each half *)
(* cent sent, for every interleaving of payouts and approvals and whatever *)
(* fails in between.                                                       *)
THEOREM BooksCorrect == Spec => []BooksBalance
<1>1. Init => BooksBalance
  <2> SUFFICES ASSUME Init PROVE BooksBalance
    OBVIOUS
  <2>1. ledger = {} /\ balance = OpeningBalance
    BY DEF Init, WalletDbInit
  <2>2. ASSUME NEW m \in Merchants
        PROVE  balance[m] = BookBalance(m) + Cardinality(HalfCents(m))
    <3>1. SentBy(m) = {} /\ PaidTo(m) = {} /\ FundedTo(m) = {} /\ HalfCents(m) = {}
      BY <2>1 DEF SentBy, PaidTo, FundedTo, HalfCents, PayoutRows, FundingRows
    <3>2. OpeningBalance[m] \in Nat
      BY WalletDbAssumption
    <3>3. /\ Total(SentBy(m)) = 0 /\ Total(PaidTo(m)) = 0 /\ Total(FundedTo(m)) = 0
          /\ Cardinality(HalfCents(m)) = 0
      BY <3>1, TotalOfNone, FS_EmptySet
    <3>4. BookBalance(m) = OpeningBalance[m]
      BY <3>2, <3>3 DEF BookBalance
    <3> QED
      BY <2>1, <3>2, <3>3, <3>4
  <2> QED
    BY <2>2 DEF BooksBalance, BookBalance, HalfCents
<1>2. /\ TypeOK /\ Solvent /\ PaidInv /\ PaidForInv /\ CreditsInv /\ AcceptableRows /\ VersionsInv
      /\ BooksBalance /\ [Next]_vars
      => BooksBalance'
  BY BooksNext
<1> QED
  BY TypeCorrect, SolventAlways, PaidAlways, PaidForAlways, CreditsAlways, AcceptableAlways,
     VersionsAlways, <1>1, <1>2, PTL DEF Spec
=============================================================================
