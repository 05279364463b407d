---------------------------- MODULE EffectProofs ----------------------------
(***************************************************************************)
(* Proofs about what becomes visible of money: answers, jobs, log entries, *)
(* pushes and the status of top-ups follow the commit, and what is said of *)
(* it is true, for every choice of the constants of Backend.               *)
(***************************************************************************)
EXTENDS PayeeProofs, FiniteSetTheorems

(* A payout has its row exactly from its commit on.  Only of a call that   *)
(* has failed or died the table must be asked.                             *)

Paid(p)  == \E r \in PayoutRows : r.id = p

Unpaid ==
  {"idle", "beneficiary", "wallet", "debit", "credit", "insert", "commit",
   "replayed", "rejected", "conflict", "clash"}

PaidFor == {"evict", "evictPeer", "enqueue", "audit", "notify", "created"}

\* A call that has added its job.
Queued == {"audit", "notify", "created"}

RowsAsCommitted ==
  \A p \in PayoutIds :
    /\ payout[p].pc \in Unpaid => ~ Paid(p)
    /\ payout[p].pc \in PaidFor => Paid(p)
    /\ payout[p].pc \in Queued => p \in jobs

JobsOfPaid == \A p \in jobs : Paid(p)

PaidForInv == RowsAsCommitted /\ JobsOfPaid

\* The moves of a call that neither commits nor adds its job.
Quiet(from, to) ==
  /\ to \in Unpaid => from \in Unpaid
  /\ to \in PaidFor => from \in PaidFor
  /\ to \in Queued => from \in Queued

LEMMA QuietSteps ==
  ASSUME TypeOK, NEW p \in PayoutIds, Arrival(p) \/ PayoutStep(p) \/ Fails(p),
         ~ Commit(p), ~ Enqueue(p)
  PROVE  /\ Quiet(payout[p].pc, payout'[p].pc)
         /\ UNCHANGED <<ledger, jobs>>
<1>0. PayoutsOK
  BY DEF TypeOK
<1> USE DEF Quiet, Unpaid, PaidFor, Queued, walletVars
<1>1. CASE Arrival(p)
  <2>1. PICK c \in Calls, l \in {"replayed", "conflict", "beneficiary"} : Arrive(p, c, l)
    BY <1>1 DEF Arrival, ReplayExisting, KeyTakenByOther, Admit
  <2> QED
    BY <1>0, <2>1 DEF Arrive, PayoutsOK
<1>2. CASE ReadWallet(p)
  BY <1>0, <1>2 DEF ReadWallet, PayoutsOK
<1>3. CASE InsertRow(p)
  <2>1. payout[p].pc = "insert" /\ payout'[p].pc = "commit"
    BY <1>0, <1>3, InsertFrame
  <2> QED
    BY <1>3, <2>1 DEF InsertRow
<1>4. ASSUME NEW from, NEW to, GoTo(p, from, to), Quiet(from, to)
      PROVE  Quiet(payout[p].pc, payout'[p].pc)
  <2>1. payout[p].pc = from /\ payout'[p].pc = to
    BY <1>0, <1>4, GoToFrame
  <2> QED
    BY <1>4, <2>1
<1>5. CASE Debit(p)
  <2>1. GoTo(p, "debit", "credit") \/ GoTo(p, "debit", "insert")
    BY <1>5 DEF Debit
  <2> QED
    BY <1>4, <1>5, <2>1 DEF Debit
<1>6. CASE Evict(p)
  <2>1. GoTo(p, "evict", "evictPeer") \/ GoTo(p, "evict", "enqueue")
    BY <1>6 DEF Evict
  <2> QED
    BY <1>4, <1>6, <2>1 DEF Evict
<1>7. CASE CheckBeneficiary(p) \/ RefuseBeneficiary(p) \/ RefuseWallet(p) \/ Credit(p)
  BY <1>4, <1>7 DEF CheckBeneficiary, RefuseBeneficiary, RefuseWallet, Credit
<1>8. CASE EvictPeer(p) \/ LogPayout(p) \/ Finish(p)
  BY <1>4, <1>8 DEF EvictPeer, LogPayout, Finish
<1>9. CASE LoseRace(p) \/ DuplicateKey(p) \/ DeadlockVictim(p) \/ Fails(p)
  <2>1. \/ \E from \in {"debit", "insert"} :
              GoTo(p, from, "conflict") /\ UNCHANGED <<ledger, jobs>>
        \/ \E l : GoTo(p, l, "failed") /\ UNCHANGED <<ledger, jobs>>
    BY <1>9 DEF LoseRace, DuplicateKey, DeadlockVictim, Fails, Rollback
  <2>2. CASE \E l : GoTo(p, l, "failed") /\ UNCHANGED <<ledger, jobs>>
    BY <1>4, <2>2
  <2> QED
    BY <1>4, <2>1, <2>2
<1>10. CASE DuplicateReference(p)
  BY <1>0, <1>10, ClashFrame
<1> QED
  BY <1>1, <1>2, <1>3, <1>5, <1>6, <1>7, <1>8, <1>9, <1>10 DEF PayoutStep

LEMMA PaidForStep ==
  ASSUME TypeOK, PaidForInv, NEW p \in PayoutIds, Arrival(p) \/ PayoutStep(p) \/ Fails(p)
  PROVE  PaidForInv'
<1>0. /\ PayoutsOK
      /\ \A q \in PayoutIds \ {p} : payout'[q] = payout[q]
  BY PayoutsFrame DEF TypeOK
<1>1. CASE Commit(p)
  <2>1. /\ payout[p].pc = "commit" /\ payout'[p].pc = "evict"
        /\ ledger' = ledger \union {PayoutRow(p)} /\ jobs' = jobs
    BY <1>0, <1>1, GoToFrame DEF Commit
  <2>2. PayoutRows' = PayoutRows \union {PayoutRow(p)} /\ PayoutRow(p).id = p
    BY <2>1 DEF PayoutRows, PayoutRow
  <2>3. \A q : q # p => (Paid(q)' <=> Paid(q))
    BY <2>2 DEF Paid
  <2>4. Paid(p)'
    BY <2>2 DEF Paid
  <2> QED
    BY <1>0, <2>1, <2>3, <2>4 DEF PaidForInv, RowsAsCommitted, JobsOfPaid, Unpaid, PaidFor, Queued
<1>2. CASE Enqueue(p)
  <2>1. /\ payout[p].pc = "enqueue" /\ payout'[p].pc = "audit"
        /\ ledger' = ledger /\ jobs' = jobs \union {p}
    BY <1>0, <1>2, GoToFrame DEF Enqueue, walletVars
  <2>2. \A q : Paid(q)' <=> Paid(q)
    BY <2>1 DEF Paid, PayoutRows
  <2>3. Paid(p)
    BY <2>1 DEF PaidForInv, RowsAsCommitted, PaidFor
  <2> QED
    BY <1>0, <2>1, <2>2, <2>3 DEF PaidForInv, RowsAsCommitted, JobsOfPaid, Unpaid, PaidFor, Queued
<1>3. CASE ~ Commit(p) /\ ~ Enqueue(p)
  <2>1. Quiet(payout[p].pc, payout'[p].pc) /\ UNCHANGED <<ledger, jobs>>
    BY <1>3, QuietSteps
  <2>2. \A q : Paid(q)' <=> Paid(q)
    BY <2>1 DEF Paid, PayoutRows
  <2> QED
    BY <1>0, <2>1, <2>2 DEF PaidForInv, RowsAsCommitted, JobsOfPaid, Quiet
<1> QED
  BY <1>1, <1>2, <1>3

LEMMA PaidForNext ==
  ASSUME TypeOK, PaidForInv, [Next]_vars
  PROVE  PaidForInv'
<1>1. ASSUME UNCHANGED payoutVars, PayoutRows' = PayoutRows
      PROVE  PaidForInv'
  BY <1>1 DEF payoutVars, PaidForInv, RowsAsCommitted, JobsOfPaid, Paid
<1>2. CASE \/ Log \/ (\E m \in Merchants : Lapse(m)) \/ OtherService \/ Idle \/ UNCHANGED vars
  BY <1>1, <1>2, OtherSteps DEF walletVars, PayoutRows
<1>3. CASE PayoutService
  BY <1>3, PaidForStep, PayoutsAssumption DEF PayoutService, PayoutsNext
<1>4. CASE TopUpService
  BY <1>1, <1>4, TopUpsWriteNoPayout DEF TopUpService, NotTopUps
<1>5. CASE Crash
  <2>1. UNCHANGED <<ledger, jobs>>
    BY <1>5 DEF Crash
  <2>2. \A p \in PayoutIds : payout'[p].pc \in {payout[p].pc, "lost"}
    BY <1>5 DEF Crash, PayoutsLost, TypeOK, PayoutsOK
  <2>3. \A p : Paid(p)' <=> Paid(p)
    BY <2>1 DEF Paid, PayoutRows
  <2> QED
    BY <2>1, <2>2, <2>3 DEF PaidForInv, RowsAsCommitted, JobsOfPaid, Unpaid, PaidFor, Queued
<1> QED
  BY <1>2, <1>3, <1>4, <1>5 DEF Next, OtherService

LEMMA PaidForAlways == Spec => []PaidForInv
<1>1. Init => PaidForInv
  <2> SUFFICES ASSUME Init PROVE PaidForInv
    OBVIOUS
  <2>1. ledger = {} /\ jobs = {} /\ \A p \in PayoutIds : payout[p].pc = "idle"
    BY DEF Init, PayoutsInit, WalletDbInit
  <2> QED
    BY <2>1 DEF PaidForInv, RowsAsCommitted, JobsOfPaid, Paid, PayoutRows, PaidFor, Unpaid, Queued
<1>2. TypeOK /\ PaidForInv /\ [Next]_vars => PaidForInv'
  BY PaidForNext
<1> QED
  BY TypeCorrect, <1>1, <1>2, PTL DEF Spec
-----------------------------------------------------------------------------
(* Top-ups.  A commit writes the balance, the status and the row in one    *)
(* step, so an approval past it has its row, and one that has a row is     *)
(* past it.                                                                *)

Funded(a) == \E r \in FundingRows : r.id = a

PastCommit == {"evict", "audit", "notify", "approved"}

CreditOf(r) ==
  LET t == approval[r.id].topUp IN
    /\ r.id \in Approvals
    /\ approval[r.id].pc \in PastCommit \union {"failed", "lost"}
    /\ t \in TopUpIds
    /\ topUpStatus[t] = "APPROVED"
    /\ r.user = Requester[t]
    /\ r.amount = Worth(t)

CreditsInv ==
  /\ \A r \in FundingRows : CreditOf(r)
  /\ \A a \in Approvals : approval[a].pc \in PastCommit => Funded(a)
  /\ \A t \in TopUpIds :
       topUpStatus[t] = "APPROVED" => \E r \in FundingRows : approval[r.id].topUp = t

\* What the webhook has found for the transfer that it was told of.
MatchedAccount(a) ==
  LET c == approval[a].channel IN
    c \in Channels /\ chStatus[c] = "VERIFIED" /\ AccountNumber[c] = approval[a].transfer.account

MatchedTopUp(a) ==
  LET t == approval[a].topUp IN
    Requester[t] = Holder[approval[a].channel] /\ 4 * Worth(t) = approval[a].transfer.amount

TransfersInv ==
  \A a \in Approvals : approval[a].transfer # NoTransfer =>
    /\ approval[a].pc = "match" => MatchedAccount(a)
    /\ approval[a].topUp # NoTopUp => MatchedAccount(a) /\ MatchedTopUp(a)

\* The moves of an approval that neither match nor commit.
Moves(a) ==
  /\ approval[a].pc # "idle"
  /\ approval'[a].topUp = approval[a].topUp
  /\ approval'[a].transfer = approval[a].transfer
  /\ approval'[a].channel = approval[a].channel
  /\ approval'[a].pc # "match"
  /\ approval'[a].pc \in PastCommit => approval[a].pc \in PastCommit
  /\ approval[a].pc \in PastCommit \union {"failed", "lost"} =>
       approval'[a].pc \in PastCommit \union {"failed", "lost"}

LEMMA ApprovalMoves ==
  ASSUME TopUpsOK, NEW a \in Approvals, NEW from, NEW to, ApprovalGoes(a, from, to),
         from # "idle", to # "match",
         to \in PastCommit => from \in PastCommit,
         from \in PastCommit \union {"failed", "lost"} =>
           to \in PastCommit \union {"failed", "lost"}
  PROVE  Moves(a) /\ \A d \in Approvals \ {a} : approval'[d] = approval[d]
  BY DEF TopUpsOK, ApprovalGoes, Moves

LEMMA ApprovalSteps ==
  ASSUME TypeOK, NEW a \in Approvals, ApprovalStep(a) \/ ApprovalFails(a),
         ~ MatchOldest(a), ~ CommitApproval(a)
  PROVE  /\ Moves(a)
         /\ \A d \in Approvals \ {a} : approval'[d] = approval[d]
         /\ UNCHANGED <<ledger, topUpStatus>>
<1>0. TopUpsOK
  BY DEF TypeOK
<1>1. UNCHANGED <<ledger, topUpStatus>>
  BY DEF ApprovalStep, ApprovalFails, MatchNone, ReadTopUp, RefuseTopUp, CreditWallet,
     EvictApproved, LogApproval, FinishApproval, walletVars
<1>2. ASSUME NEW from, NEW to, ApprovalGoes(a, from, to), from # "idle", to # "match",
             to \in PastCommit => from \in PastCommit,
             from \in PastCommit \union {"failed", "lost"} =>
               to \in PastCommit \union {"failed", "lost"}
      PROVE  Moves(a) /\ \A d \in Approvals \ {a} : approval'[d] = approval[d]
  BY <1>0, <1>2, ApprovalMoves
<1>3. CASE MatchNone(a) \/ ReadTopUp(a) \/ RefuseTopUp(a) \/ CreditWallet(a)
  BY <1>1, <1>2, <1>3 DEF MatchNone, ReadTopUp, RefuseTopUp, CreditWallet, PastCommit
<1>4. CASE EvictApproved(a) \/ LogApproval(a) \/ FinishApproval(a)
  BY <1>1, <1>2, <1>4 DEF EvictApproved, LogApproval, FinishApproval, PastCommit
<1>5. CASE ApprovalFails(a)
  <2>1. PICK l \in {"match", "approve", "credit", "commit", "evict"} : ApprovalGoes(a, l, "failed")
    BY <1>5 DEF ApprovalFails
  <2> QED
    BY <1>1, <1>2, <2>1 DEF PastCommit
<1> QED
  BY <1>3, <1>4, <1>5 DEF ApprovalStep

\* A call that arrives has an administrator's request or the webhook's account.
LEMMA ApprovalComes ==
  ASSUME TypeOK, NEW a \in Approvals, ApprovalArrival(a)
  PROVE  /\ approval[a].pc = "idle"
         /\ approval'[a].pc \in {"approve", "match", "rejected"}
         /\ approval'[a].transfer # NoTransfer =>
              /\ approval'[a].topUp = NoTopUp
              /\ approval'[a].pc = "match" =>
                   /\ approval'[a].channel \in Channels
                   /\ chStatus[approval'[a].channel] = "VERIFIED"
                   /\ AccountNumber[approval'[a].channel] = approval'[a].transfer.account
         /\ \A d \in Approvals \ {a} : approval'[d] = approval[d]
         /\ UNCHANGED <<ledger, topUpStatus>>
<1>1. ASSUME NEW call, ApprovalArrives(a, call)
      PROVE  /\ approval[a].pc = "idle" /\ approval'[a] = call
             /\ \A d \in Approvals \ {a} : approval'[d] = approval[d]
             /\ UNCHANGED <<ledger, topUpStatus>>
  BY <1>1 DEF TypeOK, TopUpsOK, ApprovalArrives, walletVars
<1>2. CASE \E t \in TopUpIds : AdminApproves(a, t)
  BY <1>1, <1>2 DEF AdminApproves
<1>3. CASE \E x \in Transfers : WebhookReceived(a, x)
  BY <1>1, <1>3 DEF WebhookReceived
<1>4. CASE \E x \in Transfers : WebhookUnknown(a, x)
  BY <1>1, <1>4 DEF WebhookUnknown
<1> QED
  BY <1>2, <1>3, <1>4 DEF ApprovalArrival

LEMMA ApprovalMatches ==
  ASSUME TypeOK, NEW a \in Approvals, MatchOldest(a)
  PROVE  /\ approval[a].pc = "match"
         /\ approval'[a].pc = "approve"
         /\ approval'[a].transfer = approval[a].transfer
         /\ approval'[a].channel = approval[a].channel
         /\ approval'[a].topUp \in Matching(a)
         /\ \A d \in Approvals \ {a} : approval'[d] = approval[d]
         /\ UNCHANGED <<ledger, topUpStatus>>
<1>1. PICK t \in Matching(a) :
        /\ approval[a].pc = "match"
        /\ approval' = [approval EXCEPT ![a].pc = "approve", ![a].topUp = t]
        /\ UNCHANGED <<ledger, topUpStatus>>
  BY DEF MatchOldest, walletVars
<1>2. TopUpsOK
  BY DEF TypeOK
<1> QED
  BY <1>1, <1>2 DEF TopUpsOK

-----------------------------------------------------------------------------
\* Rows, statuses and matches are as they were: what a step that does not
\* commit an approval does to the credits.
LEMMA CreditsFrame ==
  ASSUME TypeOK, CreditsInv, FundingRows' = FundingRows,
         \A t \in TopUpIds : topUpStatus'[t] = "APPROVED" <=> topUpStatus[t] = "APPROVED",
         \A a \in Approvals :
           /\ approval'[a].pc \in PastCommit => approval[a].pc \in PastCommit
           /\ approval[a].pc \in PastCommit \union {"failed", "lost"} =>
                /\ approval'[a].topUp = approval[a].topUp
                /\ approval'[a].pc \in PastCommit \union {"failed", "lost"}
  PROVE  CreditsInv'
<1>1. \A r \in FundingRows' : CreditOf(r)'
  BY DEF CreditsInv, CreditOf
<1>2. \A a \in Approvals : Funded(a)' <=> Funded(a)
  BY DEF Funded
<1>3. \A r \in FundingRows : approval'[r.id].topUp = approval[r.id].topUp
  BY DEF CreditsInv, CreditOf
<1> QED
  BY <1>1, <1>2, <1>3 DEF CreditsInv

LEMMA CreditsAtCommit ==
  ASSUME TypeOK, CreditsInv, NEW a \in Approvals, CommitApproval(a)
  PROVE  CreditsInv'
<1> DEFINE t == approval[a].topUp
<1>1. /\ approval[a].pc = "commit" /\ approval'[a].pc = "evict" /\ approval'[a].topUp = t
      /\ \A d \in Approvals \ {a} : approval'[d] = approval[d]
  BY ApprovalGoesFrame DEF CommitApproval, TypeOK
<1>2. t \in TopUpIds
  BY <1>1, ApprovalFields DEF TypeOK
<1>3. \A u \in TopUpIds : topUpStatus'[u] = IF u = t THEN "APPROVED" ELSE topUpStatus[u]
  BY <1>2 DEF CommitApproval, TypeOK, TopUpsOK
<1>4. FundingRows' = FundingRows \union {TopUpRow(a)}
  BY DEF CommitApproval, FundingRows, TopUpRow
<1>5. TopUpRow(a).id = a /\ TopUpRow(a).user = Requester[t] /\ TopUpRow(a).amount = Worth(t)
  BY DEF TopUpRow, Beneficial
<1>6. \A r \in FundingRows : r.id # a /\ CreditOf(r)
  BY <1>1 DEF CreditsInv, CreditOf, PastCommit
<1> HIDE DEF t
<1>7. \A r \in FundingRows' : CreditOf(r)'
  BY <1>1, <1>2, <1>3, <1>4, <1>5, <1>6 DEF CreditOf, PastCommit
<1>8. \A d \in Approvals : approval'[d].pc \in PastCommit => Funded(d)'
  BY <1>1, <1>4, <1>5 DEF CreditsInv, Funded
<1>9. \A u \in TopUpIds :
        topUpStatus'[u] = "APPROVED" => \E r \in FundingRows' : approval'[r.id].topUp = u
  BY <1>1, <1>3, <1>4, <1>5, <1>6 DEF CreditsInv, CreditOf
<1> QED
  BY <1>7, <1>8, <1>9 DEF CreditsInv

LEMMA CreditsApproval ==
  ASSUME TypeOK, CreditsInv, NEW a \in Approvals,
         ApprovalArrival(a) \/ ApprovalStep(a) \/ ApprovalFails(a)
  PROVE  CreditsInv'
<1>1. ASSUME UNCHANGED <<ledger, topUpStatus>>,
             \A d \in Approvals \ {a} : approval'[d] = approval[d],
             approval'[a].pc \in PastCommit => approval[a].pc \in PastCommit,
             approval[a].pc \in PastCommit \union {"failed", "lost"} =>
               /\ approval'[a].topUp = approval[a].topUp
               /\ approval'[a].pc \in PastCommit \union {"failed", "lost"}
      PROVE  CreditsInv'
  BY <1>1, CreditsFrame DEF FundingRows
<1>2. CASE ApprovalArrival(a)
  BY <1>1, <1>2, ApprovalComes DEF PastCommit
<1>3. CASE MatchOldest(a)
  BY <1>1, <1>3, ApprovalMatches DEF PastCommit
<1>4. CASE CommitApproval(a)
  BY <1>4, CreditsAtCommit
<1>5. CASE ~ ApprovalArrival(a) /\ ~ MatchOldest(a) /\ ~ CommitApproval(a)
  BY <1>1, <1>5, ApprovalSteps DEF Moves
<1> QED
  BY <1>2, <1>3, <1>4, <1>5

LEMMA PayoutsWriteNoFunding ==
  ASSUME TypeOK, NEW p \in PayoutIds, Arrival(p) \/ PayoutStep(p) \/ Fails(p)
  PROVE  FundingRows' = FundingRows
<1>1. CASE Commit(p)
  BY <1>1 DEF Commit, PayoutRow, FundingRows
<1>2. CASE InsertRow(p)
  BY <1>2 DEF InsertRow, walletVars, FundingRows
<1>3. CASE ~ Commit(p) /\ ~ InsertRow(p)
  <2>1. ledger' = ledger
    BY <1>3, OtherPayoutSteps
  <2> QED
    BY <2>1 DEF FundingRows
<1> QED
  BY <1>1, <1>2, <1>3

LEMMA CreditsNext ==
  ASSUME TypeOK, CreditsInv, [Next]_vars
  PROVE  CreditsInv'
<1>1. ASSUME UNCHANGED topUpVars, FundingRows' = FundingRows PROVE CreditsInv'
  BY <1>1, CreditsFrame DEF topUpVars
<1>2. CASE \/ Log \/ (\E m \in Merchants : Lapse(m)) \/ OtherService \/ Idle \/ UNCHANGED vars
  BY <1>1, <1>2, OtherSteps DEF walletVars, FundingRows
<1>3. CASE PayoutService
  <2>1. PICK p \in PayoutIds : Arrival(p) \/ PayoutStep(p) \/ Fails(p)
    BY <1>3, PayoutsAssumption DEF PayoutService, PayoutsNext
  <2> QED
    BY <1>1, <1>3, <2>1, PayoutsWriteNoFunding DEF PayoutService, NotPayouts
<1>4. CASE TopUpService
  <2>1. ASSUME NEW t \in TopUpIds, RequestTopUp(t) PROVE CreditsInv'
    <3>1. /\ approval' = approval /\ ledger' = ledger /\ topUpStatus[t] = "none"
          /\ topUpStatus' = [topUpStatus EXCEPT ![t] = "PENDING"]
      BY <2>1 DEF RequestTopUp, walletVars
    <3>2. \A u \in TopUpIds : topUpStatus'[u] = "APPROVED" <=> topUpStatus[u] = "APPROVED"
      BY <3>1 DEF TypeOK, TopUpsOK
    <3> QED
      BY <3>1, <3>2, CreditsFrame DEF FundingRows
  <2> QED
    BY <1>4, <2>1, CreditsApproval DEF TopUpService, TopUpsNext
<1>5. CASE Crash
  <2>1. UNCHANGED <<ledger, topUpStatus>>
    BY <1>5 DEF Crash
  <2>2. \A a \in Approvals :
          /\ approval'[a].topUp = approval[a].topUp
          /\ approval'[a].pc \in {approval[a].pc, "lost"}
    BY <1>5 DEF Crash, ApprovalsLost, TypeOK, TopUpsOK
  <2> QED
    BY <2>1, <2>2, CreditsFrame DEF FundingRows, PastCommit
<1> QED
  BY <1>2, <1>3, <1>4, <1>5 DEF Next, OtherService

LEMMA CreditsAlways == Spec => []CreditsInv
<1>1. Init => CreditsInv
  <2> SUFFICES ASSUME Init PROVE CreditsInv
    OBVIOUS
  <2>1. /\ FundingRows = {}
        /\ \A a \in Approvals : approval[a].pc = "idle"
        /\ \A t \in TopUpIds : topUpStatus[t] # "APPROVED"
    BY TopUpsAssumption DEF Init, TopUpsInit, WalletDbInit, FundingRows
  <2> QED
    BY <2>1 DEF CreditsInv, PastCommit
<1>2. TypeOK /\ CreditsInv /\ [Next]_vars => CreditsInv'
  BY CreditsNext
<1> QED
  BY TypeCorrect, <1>1, <1>2, PTL DEF Spec

(* Credit, row and status of a top-up go together: a request is approved   *)
(* exactly when some approval has credited its user with its amount, for   *)
(* any number of approvals, failures and restarts at any point.            *)
THEOREM ApprovalsCredit == Spec => []ApprovedIffCredited
<1>1. CreditsInv => ApprovedIffCredited
  BY DEF CreditsInv, CreditOf, ApprovedIffCredited
<1> QED
  BY CreditsAlways, <1>1, PTL

-----------------------------------------------------------------------------
(* Transfers.  What the webhook matched stays matched: no account stops    *)
(* being verified, and a request does not change its user or its amount.   *)

LEMMA TransfersNext ==
  ASSUME TypeOK, VerifiedStay, TransfersInv, [Next]_vars
  PROVE  TransfersInv'
<1>1. ASSUME \A a \in Approvals :
               /\ approval'[a].topUp = approval[a].topUp
               /\ approval'[a].transfer = approval[a].transfer
               /\ approval'[a].channel = approval[a].channel
               /\ approval'[a].pc = "match" => approval[a].pc = "match"
      PROVE  TransfersInv'
  BY <1>1 DEF TransfersInv, VerifiedStay, MatchedAccount, MatchedTopUp
<1>2. CASE \/ Log \/ (\E m \in Merchants : Lapse(m)) \/ OtherService \/ Idle \/ UNCHANGED vars
  BY <1>1, <1>2, OtherSteps DEF topUpVars
<1>3. CASE PayoutService
  BY <1>1, <1>3 DEF PayoutService, NotPayouts, topUpVars
<1>4. CASE TopUpService
  <2>1. CASE \E t \in TopUpIds : RequestTopUp(t)
    BY <1>1, <2>1 DEF RequestTopUp
  <2>2. ASSUME NEW a \in Approvals, \A d \in Approvals \ {a} : approval'[d] = approval[d],
               approval'[a].transfer # NoTransfer =>
                 /\ approval'[a].pc = "match" => MatchedAccount(a)'
                 /\ approval'[a].topUp # NoTopUp => MatchedAccount(a)' /\ MatchedTopUp(a)'
        PROVE  TransfersInv'
    BY <2>2 DEF TransfersInv, VerifiedStay, MatchedAccount, MatchedTopUp
  <2>3. ASSUME NEW a \in Approvals, ApprovalArrival(a) PROVE TransfersInv'
    BY <2>2, <2>3, ApprovalComes DEF VerifiedStay, MatchedAccount
  <2>4. ASSUME NEW a \in Approvals, MatchOldest(a) PROVE TransfersInv'
    <3>1. /\ approval[a].pc = "match" /\ approval'[a].pc = "approve"
          /\ approval'[a].transfer = approval[a].transfer
          /\ approval'[a].channel = approval[a].channel
          /\ approval'[a].topUp \in Matching(a)
          /\ \A d \in Approvals \ {a} : approval'[d] = approval[d]
      BY <2>4, ApprovalMatches
    <3>2. approval'[a].transfer # NoTransfer => MatchedAccount(a)'
      BY <3>1 DEF TransfersInv, MatchedAccount, VerifiedStay
    <3>3. MatchedTopUp(a)'
      BY <3>1 DEF MatchedTopUp, Matching
    <3> QED
      BY <2>2, <3>1, <3>2, <3>3
  <2>5. ASSUME NEW a \in Approvals, CommitApproval(a) PROVE TransfersInv'
    <3>1. \A d \in Approvals :
            /\ approval'[d].topUp = approval[d].topUp
            /\ approval'[d].transfer = approval[d].transfer
            /\ approval'[d].channel = approval[d].channel
            /\ approval'[d].pc = "match" => approval[d].pc = "match"
      BY <2>5 DEF CommitApproval, ApprovalGoes, TypeOK, TopUpsOK
    <3> QED
      BY <1>1, <3>1
  <2>6. ASSUME NEW a \in Approvals, ApprovalStep(a) \/ ApprovalFails(a),
               ~ MatchOldest(a), ~ CommitApproval(a)
        PROVE  TransfersInv'
    BY <1>1, <2>6, ApprovalSteps DEF Moves
  <2> QED
    BY <1>4, <2>1, <2>3, <2>4, <2>5, <2>6 DEF TopUpService, TopUpsNext
<1>5. CASE Crash
  <2>1. \A a \in Approvals :
          /\ approval'[a].topUp = approval[a].topUp
          /\ approval'[a].transfer = approval[a].transfer
          /\ approval'[a].channel = approval[a].channel
          /\ approval'[a].pc \in {approval[a].pc, "lost"}
    BY <1>5 DEF Crash, ApprovalsLost, TypeOK, TopUpsOK
  <2> QED
    BY <1>1, <2>1
<1> QED
  BY <1>2, <1>3, <1>4, <1>5 DEF Next, OtherService

(* What the bank reports is credited to the holder of a verified channel   *)
(* with the reported account number, and in the reported amount, however   *)
(* late the approval comes and whatever happens to channels in between.    *)
THEOREM TransfersCredited == Spec => []TransferCreditedAsReported
<1>1. Init => TransfersInv
  BY DEF Init, TopUpsInit, TransfersInv
<1>2. TypeOK /\ ChannelsInv /\ TransfersInv /\ [Next]_vars => TransfersInv'
  BY ChannelsNextKeeps, TransfersNext
<1>3. CreditsInv /\ TransfersInv => TransferCreditedAsReported
  BY TopUpsAssumption DEF CreditsInv, CreditOf, TransfersInv, MatchedAccount, MatchedTopUp,
     TransferCreditedAsReported
<1> QED
  BY TypeCorrect, ChannelsAlways, CreditsAlways, <1>1, <1>2, <1>3, PTL DEF Spec
-----------------------------------------------------------------------------
(* What is logged and pushed.  Only the last step of a payout and of an    *)
(* approval tells of money, and by then the row is there, for good.        *)

MoneyActions == {"PAYOUT_COMPLETED", "TOPUP_APPROVED"}

SilentAboutMoney ==
  /\ pushed' = pushed
  /\ \A e \in audit' \union owed' : e \in audit \union owed \/ e[1] \notin MoneyActions

LEMMA WhoTells ==
  ASSUME [Next]_vars,
         ~ (\E p \in PayoutIds : LogPayout(p) \/ Finish(p)),
         ~ (\E a \in Approvals : LogApproval(a) \/ FinishApproval(a))
  PROVE  SilentAboutMoney
<1> USE DEF SilentAboutMoney, MoneyActions
<1>1. CASE UNCHANGED effectVars
  BY <1>1 DEF effectVars, logVars
<1>2. CASE Log
  BY <1>2 DEF Log, LogAction, NotData
<1>3. CASE BeneficiaryService
  BY <1>3 DEF BeneficiaryService, NotReviews, BeneficiariesNext, AddBeneficiary, StartReview,
     ReadToVerify, ReadToBlock, RefuseReview, ReviewStep, WriteVerified, WriteBlocked, WriteReview,
     logVars
<1>4. CASE ChannelService
  BY <1>4 DEF ChannelService, NotChannels, ChannelsNext, ChannelArrival, ChannelStep,
     StartChannelCall, EndChannelCall, LookUpAccount, ReadToSelect, RefuseSelect,
     ReadToVerifyChannel, RefuseVerifyChannel, InsertChannel, DuplicateAccount, WriteSelected,
     WriteChannelVerified, logVars
<1>5. CASE RegistrationService
  BY <1>5 DEF RegistrationService, NotUsers, RegistrationNext, LookUpUser, InsertUser, DuplicateUser,
     CommitUser, SignupFails, Login, LoginUnknown
<1>6. CASE PayoutService
  <2>1. PICK p \in PayoutIds : Arrival(p) \/ PayoutStep(p) \/ Fails(p)
    BY <1>6, PayoutsAssumption DEF PayoutService, PayoutsNext
  <2>2. UNCHANGED effectVars
    BY <2>1 DEF Arrival, Arrive, ReplayExisting, KeyTakenByOther, Admit, PayoutStep,
       CheckBeneficiary, RefuseBeneficiary, ReadWallet, RefuseWallet, LoseRace, Debit, Credit,
       DuplicateKey, DuplicateReference, InsertRow, Commit, Evict, EvictPeer, Enqueue,
       DeadlockVictim, Fails, Rollback
  <2> QED
    BY <1>1, <2>2
<1>7. CASE TopUpService
  <2>1. CASE \E t \in TopUpIds : RequestTopUp(t)
    BY <2>1 DEF RequestTopUp
  <2>2. ASSUME NEW a \in Approvals, ApprovalArrival(a) \/ ApprovalStep(a) \/ ApprovalFails(a)
        PROVE  UNCHANGED effectVars
    BY <2>2 DEF ApprovalArrival, AdminApproves, WebhookReceived, WebhookUnknown, ApprovalArrives,
       ApprovalStep, ApprovalFails, MatchOldest, MatchNone, ReadTopUp, RefuseTopUp, CreditWallet,
       CommitApproval, EvictApproved
  <2> QED
    BY <1>1, <1>7, <2>1, <2>2 DEF TopUpService, TopUpsNext
<1>8. CASE Crash
  BY <1>8 DEF Crash
<1>9. CASE (\E m \in Merchants : Lapse(m)) \/ WalletService
  BY <1>1, <1>9 DEF Lapse, Expire, NotData, WalletService, NotReads, WalletReadsNext, CacheHit,
     CacheMiss, ReaderStep, QueryWallet, FillCache, ReadFails, effectVars
<1>10. CASE ListingService \/ ConnectionService \/ WorkerService \/ Idle \/ UNCHANGED vars
  BY <1>1, <1>10 DEF ListingService, ConnectionService, SocketsNext, WorkerService, NotJobs, Idle,
     vars, dataVars
<1> QED
  BY <1>2, <1>3, <1>4, <1>5, <1>6, <1>7, <1>8, <1>9, <1>10 DEF Next

\* No row of the ledger is ever taken back.
LEMMA LedgerGrows ==
  ASSUME TypeOK, [Next]_vars
  PROVE  ledger \subseteq ledger'
<1>1. CASE \/ Log \/ (\E m \in Merchants : Lapse(m)) \/ OtherService \/ Idle \/ UNCHANGED vars
  BY <1>1, OtherSteps DEF walletVars
<1>2. CASE PayoutService
  <2>1. PICK p \in PayoutIds : Arrival(p) \/ PayoutStep(p) \/ Fails(p)
    BY <1>2, PayoutsAssumption DEF PayoutService, PayoutsNext
  <2>2. CASE Commit(p) \/ InsertRow(p)
    BY <2>2 DEF Commit, InsertRow, walletVars
  <2> QED
    BY <2>1, <2>2, OtherPayoutSteps
<1>3. CASE TopUpService
  BY <1>3, TopUpsKeepRows DEF TopUpService
<1>4. CASE Crash
  BY <1>4 DEF Crash
<1> QED
  BY <1>1, <1>2, <1>3, <1>4 DEF Next, OtherService

\* What a step that tells of row id, of user m, makes known.
ToldOf(m, id, action) ==
  /\ \E r \in ledger : r.id = id /\ r.user = m
  /\ pushed' = pushed \/ NotifyUser(m, id)
  /\ owed' = owed /\ audit' \in {audit, audit \union {<<action, id>>}}
  /\ UNCHANGED ledger

LEMMA TellingStep ==
  ASSUME TypeOK, PaidInv, PaidForInv, CreditsInv, [Next]_vars
  PROVE  \/ SilentAboutMoney /\ ledger \subseteq ledger'
         \/ \E m \in Merchants, id \in Sessions, action \in MoneyActions : ToldOf(m, id, action)
<1>0. PayoutsOK /\ TopUpsOK
  BY DEF TypeOK
<1>1. ASSUME NEW p \in PayoutIds, LogPayout(p) \/ Finish(p)
      PROVE  ToldOf(Sender(p), p, "PAYOUT_COMPLETED") /\ Sender(p) \in Merchants
  <2>1. payout[p].pc \in {"audit", "notify"}
    BY <1>1 DEF LogPayout, Finish, GoTo
  <2>2. PICK r \in PayoutRows : r.id = p
    BY <2>1 DEF PaidForInv, RowsAsCommitted, PaidFor, Paid
  <2>3. r \in ledger /\ r.user = Sender(p)
    BY <2>2 DEF PaidInv, PayoutRows
  <2>4. Sender(p) \in Merchants
    BY <1>0, <2>1, CallFields DEF PayoutsOK, Sender
  <2> QED
    BY <1>1, <2>2, <2>3, <2>4 DEF ToldOf, LogPayout, Finish, logVars, walletVars
<1>2. ASSUME NEW a \in Approvals, LogApproval(a) \/ FinishApproval(a)
      PROVE  ToldOf(Beneficial(a), a, "TOPUP_APPROVED") /\ Beneficial(a) \in Merchants
  <2>1. approval[a].pc \in {"audit", "notify"}
    BY <1>2 DEF LogApproval, FinishApproval, ApprovalGoes
  <2>2. PICK r \in FundingRows : r.id = a
    BY <2>1 DEF CreditsInv, PastCommit, Funded
  <2>3. r \in ledger /\ r.user = Beneficial(a)
    BY <2>2 DEF CreditsInv, CreditOf, FundingRows, Beneficial
  <2>4. Beneficial(a) \in Merchants
    BY <1>0, <2>1, ApprovalFields
  <2> QED
    BY <1>2, <2>2, <2>3, <2>4 DEF ToldOf, LogApproval, FinishApproval, logVars, walletVars
<1> QED
  BY <1>1, <1>2, WhoTells, LedgerGrows DEF Sessions, MoneyActions

EntriesTrue ==
  \A e \in audit \union owed : e[1] \in MoneyActions => \E r \in ledger : r.id = e[2]

LEMMA EntriesNext ==
  ASSUME TypeOK, PaidInv, PaidForInv, CreditsInv, EntriesTrue, [Next]_vars
  PROVE  EntriesTrue'
<1>1. CASE SilentAboutMoney /\ ledger \subseteq ledger'
  BY <1>1 DEF SilentAboutMoney, EntriesTrue
<1>2. ASSUME NEW m \in Merchants, NEW id \in Sessions, NEW action \in MoneyActions,
             ToldOf(m, id, action)
      PROVE  EntriesTrue'
  <2>1. \A e \in audit' \union owed' : e \in audit \union owed \/ e[2] = id
    BY <1>2 DEF ToldOf
  <2> QED
    BY <1>2, <2>1 DEF ToldOf, EntriesTrue
<1> QED
  BY <1>1, <1>2, TellingStep

LEMMA PushesNext ==
  ASSUME TypeOK, PaidInv, PaidForInv, CreditsInv, RegistryIsLive, PushesAreTrue, [Next]_vars
  PROVE  PushesAreTrue'
<1>1. CASE SilentAboutMoney /\ ledger \subseteq ledger'
  BY <1>1 DEF SilentAboutMoney, PushesAreTrue
<1>2. ASSUME NEW m \in Merchants, NEW id \in Sessions, NEW action \in MoneyActions,
             ToldOf(m, id, action)
      PROVE  PushesAreTrue'
  <2>1. ASSUME NEW s \in Reached(m) PROVE SocketUser[s] = m
    BY <2>1, SocketsAssumption DEF Reached, RegistryIsLive
  <2>2. \A e \in pushed' : e \in pushed \/ (e[1] = id /\ SocketUser[e[2]] = m)
    BY <1>2, <2>1 DEF ToldOf, NotifyUser
  <2> QED
    BY <1>2, <2>2 DEF ToldOf, PushesAreTrue
<1> QED
  BY <1>1, <1>2, TellingStep

(* No notification and no log entry is ever about money that a rollback    *)
(* took back: jobs and entries follow the commit, and rows stay.           *)
THEOREM EffectsFollow == Spec => []EffectsFollowCommit
<1>1. Init => EntriesTrue
  BY DEF Init, WalletDbInit, EntriesTrue
<1>2. TypeOK /\ PaidInv /\ PaidForInv /\ CreditsInv /\ EntriesTrue /\ [Next]_vars => EntriesTrue'
  BY EntriesNext
<1>3. PaidForInv /\ EntriesTrue => EffectsFollowCommit
  BY DEF PaidForInv, JobsOfPaid, Paid, EntriesTrue, MoneyActions, EffectsFollowCommit
<1> QED
  BY TypeCorrect, PaidAlways, PaidForAlways, CreditsAlways, <1>1, <1>2, <1>3, PTL DEF Spec

(* What reaches a client's socket is about a committed row of that very    *)
(* client, whatever connections replaced each other in the meantime.       *)
THEOREM PushesCorrect == Spec => []PushesAreTrue
<1>1. Init => PushesAreTrue
  BY DEF Init, SocketsInit, PushesAreTrue
<1>2. TypeOK /\ PaidInv /\ PaidForInv /\ CreditsInv /\ RegistryIsLive /\ PushesAreTrue /\ [Next]_vars
        => PushesAreTrue'
  BY PushesNext
<1> QED
  BY TypeCorrect, PaidAlways, PaidForAlways, CreditsAlways, RegistryCorrect, <1>1, <1>2, PTL DEF Spec

-----------------------------------------------------------------------------
(* A row has been stamped by its insert, and no step stamps it again.      *)

LEMMA StampKept ==
  ASSUME TypeOK, NEW p \in PayoutIds, Arrival(p) \/ PayoutStep(p) \/ Fails(p),
         ~ InsertRow(p), ~ DuplicateReference(p)
  PROVE  payout'[p].at = payout[p].at
<1>0. PayoutsOK
  BY DEF TypeOK
<1>1. CASE Arrival(p)
  <2>1. PICK c \in Calls, l \in {"replayed", "conflict", "beneficiary"} : Arrive(p, c, l)
    BY <1>1 DEF Arrival, ReplayExisting, KeyTakenByOther, Admit
  <2> QED
    BY <1>0, <2>1 DEF Arrive, PayoutsOK
<1>2. CASE ReadWallet(p)
  BY <1>0, <1>2 DEF ReadWallet, PayoutsOK
<1>3. ASSUME NEW from, NEW to, GoTo(p, from, to)
      PROVE  payout'[p].at = payout[p].at
  BY <1>0, <1>3 DEF GoTo, PayoutsOK
<1>4. CASE \/ CheckBeneficiary(p) \/ RefuseBeneficiary(p) \/ RefuseWallet(p)
           \/ Debit(p) \/ Credit(p) \/ Commit(p)
           \/ Evict(p) \/ EvictPeer(p) \/ Enqueue(p)
           \/ LogPayout(p) \/ Finish(p)
  BY <1>3, <1>4 DEF CheckBeneficiary, RefuseBeneficiary, RefuseWallet, Debit, Credit,
     Commit, Evict, EvictPeer, Enqueue, LogPayout, Finish
<1>5. CASE LoseRace(p) \/ DuplicateKey(p) \/ DeadlockVictim(p) \/ Fails(p)
  BY <1>3, <1>5 DEF LoseRace, DuplicateKey, DeadlockVictim, Fails, Rollback
<1> QED
  BY <1>1, <1>2, <1>4, <1>5 DEF PayoutStep

LEMMA StampsStay ==
  ASSUME TypeOK, PaidForInv, [Next]_vars, NEW p \in PayoutIds, Paid(p)
  PROVE  payout'[p].at = payout[p].at
<1>1. CASE payout' = payout
  BY <1>1
<1>2. CASE \/ Log \/ (\E m \in Merchants : Lapse(m)) \/ OtherService \/ Idle \/ UNCHANGED vars
  BY <1>1, <1>2, OtherSteps DEF payoutVars
<1>3. CASE PayoutService
  <2>1. PICK q \in PayoutIds : Arrival(q) \/ PayoutStep(q) \/ Fails(q)
    BY <1>3, PayoutsAssumption DEF PayoutService, PayoutsNext
  <2>2. CASE q = p
    <3>1. ~ InsertRow(p) /\ ~ DuplicateReference(p)
      BY DEF InsertRow, DuplicateReference, PaidForInv, RowsAsCommitted, Unpaid
    <3> QED
      BY <2>1, <2>2, <3>1, StampKept
  <2> QED
    BY <2>1, <2>2, PayoutsFrame
<1>4. CASE TopUpService
  BY <1>1, <1>4 DEF TopUpService, NotTopUps, payoutVars
<1>5. CASE Crash
  <2>1. payout'[p] = IF payout[p].pc \in {"idle"} \union Settled THEN payout[p]
                     ELSE [payout[p] EXCEPT !.pc = "lost"]
    BY <1>5 DEF Crash, PayoutsLost
  <2> QED
    BY <2>1 DEF TypeOK, PayoutsOK
<1> QED
  BY <1>2, <1>3, <1>4, <1>5 DEF Next, OtherService

-----------------------------------------------------------------------------
(* What the client of a payout is told.  A replay, a clash and a conflict  *)
(* are each answered because of a row or a version that stays.             *)

Refusal == {"replayed", "conflict", "clash"}

KeyUsed(p) == \E r \in ledger : RowWithKey(r, payout[p].call.key)

Replayed(p) ==
  \E r \in PayoutRows : RowWithKey(r, payout[p].call.key) /\ r.user = Sender(p)

Clashing(p) ==
  \E r \in PayoutRows :
    /\ payout[r.id].call.beneficiary = payout[p].call.beneficiary
    /\ payout[r.id].at = payout[p].at

Overtaken(p) == version[Sender(p)] > payout[p].seen

RefusalIsTrue(p) ==
  /\ payout[p].pc = "replayed" => Replayed(p)
  /\ payout[p].pc = "clash" => Clashing(p)
  /\ payout[p].pc = "conflict" => KeyUsed(p) \/ Overtaken(p)

RefusalsAreTrue == \A p \in PayoutIds : RefusalIsTrue(p)

\* A version is never counted down.
LEMMA VersionsGrow ==
  ASSUME TypeOK, Solvent, [Next]_vars, NEW m \in Merchants
  PROVE  version'[m] >= version[m]
<1>0. version[m] \in Nat
  BY DEF TypeOK, WalletsOK
<1>1. CASE version' = version
  BY <1>0, <1>1
<1>2. CASE \/ Log \/ (\E n \in Merchants : Lapse(n)) \/ OtherService \/ Idle \/ UNCHANGED vars
  BY <1>1, <1>2, OtherSteps DEF walletVars
<1>3. CASE PayoutService
  <2>1. PICK p \in PayoutIds : Arrival(p) \/ PayoutStep(p) \/ Fails(p)
    BY <1>3, PayoutsAssumption DEF PayoutService, PayoutsNext
  <2>2. CASE Commit(p)
    BY <1>0, <2>2 DEF Commit, Bumped
  <2>3. CASE ~ Commit(p)
    BY <1>1, <2>1, <2>3, GuardedStep, SolventGuarded DEF Solvent
  <2> QED
    BY <2>2, <2>3
<1>4. CASE TopUpService
  BY <1>0, <1>4, TopUpsRaise DEF TopUpService
<1>5. CASE Crash
  BY <1>1, <1>5 DEF Crash
<1> QED
  BY <1>2, <1>3, <1>4, <1>5 DEF Next, OtherService

\* A call keeps its request, and once answered everything.
LEMMA CallsStay ==
  ASSUME TypeOK, [Next]_vars, NEW p \in PayoutIds, payout[p].pc # "idle"
  PROVE  payout'[p].pc # "idle" /\ payout'[p].call = payout[p].call
<1>1. CASE payout' = payout
  BY <1>1
<1>2. CASE \/ Log \/ (\E m \in Merchants : Lapse(m)) \/ OtherService \/ Idle \/ UNCHANGED vars
  BY <1>1, <1>2, OtherSteps DEF payoutVars
<1>3. CASE PayoutService
  <2>1. PICK q \in PayoutIds : Arrival(q) \/ PayoutStep(q) \/ Fails(q)
    BY <1>3, PayoutsAssumption DEF PayoutService, PayoutsNext
  <2> QED
    BY <2>1, PaidSteps, PayoutsFrame
<1>4. CASE TopUpService
  BY <1>1, <1>4 DEF TopUpService, NotTopUps, payoutVars
<1>5. CASE Crash
  <2>1. payout'[p] = IF payout[p].pc \in {"idle"} \union Settled THEN payout[p]
                     ELSE [payout[p] EXCEPT !.pc = "lost"]
    BY <1>5 DEF Crash, PayoutsLost
  <2> QED
    BY <2>1 DEF TypeOK, PayoutsOK
<1> QED
  BY <1>2, <1>3, <1>4, <1>5 DEF Next, OtherService

\* The grounds for a refusal do not go away.
LEMMA GroundsStay ==
  ASSUME TypeOK, PaidInv, PaidForInv, Solvent, [Next]_vars, NEW p \in PayoutIds,
         payout[p].pc # "idle"
  PROVE  /\ Replayed(p) => Replayed(p)'
         /\ Clashing(p) /\ payout'[p].at = payout[p].at => Clashing(p)'
         /\ KeyUsed(p) => KeyUsed(p)'
         /\ Overtaken(p) /\ payout'[p].seen = payout[p].seen => Overtaken(p)'
<1>1. payout'[p].call = payout[p].call /\ Sender(p)' = Sender(p)
  BY CallsStay DEF Sender
<1>2. ledger \subseteq ledger' /\ PayoutRows \subseteq PayoutRows'
  BY LedgerGrows DEF PayoutRows
<1>3. \A r \in PayoutRows :
        payout'[r.id].call = payout[r.id].call /\ payout'[r.id].at = payout[r.id].at
  BY CallsStay, StampsStay, RowIds DEF PaidInv, Paid
<1>4. Clashing(p) /\ payout'[p].at = payout[p].at => Clashing(p)'
  BY <1>1, <1>2, <1>3 DEF Clashing
<1>5. Sender(p) \in Merchants /\ payout[p].seen \in Nat
  BY CallFields DEF TypeOK, PayoutsOK, Sender
<1>6. version[Sender(p)] \in Nat /\ version'[Sender(p)] >= version[Sender(p)]
  BY <1>5, VersionsGrow DEF TypeOK, WalletsOK
<1>7. Overtaken(p) /\ payout'[p].seen = payout[p].seen => Overtaken(p)'
  <2> SUFFICES ASSUME Overtaken(p), payout'[p].seen = payout[p].seen PROVE Overtaken(p)'
    OBVIOUS
  <2>1. version'[Sender(p)] \in Nat
    BY <1>5, TypeNext DEF TypeOK, WalletsOK
  <2> QED
    BY <1>1, <1>5, <1>6, <2>1 DEF Overtaken
<1> QED
  BY <1>1, <1>2, <1>4, <1>7 DEF Replayed, KeyUsed, RowWithKey

\* How a call comes to be refused for another's row or version.
LEMMA RefusalSteps ==
  ASSUME TypeOK, NEW p \in PayoutIds, Arrival(p) \/ PayoutStep(p) \/ Fails(p),
         payout'[p].pc \in Refusal
  PROVE  \/ \E c \in Calls : ReplayExisting(p, c) \/ KeyTakenByOther(p, c)
         \/ LoseRace(p) \/ DuplicateKey(p) \/ DuplicateReference(p)
<1>0. PayoutsOK
  BY DEF TypeOK
<1> USE DEF Refusal
<1>1. ASSUME NEW c \in Calls, Admit(p, c) PROVE FALSE
  BY <1>0, <1>1 DEF Admit, Arrive, PayoutsOK
<1>2. CASE ReadWallet(p)
  BY <1>0, <1>2 DEF ReadWallet, PayoutsOK
<1>3. CASE InsertRow(p)
  BY <1>0, <1>3, InsertFrame
<1>4. ASSUME NEW from, NEW to, GoTo(p, from, to), to \notin Refusal PROVE FALSE
  BY <1>0, <1>4, GoToFrame
<1>5. CASE CheckBeneficiary(p) \/ RefuseBeneficiary(p) \/ RefuseWallet(p) \/ Credit(p) \/ Commit(p)
  BY <1>4, <1>5 DEF CheckBeneficiary, RefuseBeneficiary, RefuseWallet, Credit, Commit
<1>6. CASE EvictPeer(p) \/ Enqueue(p) \/ LogPayout(p) \/ Finish(p)
  BY <1>4, <1>6 DEF EvictPeer, Enqueue, LogPayout, Finish
<1>7. CASE Debit(p)
  <2>1. GoTo(p, "debit", "credit") \/ GoTo(p, "debit", "insert")
    BY <1>7 DEF Debit
  <2> QED
    BY <1>4, <2>1
<1>8. CASE Evict(p)
  <2>1. GoTo(p, "evict", "evictPeer") \/ GoTo(p, "evict", "enqueue")
    BY <1>8 DEF Evict
  <2> QED
    BY <1>4, <2>1
<1>9. CASE DeadlockVictim(p) \/ Fails(p)
  <2>1. \E from : GoTo(p, from, "failed")
    BY <1>9 DEF DeadlockVictim, Fails, Rollback
  <2> QED
    BY <1>4, <2>1
<1> QED
  BY <1>1, <1>2, <1>3, <1>5, <1>6, <1>7, <1>8, <1>9 DEF Arrival, PayoutStep

\* A row with a key is a payout's.
LEMMA KeyedRows ==
  ASSUME TypeOK, NEW r \in ledger, r.key # NoKey
  PROVE  r \in PayoutRows
  BY DEF TypeOK, WalletsOK, Rows, PayoutRows

LEMMA RefusalOfStep ==
  ASSUME TypeOK, PaidInv, PaidForInv, Solvent, [Next]_vars,
         NEW p \in PayoutIds, Arrival(p) \/ PayoutStep(p) \/ Fails(p),
         payout'[p].pc \in Refusal
  PROVE  RefusalIsTrue(p)'
<1>0. PayoutsOK
  BY DEF TypeOK
<1> USE DEF walletVars
\* The row, or the version, is the one the step has just seen.
<1>1. ASSUME NEW c \in Calls, ReplayExisting(p, c) \/ KeyTakenByOther(p, c)
      PROVE  RefusalIsTrue(p)'
  <2>1. /\ payout'[p].call = c /\ ledger' = ledger
        /\ payout'[p].pc = "replayed" => ReplayExisting(p, c)
        /\ payout'[p].pc # "clash"
    BY <1>0, <1>1 DEF ReplayExisting, KeyTakenByOther, Arrive, PayoutsOK
  <2>2. \E r \in ledger' : RowWithKey(r, c.key)
    BY <1>1, <2>1 DEF ReplayExisting, KeyTakenByOther
  <2>3. KeyUsed(p)'
    BY <2>1, <2>2 DEF KeyUsed
  <2>4. ReplayExisting(p, c) => Replayed(p)'
    BY <2>1, KeyedRows DEF ReplayExisting, Replayed, RowWithKey, Sender, PayoutRows
  <2> QED
    BY <2>1, <2>3, <2>4 DEF RefusalIsTrue
<1>2. ASSUME NEW from \in {"debit", "insert"}, NEW to \in Refusal, GoTo(p, from, to)
      PROVE  /\ payout[p].pc = from /\ payout'[p].pc = to
             /\ payout'[p].seen = payout[p].seen
             /\ KeyUsed(p) => KeyUsed(p)'
             /\ Overtaken(p) => Overtaken(p)'
  BY <1>0, <1>2, GoToFrame, GroundsStay
<1>3. CASE LoseRace(p)
  <2>1. GoTo(p, "debit", "conflict") /\ version[Sender(p)] # payout[p].seen
    BY <1>3 DEF LoseRace, Rollback
  <2>2. payout[p].pc = "debit" /\ payout'[p].pc = "conflict"
    BY <1>2, <2>1 DEF Refusal
  <2>3. payout[p].seen <= version[Sender(p)]
    BY <2>2 DEF Solvent, OptimisticLock
  <2>4. payout[p].seen \in Nat /\ version[Sender(p)] \in Nat
    BY <1>0, <2>2, CallFields DEF TypeOK, WalletsOK, PayoutsOK, Sender
  <2>5. Overtaken(p)
    BY <2>1, <2>3, <2>4 DEF Overtaken
  <2> QED
    BY <1>2, <2>1, <2>2, <2>5 DEF RefusalIsTrue, Refusal
<1>4. CASE DuplicateKey(p)
  <2>1. GoTo(p, "insert", "conflict") /\ KeyUsed(p)
    BY <1>4 DEF DuplicateKey, Rollback, KeyUsed
  <2> QED
    BY <1>2, <2>1 DEF RefusalIsTrue, Refusal
<1>5. CASE DuplicateReference(p)
  <2>1. PICK t \in Now, r \in ledger :
          SameReference(p, t, r) /\ payout' = [payout EXCEPT ![p].pc = "clash", ![p].at = t]
    BY <1>5 DEF DuplicateReference
  <2>2. r \in PayoutRows /\ r.id \in PayoutIds
    BY <2>1, RowIds DEF SameReference, PayoutRows
  <2>3. r.id # p
    BY <1>5, <2>2 DEF DuplicateReference, PaidForInv, RowsAsCommitted, Unpaid, Paid
  <2>4. /\ payout'[p].pc = "clash" /\ payout'[p].at = t
        /\ payout'[p].call = payout[p].call
        /\ payout'[r.id] = payout[r.id]
    BY <1>0, <2>1, <2>2, <2>3 DEF PayoutsOK
  <2>5. PayoutRows' = PayoutRows
    BY <1>5 DEF DuplicateReference, PayoutRows
  <2>6. Clashing(p)'
    BY <2>1, <2>2, <2>4, <2>5 DEF Clashing, SameReference
  <2> QED
    BY <2>4, <2>6 DEF RefusalIsTrue
<1> QED
  BY <1>1, <1>3, <1>4, <1>5, RefusalSteps

LEMMA RefusalsNext ==
  ASSUME TypeOK, PaidInv, PaidForInv, Solvent, RefusalsAreTrue, [Next]_vars
  PROVE  RefusalsAreTrue'
<1>1. ASSUME NEW q \in PayoutIds, payout'[q] = payout[q] \/ payout'[q].pc \notin Refusal
      PROVE  RefusalIsTrue(q)'
  BY <1>1, GroundsStay DEF RefusalsAreTrue, RefusalIsTrue, Refusal
<1>2. CASE \/ Log \/ (\E m \in Merchants : Lapse(m)) \/ OtherService \/ Idle \/ UNCHANGED vars
  BY <1>1, <1>2, OtherSteps DEF payoutVars, RefusalsAreTrue
<1>3. CASE PayoutService
  <2>1. PICK p \in PayoutIds : Arrival(p) \/ PayoutStep(p) \/ Fails(p)
    BY <1>3, PayoutsAssumption DEF PayoutService, PayoutsNext
  <2>2. RefusalIsTrue(p)'
    BY <1>1, <2>1, RefusalOfStep
  <2> QED
    BY <1>1, <2>1, <2>2, PayoutsFrame DEF RefusalsAreTrue
<1>4. CASE TopUpService
  BY <1>1, <1>4 DEF TopUpService, NotTopUps, payoutVars, RefusalsAreTrue
<1>5. CASE Crash
  <2>1. ASSUME NEW q \in PayoutIds PROVE payout'[q] = payout[q] \/ payout'[q].pc \notin Refusal
    <3>1. payout'[q] = IF payout[q].pc \in {"idle"} \union Settled THEN payout[q]
                       ELSE [payout[q] EXCEPT !.pc = "lost"]
      BY <1>5 DEF Crash, PayoutsLost
    <3> QED
      BY <3>1 DEF TypeOK, PayoutsOK, Refusal
  <2> QED
    BY <1>1, <2>1 DEF RefusalsAreTrue
<1> QED
  BY <1>2, <1>3, <1>4, <1>5 DEF Next, OtherService

(* What the client of createPayout is told is true of the tables: 201 with *)
(* the row and its job, a replay of a row of its own, and a 409 only for a *)
(* key, a payee in the same millisecond, or a version that somebody did    *)
(* take before.                                                            *)
THEOREM AnswersTrue == Spec => []AnswersAreTrue
<1>1. Init => RefusalsAreTrue
  BY DEF Init, PayoutsInit, RefusalsAreTrue, RefusalIsTrue
<1>2. TypeOK /\ PaidInv /\ PaidForInv /\ Solvent /\ RefusalsAreTrue /\ [Next]_vars
        => RefusalsAreTrue'
  BY RefusalsNext
<1>3. PaidForInv /\ RefusalsAreTrue => AnswersAreTrue
  BY DEF PaidForInv, RowsAsCommitted, Unpaid, PaidFor, Queued, Paid, RefusalsAreTrue, RefusalIsTrue,
     Replayed, Clashing, KeyUsed, Overtaken, AnswersAreTrue
<1> QED
  BY TypeCorrect, PaidAlways, PaidForAlways, SolventAlways, <1>1, <1>2, <1>3, PTL DEF Spec

-----------------------------------------------------------------------------
(* The refinement of Notices.  A job can be with two workers, so what      *)
(* bounds the handlings is counted: every worker that is still to end the  *)
(* handler of a job, and every end there was, used up a try of its own.    *)

Holders(p) == {w \in Workers : handling[w] = p /\ w \notin done}

TriesUsed(p) == Cardinality(Holders(p)) + notices[p] <= Tries(p)

\* A job that is given to a worker is in the queue and not completed, and a
\* worker whose handler has ended has left a notice.
QueueInv ==
  /\ completed \subseteq jobs
  /\ \A p \in PayoutIds : claim[p] # Free => p \in jobs \ completed
  /\ \A w \in done : notices[handling[w]] > 0

HandlingInv == QueueInv /\ \A p \in PayoutIds : TriesUsed(p)

LEMMA TriesCounted ==
  ASSUME TypeOK, NEW p \in PayoutIds
  PROVE  /\ IsFiniteSet(Holders(p)) /\ Cardinality(Holders(p)) \in Nat
         /\ Tries(p) \in Nat /\ stalls[p] \in Nat /\ notices[p] \in Nat
<1>1. IsFiniteSet(Workers) /\ Holders(p) \in SUBSET Workers
  BY WorkerAssumption DEF Holders
<1>2. IsFiniteSet(Holders(p))
  BY <1>1, FS_Subset
<1>3. stalls[p] \in Nat /\ notices[p] \in Nat
  BY DEF TypeOK, WorkerOK
<1> QED
  BY <1>2, <1>3, FS_CardinalityType DEF Tries

\* Steps that give the job to nobody, and end no handler of it.
LEMMA TriesUsedStill ==
  ASSUME TypeOK, TypeOK', NEW p \in PayoutIds, TriesUsed(p),
         Holders(p)' \subseteq Holders(p), notices'[p] = notices[p], Tries(p)' = Tries(p)
  PROVE  TriesUsed(p)'
<1>1. /\ IsFiniteSet(Holders(p)) /\ Cardinality(Holders(p)) \in Nat
      /\ Tries(p) \in Nat /\ notices[p] \in Nat
  BY TriesCounted
<1>2. Cardinality(Holders(p)') \in Nat /\ Cardinality(Holders(p)') <= Cardinality(Holders(p))
  BY <1>1, FS_Subset, FS_CardinalityType
<1>3. TriesUsed(p)' <=> Cardinality(Holders(p)') + notices'[p] <= Tries(p)'
  BY DEF TriesUsed
<1> HIDE DEF Holders, Tries
<1> QED
  BY <1>1, <1>2, <1>3 DEF TriesUsed

\* Only the worker service changes what workers have, and what Redis records.
LEMMA WorkersOwn ==
  ASSUME [Next]_vars
  PROVE  WorkerService \/ UNCHANGED workerVars
BY DEF Next, Log, Lapse, NotData, PayoutService, NotPayouts, TopUpService, NotTopUps,
   BeneficiaryService, NotReviews, ChannelService, NotChannels, RegistrationService, NotUsers,
   WalletService, NotReads, ListingService, ConnectionService, Crash, Idle, vars

\* The steps that move a notice are those of workers, commits and Enqueue.
LEMMA NoticesKept ==
  ASSUME TypeOK, [Next]_vars, ~ (\E p \in PayoutIds : Commit(p) \/ Enqueue(p))
  PROVE  UNCHANGED <<jobs, PayoutRows>>
<1>1. CASE \/ Log \/ (\E m \in Merchants : Lapse(m)) \/ OtherService \/ Idle \/ UNCHANGED vars
  BY <1>1, OtherSteps DEF walletVars, payoutVars, PayoutRows
<1>2. CASE PayoutService
  <2>1. PICK p \in PayoutIds : Arrival(p) \/ PayoutStep(p) \/ Fails(p)
    BY <1>2, PayoutsAssumption DEF PayoutService, PayoutsNext
  <2> QED
    BY <2>1, QuietSteps DEF PayoutRows
<1>3. CASE TopUpService
  BY <1>3, TopUpsWriteNoPayout DEF TopUpService, NotTopUps, payoutVars
<1>4. CASE Crash
  BY <1>4 DEF Crash, PayoutRows
<1> QED
  BY <1>1, <1>2, <1>3, <1>4 DEF Next, OtherService

JobsInv == TypeOK /\ PaidForInv /\ HandlingInv

\* What each step of a worker leaves of the rows and of the queue.
Beside == UNCHANGED <<jobs, PayoutRows>>

LEMMA TakeMoves ==
  ASSUME JobsInv, TypeOK', Beside, NEW w \in Workers, TakeJob(w)
  PROVE  HandlingInv' /\ Delivery!Next
<1>1. PICK p \in PayoutIds :
        /\ Waiting(p)
        /\ handling' = [handling EXCEPT ![w] = p]
        /\ claim' = [claim EXCEPT ![p] = w]
  BY DEF TakeJob
<1>2. /\ handling[w] = NoJob /\ UNCHANGED <<done, notices, stalls, completed>>
      /\ handling \in [Workers -> PayoutIds \union {NoJob}]
      /\ claim \in [PayoutIds -> Workers \union {Free}]
      /\ w \notin done /\ w # Free
  BY WorkerAssumption DEF TakeJob, JobsInv, TypeOK, WorkerOK
<1>3. p \in jobs \ completed /\ claim[p] = Free /\ stalls[p] <= MaxStalls
  BY <1>1, TriesCounted, WorkerAssumption DEF JobsInv, Waiting, GivenUp
<1>4. QueueInv'
  BY <1>1, <1>2, <1>3 DEF Beside, JobsInv, HandlingInv, QueueInv, TypeOK, WorkerOK
<1>5. Tries(p) = stalls[p] /\ Tries(p)' = Tries(p) + 1
  BY <1>1, <1>2, <1>3, TriesCounted DEF Tries, JobsInv
<1>6. Holders(p)' = Holders(p) \union {w} /\ w \notin Holders(p)
  BY <1>1, <1>2, WorkerAssumption DEF Holders
<1>7. TriesUsed(p)'
  <2>1. /\ IsFiniteSet(Holders(p)) /\ Cardinality(Holders(p)) \in Nat
        /\ Tries(p) \in Nat /\ notices[p] \in Nat
    BY TriesCounted DEF JobsInv
  <2>2. Cardinality(Holders(p)') = Cardinality(Holders(p)) + 1
    BY <1>6, <2>1, FS_AddElement
  <2>3. TriesUsed(p)' <=> Cardinality(Holders(p)') + notices'[p] <= Tries(p)'
    BY DEF TriesUsed
  <2> HIDE DEF Holders, Tries
  <2> QED
    BY <1>2, <1>5, <2>1, <2>2, <2>3 DEF JobsInv, HandlingInv, TriesUsed
<1>8. \A q \in PayoutIds \ {p} : Tries(q)' = Tries(q) /\ Holders(q)' \subseteq Holders(q)
  BY <1>1, <1>2 DEF Tries, Holders
<1>9. \A q \in PayoutIds \ {p} : TriesUsed(q)'
  BY <1>2, <1>8, TriesUsedStill DEF JobsInv, HandlingInv
<1>10. \A q \in PayoutIds : Stage(q)' = Stage(q)
  BY <1>2 DEF Beside, Stage
<1>11. Delivery!Try(p)
  <2>1. Stage(p) = "queued" /\ Tries(p) < MaxStalls + 1
    BY <1>3, <1>5, TriesCounted, WorkerAssumption DEF Stage, JobsInv
  <2>2. [q \in PayoutIds |-> Tries(q)'] =
          [[q \in PayoutIds |-> Tries(q)] EXCEPT ![p] = @ + 1]
    BY <1>5, <1>8
  <2> QED
    BY <1>2, <1>10, <2>1, <2>2 DEF Delivery!Try
<1> QED
  BY <1>4, <1>7, <1>9, <1>11 DEF HandlingInv, Delivery!Next

LEMMA EndMoves ==
  ASSUME JobsInv, TypeOK', Beside, NEW w \in Workers, EndHandler(w)
  PROVE  HandlingInv' /\ Delivery!Next
<1>1. PICK p \in PayoutIds : handling[w] = p
  BY DEF EndHandler, JobsInv, TypeOK, WorkerOK
<1>2. /\ w \notin done /\ done' = done \union {w}
      /\ notices' = [notices EXCEPT ![p] = @ + 1]
      /\ UNCHANGED <<handling, claim, stalls, completed>>
  BY <1>1 DEF EndHandler, queueVars
<1>3. notices \in [PayoutIds -> Nat]
  BY DEF JobsInv, TypeOK, WorkerOK
<1>4. QueueInv'
  <2>1. ASSUME NEW v \in done' PROVE notices'[handling'[v]] > 0
    <3>1. CASE handling[v] = p
      BY <1>2, <1>3, <3>1
    <3>2. CASE handling[v] # p
      <4>1. v \in done /\ handling[v] \in PayoutIds
        BY <1>1, <1>2, <2>1, <3>2 DEF JobsInv, TypeOK, WorkerOK
      <4> QED
        BY <1>2, <1>3, <3>2, <4>1 DEF JobsInv, HandlingInv, QueueInv
    <3> QED
      BY <3>1, <3>2
  <2> QED
    BY <1>2, <2>1 DEF Beside, JobsInv, HandlingInv, QueueInv
<1>5. \A q \in PayoutIds : Tries(q)' = Tries(q) /\ Stage(q)' = Stage(q)
  BY <1>2 DEF Tries, Stage, Beside
<1>6. Holders(p)' = Holders(p) \ {w} /\ w \in Holders(p)
  BY <1>1, <1>2 DEF Holders
<1>7. /\ Cardinality(Holders(p)') = Cardinality(Holders(p)) - 1
      /\ Cardinality(Holders(p)') \in Nat
      /\ Cardinality(Holders(p)) \in Nat /\ Tries(p) \in Nat /\ notices[p] \in Nat
  <2>1. IsFiniteSet(Holders(p)) /\ Cardinality(Holders(p)) \in Nat /\ Tries(p) \in Nat
    BY TriesCounted DEF JobsInv
  <2> QED
    BY <1>3, <1>6, <2>1, FS_RemoveElement, FS_CardinalityType
<1>8. TriesUsed(p) /\ (TriesUsed(p)' <=> Cardinality(Holders(p)') + notices'[p] <= Tries(p)')
  BY DEF JobsInv, HandlingInv, TriesUsed
<1>9. TriesUsed(p)' /\ notices[p] < Tries(p)
  <2> HIDE DEF Holders, Tries
  <2> QED
    BY <1>2, <1>3, <1>5, <1>7, <1>8 DEF TriesUsed
<1>10. \A q \in PayoutIds \ {p} : Holders(q)' \subseteq Holders(q) /\ notices'[q] = notices[q]
  BY <1>2, <1>3 DEF Holders
<1>11. \A q \in PayoutIds \ {p} : TriesUsed(q)'
  BY <1>5, <1>10, TriesUsedStill DEF JobsInv, HandlingInv
<1>12. Delivery!Send(p)
  BY <1>2, <1>5, <1>9 DEF Delivery!Send
<1> QED
  BY <1>4, <1>9, <1>11, <1>12 DEF HandlingInv, Delivery!Next

LEMMA CompleteMoves ==
  ASSUME JobsInv, TypeOK', Beside, NEW w \in Workers, CompleteJob(w)
  PROVE  HandlingInv' /\ Delivery!Next
<1>1. PICK p \in PayoutIds : handling[w] = p
  BY DEF CompleteJob, JobsInv, TypeOK, WorkerOK
<1>2. /\ w \in done /\ claim[p] = w
      /\ handling' = [handling EXCEPT ![w] = NoJob] /\ done' = done \ {w}
      /\ completed' = completed \union {p} /\ claim' = [claim EXCEPT ![p] = Free]
      /\ UNCHANGED <<notices, stalls>>
  BY <1>1 DEF CompleteJob, Release
<1>3. /\ handling \in [Workers -> PayoutIds \union {NoJob}]
      /\ claim \in [PayoutIds -> Workers \union {Free}] /\ done \subseteq Workers
      /\ w # Free /\ NoJob \notin PayoutIds
  BY WorkerAssumption DEF JobsInv, TypeOK, WorkerOK
<1>4. p \in jobs \ completed /\ notices[p] > 0
  BY <1>1, <1>2, <1>3 DEF JobsInv, HandlingInv, QueueInv
<1>5. QueueInv'
  BY <1>2, <1>3, <1>4 DEF Beside, JobsInv, HandlingInv, QueueInv
<1>6. \A q \in PayoutIds : Tries(q)' = Tries(q)
  BY <1>2, <1>3, <1>4 DEF Tries
<1>7. \A q \in PayoutIds : Holders(q)' \subseteq Holders(q)
  BY <1>2, <1>3 DEF Holders
<1>8. \A q \in PayoutIds : TriesUsed(q)'
  BY <1>2, <1>6, <1>7, TriesUsedStill DEF JobsInv, HandlingInv
<1>9. Stage(p) = "queued" /\ Stage(p)' = "done"
  BY <1>2, <1>4 DEF Stage
<1>10. \A q \in PayoutIds \ {p} : Stage(q)' = Stage(q)
  BY <1>2 DEF Stage, Beside
<1>11. Delivery!Settle(p)
  <2>1. [q \in PayoutIds |-> Stage(q)'] =
          [[q \in PayoutIds |-> Stage(q)] EXCEPT ![p] = "done"]
    BY <1>9, <1>10
  <2> QED
    BY <1>2, <1>4, <1>6, <1>9, <2>1 DEF Delivery!Settle, Delivery!Moves
<1> QED
  BY <1>5, <1>8, <1>11 DEF HandlingInv, Delivery!Next

\* A worker lets go of what it has, or comes back with nothing.
LEMMA ReleaseMoves ==
  ASSUME JobsInv, TypeOK', Beside, NEW w \in Workers,
         RefuseReport(w) \/ WorkerDies(w) \/ WorkerStarts(w)
  PROVE  HandlingInv' /\ UNCHANGED Delivery!noticeVars
<1>1. /\ \/ handling' = [handling EXCEPT ![w] = NoJob] /\ done' = done \ {w}
         \/ UNCHANGED <<handling, done>>
      /\ UNCHANGED <<notices, claim, stalls, completed>>
  BY DEF RefuseReport, WorkerDies, WorkerStarts, Release, queueVars
<1>2. /\ handling \in [Workers -> PayoutIds \union {NoJob}] /\ done \subseteq Workers
      /\ NoJob \notin PayoutIds
  BY WorkerAssumption DEF JobsInv, TypeOK, WorkerOK
<1>3. QueueInv'
  BY <1>1, <1>2 DEF Beside, JobsInv, HandlingInv, QueueInv
<1>4. \A q \in PayoutIds : Tries(q)' = Tries(q) /\ Stage(q)' = Stage(q)
  BY <1>1 DEF Tries, Stage, Beside
<1>5. \A q \in PayoutIds : Holders(q)' \subseteq Holders(q)
  BY <1>1, <1>2 DEF Holders
<1>6. \A q \in PayoutIds : TriesUsed(q)'
  BY <1>1, <1>4, <1>5, TriesUsedStill DEF JobsInv, HandlingInv
<1> QED
  BY <1>1, <1>3, <1>4, <1>6 DEF HandlingInv, Delivery!noticeVars

\* A stall takes the job from its worker, and the try stays counted.
LEMMA StallMoves ==
  ASSUME JobsInv, TypeOK', Beside, NEW p \in PayoutIds, StallJob(p)
  PROVE  HandlingInv' /\ UNCHANGED Delivery!noticeVars
<1>1. /\ claim[p] # Free /\ claim' = [claim EXCEPT ![p] = Free]
      /\ stalls' = [stalls EXCEPT ![p] = @ + 1]
      /\ UNCHANGED <<handling, done, notices, completed>>
  BY DEF StallJob
<1>2. claim \in [PayoutIds -> Workers \union {Free}] /\ stalls \in [PayoutIds -> Nat]
  BY DEF JobsInv, TypeOK, WorkerOK
<1>3. p \notin completed
  BY <1>1 DEF JobsInv, HandlingInv, QueueInv
<1>4. QueueInv'
  BY <1>1, <1>2 DEF Beside, JobsInv, HandlingInv, QueueInv
<1>5. \A q \in PayoutIds : Tries(q)' = Tries(q) /\ Stage(q)' = Stage(q)
  BY <1>1, <1>2, <1>3 DEF Tries, Stage, Beside
<1>6. \A q \in PayoutIds : Holders(q)' \subseteq Holders(q)
  BY <1>1 DEF Holders
<1>7. \A q \in PayoutIds : TriesUsed(q)'
  BY <1>1, <1>5, <1>6, TriesUsedStill DEF JobsInv, HandlingInv
<1> QED
  BY <1>1, <1>4, <1>5, <1>7 DEF HandlingInv, Delivery!noticeVars

LEMMA WorkerMoves ==
  ASSUME JobsInv, TypeOK', WorkerService
  PROVE  HandlingInv' /\ (Delivery!Next \/ UNCHANGED Delivery!noticeVars)
<1>1. Beside
  BY DEF WorkerService, NotJobs, dataVars, walletVars, payoutVars, PayoutRows, Beside
<1> QED
  BY <1>1, TakeMoves, EndMoves, CompleteMoves, ReleaseMoves, StallMoves
     DEF WorkerService, WorkerNext

\* What becomes of the queue while no worker moves and jobs are only added.
LEMMA HandlingKept ==
  ASSUME JobsInv, UNCHANGED workerVars, jobs \subseteq jobs'
  PROVE  HandlingInv'
<1>1. QueueInv'
  BY DEF workerVars, queueVars, JobsInv, HandlingInv, QueueInv
<1>2. \A p \in PayoutIds : TriesUsed(p)'
  BY DEF workerVars, queueVars, JobsInv, HandlingInv, TriesUsed, Holders, Tries
<1> QED
  BY <1>1, <1>2 DEF HandlingInv

\* A commit makes the notice possible; the call adds it later, if it lives.
LEMMA CallMoves ==
  ASSUME JobsInv, UNCHANGED workerVars, NEW p \in PayoutIds, Commit(p) \/ Enqueue(p)
  PROVE  /\ HandlingInv'
         /\ Delivery!Next \/ UNCHANGED Delivery!noticeVars
<1>0. /\ UNCHANGED <<notices, claim, stalls, completed>>
      /\ \A q \in PayoutIds : Tries(q)' = Tries(q)
      /\ completed \subseteq jobs
  BY DEF workerVars, queueVars, Tries, JobsInv, HandlingInv, QueueInv
<1>1. CASE Commit(p)
  <2>1. /\ payout[p].pc = "commit" /\ jobs' = jobs
        /\ PayoutRows' = PayoutRows \union {PayoutRow(p)} /\ PayoutRow(p).id = p
    BY <1>1 DEF Commit, GoTo, PayoutRows, PayoutRow
  <2>2. ~ Paid(p) /\ p \notin jobs
    BY <2>1 DEF JobsInv, PaidForInv, RowsAsCommitted, JobsOfPaid, Unpaid
  <2>3. HandlingInv'
    BY <2>1, HandlingKept
  <2>4. Stage(p) = "none" /\ Stage(p)' = "made"
    BY <1>0, <2>1, <2>2 DEF Stage, Paid
  <2>5. \A q \in PayoutIds \ {p} : Stage(q)' = Stage(q)
    BY <1>0, <2>1 DEF Stage
  <2>6. [q \in PayoutIds |-> Stage(q)'] =
          [[q \in PayoutIds |-> Stage(q)] EXCEPT ![p] = "made"]
    BY <2>4, <2>5
  <2>7. Delivery!Make(p)
    BY <1>0, <2>4, <2>6 DEF Delivery!Make, Delivery!Moves
  <2> QED
    BY <2>3, <2>7 DEF Delivery!Next
<1>2. CASE Enqueue(p)
  <2>1. /\ payout[p].pc = "enqueue" /\ jobs' = jobs \union {p} /\ PayoutRows' = PayoutRows
    BY <1>2 DEF Enqueue, GoTo, walletVars, PayoutRows
  <2>2. HandlingInv'
    BY <2>1, HandlingKept
  <2>3. CASE p \in jobs
    BY <1>0, <2>1, <2>2, <2>3 DEF Delivery!noticeVars, Stage
  <2>4. CASE p \notin jobs
    <3>1. Paid(p)
      BY <2>1 DEF JobsInv, PaidForInv, RowsAsCommitted, PaidFor
    <3>2. Stage(p) = "made" /\ Stage(p)' = "queued"
      BY <1>0, <2>1, <2>4, <3>1 DEF Stage, Paid
    <3>3. \A q \in PayoutIds \ {p} : Stage(q)' = Stage(q)
      BY <1>0, <2>1 DEF Stage
    <3>4. [q \in PayoutIds |-> Stage(q)'] =
            [[q \in PayoutIds |-> Stage(q)] EXCEPT ![p] = "queued"]
      BY <3>2, <3>3
    <3>5. Delivery!Queue(p)
      BY <1>0, <3>2, <3>4 DEF Delivery!Queue, Delivery!Moves
    <3> QED
      BY <2>2, <3>5 DEF Delivery!Next
  <2> QED
    BY <2>3, <2>4
<1> QED
  BY <1>1, <1>2

LEMMA NoticesNext ==
  ASSUME JobsInv, TypeOK', [Next]_vars
  PROVE  HandlingInv' /\ (Delivery!Next \/ UNCHANGED Delivery!noticeVars)
<1>1. CASE WorkerService
  BY <1>1, WorkerMoves
<1>2. CASE UNCHANGED workerVars /\ \E p \in PayoutIds : Commit(p) \/ Enqueue(p)
  BY <1>2, CallMoves
<1>3. CASE UNCHANGED workerVars /\ ~ \E p \in PayoutIds : Commit(p) \/ Enqueue(p)
  <2>1. UNCHANGED <<jobs, PayoutRows>>
    BY <1>3, NoticesKept DEF JobsInv
  <2>2. HandlingInv'
    BY <1>3, <2>1, HandlingKept
  <2>3. \A q \in PayoutIds : Stage(q)' = Stage(q) /\ Tries(q)' = Tries(q)
    BY <1>3, <2>1 DEF Stage, Tries, workerVars, queueVars
  <2> QED
    BY <1>3, <2>2, <2>3 DEF Delivery!noticeVars, workerVars
<1> QED
  BY <1>1, <1>2, <1>3, WorkersOwn

(* The notification of a payout goes its way in the order of Notices: it   *)
(* is of a payout that was made, is not completed before a handler has     *)
(* ended nor begun again after, and a merchant is notified once more only  *)
(* for a lock that was lost, whoever dies and whichever live worker loses  *)
(* its lock.                                                               *)
THEOREM NoticesImplemented == Spec => ImplementsNotices
<1>1. Init => HandlingInv /\ Delivery!Init
  <2> SUFFICES ASSUME Init PROVE HandlingInv /\ Delivery!Init
    OBVIOUS
  <2>1. /\ ledger = {} /\ jobs = {} /\ completed = {} /\ done = {}
        /\ handling = [w \in Workers |-> NoJob] /\ stalls = [p \in PayoutIds |-> 0]
        /\ notices = [p \in PayoutIds |-> 0] /\ claim = [p \in PayoutIds |-> Free]
    BY DEF Init, PayoutsInit, WalletDbInit, WorkerInit
  <2>2. \A p \in PayoutIds : Stage(p) = "none" /\ Tries(p) = 0
    BY <2>1 DEF Stage, Tries, PayoutRows
  <2>3. \A p \in PayoutIds : Holders(p) = {}
    BY <2>1, WorkerAssumption DEF Holders
  <2>4. \A p \in PayoutIds : TriesUsed(p)
    BY <2>1, <2>2, <2>3, FS_EmptySet DEF TriesUsed
  <2> QED
    BY <2>1, <2>2, <2>4 DEF HandlingInv, QueueInv, Delivery!Init
<1>2. TypeOK /\ TypeOK' /\ PaidForInv /\ HandlingInv /\ [Next]_vars
      => HandlingInv' /\ [Delivery!Next]_Delivery!noticeVars
  BY NoticesNext DEF JobsInv
<1> QED
  BY TypeCorrect, PaidForAlways, <1>1, <1>2, PTL DEF Spec, ImplementsNotices, Delivery!Spec
=============================================================================
