-------------------------- MODULE DivergenceProofs --------------------------
(***************************************************************************)
(* Proofs about the sentences of the documentation that the code does not  *)
(* keep, for every choice of the constants of Backend: each fails on one   *)
(* overlap of calls or connections, and holds in every behaviour that is   *)
(* without that overlap.                                                   *)
(***************************************************************************)
EXTENDS Divergences, BookProofs

(* Approvals of one request.  While only one of them is past the look at   *)
(* the status, the status is still what it was.                            *)

Crediting == {"credit", "commit"}

PendingTillCredited ==
  \A a \in Approvals :
    approval[a].pc \in Crediting => topUpStatus[approval[a].topUp] = "PENDING"

OnceInv == PendingTillCredited /\ TopUpCreditedOnce

\* What a step that does not commit an approval does to all this.
LEMMA OnceFrame ==
  ASSUME TypeOK, CreditsInv, OnceInv, FundingRows' = FundingRows,
         \A t \in TopUpIds : topUpStatus[t] = "PENDING" => topUpStatus'[t] = "PENDING",
         \A a \in Approvals :
           /\ approval[a].pc \in PastCommit \union {"failed", "lost"} =>
                approval'[a].topUp = approval[a].topUp
           /\ approval'[a].pc \in Crediting =>
                /\ approval'[a].topUp = approval[a].topUp
                /\ approval[a].topUp \in TopUpIds
                /\ topUpStatus[approval[a].topUp] = "PENDING"
  PROVE  OnceInv'
<1>1. PendingTillCredited'
  BY DEF PendingTillCredited
<1>2. \A r \in FundingRows : approval'[r.id].topUp = approval[r.id].topUp
  BY DEF CreditsInv, CreditOf
<1> QED
  BY <1>1, <1>2 DEF OnceInv, TopUpCreditedOnce

LEMMA OnceAtCommit ==
  ASSUME TypeOK, CreditsInv, ApprovalsApart, OnceInv, NEW a \in Approvals, CommitApproval(a)
  PROVE  OnceInv'
<1> DEFINE t == approval[a].topUp
<1>1. /\ approval[a].pc = "commit" /\ approval'[a].pc = "evict" /\ approval'[a].topUp = t
      /\ \A d \in Approvals \ {a} : approval'[d] = approval[d]
  BY ApprovalGoesFrame DEF CommitApproval, TypeOK
<1>2. t \in TopUpIds /\ topUpStatus[t] = "PENDING"
  BY <1>1, ApprovalFields DEF TypeOK, OnceInv, PendingTillCredited, Crediting
<1>3. \A u \in TopUpIds : topUpStatus'[u] = IF u = t THEN "APPROVED" ELSE topUpStatus[u]
  BY <1>2 DEF CommitApproval, TypeOK, TopUpsOK
<1>4. FundingRows' = FundingRows \union {TopUpRow(a)} /\ TopUpRow(a).id = a
  BY DEF CommitApproval, FundingRows, TopUpRow
<1>5. \A r \in FundingRows : r.id \in Approvals \ {a} /\ approval[r.id].topUp # t
  BY <1>1, <1>2 DEF CreditsInv, CreditOf, PastCommit
<1>6. ASSUME NEW d \in Approvals, approval'[d].pc \in Crediting
      PROVE  topUpStatus'[approval'[d].topUp] = "PENDING"
  <2>1. d # a /\ approval'[d] = approval[d]
    BY <1>1, <1>6 DEF Crediting
  <2>2. approval[d].topUp # t
    BY <1>1, <1>6, <2>1 DEF ApprovalsApart, Crediting
  <2>3. approval[d].topUp \in TopUpIds
    BY <1>6, <2>1, ApprovalFields DEF TypeOK, Crediting
  <2> QED
    BY <1>3, <1>6, <2>1, <2>2, <2>3 DEF OnceInv, PendingTillCredited
<1> HIDE DEF t
<1>7. TopUpCreditedOnce'
  BY <1>1, <1>4, <1>5 DEF OnceInv, TopUpCreditedOnce
<1> QED
  BY <1>6, <1>7 DEF OnceInv, PendingTillCredited

\* How an approval gets past the look at the status.
LEMMA CreditingSteps ==
  ASSUME TypeOK, NEW a \in Approvals, ApprovalStep(a) \/ ApprovalFails(a), ~ MatchOldest(a)
  PROVE  approval'[a].pc \in Crediting =>
           /\ approval'[a].topUp = approval[a].topUp
           /\ approval[a].topUp \in TopUpIds
           /\ approval[a].pc \in Crediting \/ topUpStatus[approval[a].topUp] = "PENDING"
<1>0. TopUpsOK
  BY DEF TypeOK
<1>1. ASSUME NEW from, NEW to, ApprovalGoes(a, from, to), to \notin Crediting
      PROVE  approval'[a].pc \notin Crediting
  BY <1>0, <1>1, ApprovalGoesFrame
<1>2. CASE ReadTopUp(a) \/ CreditWallet(a)
  <2>1. PICK from \in {"approve", "credit"}, to \in Crediting :
          ApprovalGoes(a, from, to) /\ (from = "approve" => Approvable(a))
    BY <1>2 DEF ReadTopUp, CreditWallet, Crediting
  <2>2. approval[a].pc = from /\ approval'[a].topUp = approval[a].topUp
    BY <1>0, <2>1, ApprovalGoesFrame
  <2>3. approval[a].topUp \in TopUpIds
    BY <1>0, <2>2, ApprovalFields
  <2> QED
    BY <2>1, <2>2, <2>3 DEF Approvable, Crediting
<1>3. CASE \/ MatchNone(a) \/ RefuseTopUp(a) \/ CommitApproval(a) \/ EvictApproved(a)
           \/ LogApproval(a) \/ FinishApproval(a) \/ ApprovalFails(a)
  BY <1>1, <1>3 DEF MatchNone, RefuseTopUp, CommitApproval, EvictApproved, LogApproval,
     FinishApproval, ApprovalFails, Crediting
<1> QED
  BY <1>2, <1>3 DEF ApprovalStep

LEMMA OnceApproval ==
  ASSUME TypeOK, CreditsInv, ApprovalsApart, OnceInv, NEW a \in Approvals,
         ApprovalArrival(a) \/ ApprovalStep(a) \/ ApprovalFails(a)
  PROVE  OnceInv'
<1>0. \A d \in Approvals : approval[d].pc \in Crediting =>
        approval[d].topUp \in TopUpIds /\ topUpStatus[approval[d].topUp] = "PENDING"
  BY ApprovalFields DEF TypeOK, OnceInv, PendingTillCredited, Crediting
<1>1. ASSUME UNCHANGED <<ledger, topUpStatus>>,
             \A d \in Approvals \ {a} : approval'[d] = approval[d],
             approval[a].pc \in PastCommit \union {"failed", "lost"} =>
               approval'[a].topUp = approval[a].topUp,
             approval'[a].pc \in Crediting =>
               /\ approval'[a].topUp = approval[a].topUp
               /\ approval[a].topUp \in TopUpIds
               /\ topUpStatus[approval[a].topUp] = "PENDING"
      PROVE  OnceInv'
  BY <1>0, <1>1, OnceFrame DEF FundingRows
<1>2. CASE ApprovalArrival(a)
  BY <1>1, <1>2, ApprovalComes DEF PastCommit, Crediting
<1>3. CASE MatchOldest(a)
  BY <1>1, <1>3, ApprovalMatches DEF PastCommit, Crediting
<1>4. CASE CommitApproval(a)
  BY <1>4, OnceAtCommit
<1>5. CASE ~ ApprovalArrival(a) /\ ~ MatchOldest(a) /\ ~ CommitApproval(a)
  BY <1>0, <1>1, <1>5, ApprovalSteps, CreditingSteps DEF Moves
<1> QED
  BY <1>2, <1>3, <1>4, <1>5

LEMMA OnceNext ==
  ASSUME TypeOK, CreditsInv, ApprovalsApart, OnceInv, [Next]_vars
  PROVE  OnceInv'
<1>0. \A d \in Approvals : approval[d].pc \in Crediting =>
        approval[d].topUp \in TopUpIds /\ topUpStatus[approval[d].topUp] = "PENDING"
  BY ApprovalFields DEF TypeOK, OnceInv, PendingTillCredited, Crediting
<1>1. ASSUME UNCHANGED topUpVars, FundingRows' = FundingRows PROVE OnceInv'
  BY <1>0, <1>1, OnceFrame DEF topUpVars
<1>2. CASE \/ Log \/ (\E m \in Merchants : Lapse(m)) \/ OtherService \/ Idle \/ UNCHANGED vars
  BY <1>1, <1>2, OtherSteps DEF walletVars, FundingRows
<1>3. CASE PayoutService
  <2>1. PICK p \in PayoutIds : Arrival(p) \/ PayoutStep(p) \/ Fails(p)
    BY <1>3, PayoutsAssumption DEF PayoutService, PayoutsNext
  <2> QED
    BY <1>1, <1>3, <2>1, PayoutsWriteNoFunding DEF PayoutService, NotPayouts
<1>4. CASE TopUpService
  <2>1. ASSUME NEW t \in TopUpIds, RequestTopUp(t) PROVE OnceInv'
    <3>1. /\ approval' = approval /\ ledger' = ledger
          /\ topUpStatus' = [topUpStatus EXCEPT ![t] = "PENDING"]
      BY <2>1 DEF RequestTopUp, walletVars
    <3>2. \A u \in TopUpIds : topUpStatus[u] = "PENDING" => topUpStatus'[u] = "PENDING"
      BY <3>1 DEF TypeOK, TopUpsOK
    <3> QED
      BY <1>0, <3>1, <3>2, OnceFrame DEF FundingRows
  <2> QED
    BY <1>4, <2>1, OnceApproval DEF TopUpService, TopUpsNext
<1>5. CASE Crash
  <2>1. UNCHANGED <<ledger, topUpStatus>>
    BY <1>5 DEF Crash
  <2>2. \A a \in Approvals :
          /\ approval'[a].topUp = approval[a].topUp
          /\ approval'[a].pc \in {approval[a].pc, "lost"}
    BY <1>5 DEF Crash, ApprovalsLost, TypeOK, TopUpsOK
  <2> QED
    BY <1>0, <2>1, <2>2, OnceFrame DEF FundingRows, Crediting
<1> QED
  BY <1>2, <1>3, <1>4, <1>5 DEF Next, OtherService

(* Two approvals that overlap are the only way to credit a request twice:  *)
(* without such a pair a request is credited once at most, for any number  *)
(* of approvals by hand and by the bank, failures and restarts.            *)
THEOREM CreditedOnce == Spec => CreditedOnceIfApart
<1>1. Init => OnceInv
  BY DEF Init, TopUpsInit, WalletDbInit, OnceInv, PendingTillCredited, TopUpCreditedOnce,
     FundingRows, Crediting
<1>2. TypeOK /\ CreditsInv /\ ApprovalsApart /\ OnceInv /\ [Next]_vars => OnceInv'
  BY OnceNext
<1>3. OnceInv => TopUpCreditedOnce
  BY DEF OnceInv
<1> QED
  BY TypeCorrect, CreditsAlways, <1>1, <1>2, <1>3, PTL DEF Spec, CreditedOnceIfApart

-----------------------------------------------------------------------------
(* Reviews of one beneficiary.  While only one of them is past its look at *)
(* the status, a review about to verify still has a pending row before it. *)

Reviewing == {"verify", "block"}

PendingTillVerified ==
  \A v \in Reviews : review[v].pc = "verify" => benStatus[review[v].beneficiary] = "PENDING"

BlockedStay == \A b \in Beneficiaries : benStatus[b] = "BLOCKED" => benStatus'[b] = "BLOCKED"

LEMMA ReviewsStep ==
  ASSUME TypeOK, ReviewsApart, PendingTillVerified, BeneficiaryService
  PROVE  PendingTillVerified' /\ BlockedStay
<1>0. /\ benStatus \in [Beneficiaries -> Existing \union {"none"}]
      /\ \A v \in Reviews : review[v].pc # "idle" => review[v].beneficiary \in Beneficiaries
      /\ DOMAIN review = Reviews
      /\ \A v \in Reviews : review[v] = [pc |-> review[v].pc, beneficiary |-> review[v].beneficiary]
  BY DEF TypeOK, BeneficiariesOK
<1>1. ASSUME NEW b \in Beneficiaries, AddBeneficiary(b)
      PROVE  PendingTillVerified' /\ BlockedStay
  <2>1. /\ benStatus[b] = "none" /\ review' = review
        /\ \A c \in Beneficiaries : benStatus'[c] = IF c = b THEN "PENDING" ELSE benStatus[c]
    BY <1>0, <1>1 DEF AddBeneficiary
  <2> QED
    BY <1>0, <2>1 DEF PendingTillVerified, BlockedStay
<1>2. ASSUME NEW v \in Reviews, NEW b \in Beneficiaries,
             ReadToVerify(v, b) \/ ReadToBlock(v, b) \/ RefuseReview(v, b)
      PROVE  PendingTillVerified' /\ BlockedStay
  <2>1. PICK l \in {"verify", "block", "done"} :
          /\ benStatus' = benStatus
          /\ review' = [review EXCEPT ![v] = [pc |-> l, beneficiary |-> b]]
          /\ l = "verify" => benStatus[b] = "PENDING"
    BY <1>2 DEF ReadToVerify, ReadToBlock, RefuseReview, StartReview
  <2> QED
    BY <1>0, <2>1 DEF PendingTillVerified, BlockedStay
<1>3. ASSUME NEW v \in Reviews, ReviewStep(v)
      PROVE  PendingTillVerified' /\ BlockedStay
  <2> DEFINE b == review[v].beneficiary
  <2>1. PICK l \in Reviewing, s \in {"VERIFIED", "BLOCKED"} :
          /\ review[v].pc = l
          /\ review' = [review EXCEPT ![v].pc = "done"]
          /\ benStatus' = [benStatus EXCEPT ![b] = s]
          /\ s = "VERIFIED" => l = "verify"
    BY <1>3 DEF ReviewStep, WriteVerified, WriteBlocked, WriteReview, Reviewing
  <2>2. b \in Beneficiaries /\ \A c \in Beneficiaries \ {b} : benStatus'[c] = benStatus[c]
    BY <1>0, <2>1 DEF Reviewing
  <2>3. benStatus[b] = "BLOCKED" => benStatus'[b] = "BLOCKED"
    BY <1>0, <2>1, <2>2 DEF PendingTillVerified
  <2>4. ASSUME NEW w \in Reviews, review'[w].pc = "verify"
        PROVE  benStatus'[review'[w].beneficiary] = "PENDING"
    <3>1. w # v /\ review'[w] = review[w]
      BY <1>0, <2>1, <2>4
    <3>2. review[w].beneficiary # b
      BY <2>1, <2>4, <3>1 DEF ReviewsApart, Reviewing
    <3>3. review[w].beneficiary \in Beneficiaries
      BY <1>0, <2>4, <3>1
    <3> QED
      BY <2>2, <2>4, <3>1, <3>2, <3>3 DEF PendingTillVerified
  <2> QED
    BY <2>2, <2>3, <2>4 DEF PendingTillVerified, BlockedStay
<1> QED
  BY <1>1, <1>2, <1>3 DEF BeneficiaryService, BeneficiariesNext

(* Two reviews that overlap are the only way to unblock a beneficiary:     *)
(* without such a pair a block is for good, whatever dies and is repeated. *)
THEOREM BlockedForGood == Spec => BlockedForGoodIfApart
<1>1. Init => PendingTillVerified
  BY DEF Init, BeneficiariesInit, PendingTillVerified
<1>2. TypeOK /\ ReviewsApart /\ PendingTillVerified /\ [Next]_vars
        => PendingTillVerified' /\ BlockedStay
  <2> SUFFICES ASSUME TypeOK, ReviewsApart, PendingTillVerified, [Next]_vars
               PROVE  PendingTillVerified' /\ BlockedStay
    OBVIOUS
  <2>1. CASE BeneficiaryService
    BY <2>1, ReviewsStep
  <2>2. CASE Crash
    <3>1. /\ benStatus' = benStatus
          /\ \A v \in Reviews : review'[v].pc # "verify"
      BY <2>2 DEF Crash, ReviewsLost, TypeOK, BeneficiariesOK
    <3> QED
      BY <3>1 DEF PendingTillVerified, BlockedStay
  <2>3. CASE UNCHANGED beneficiaryVars
    BY <2>3 DEF beneficiaryVars, PendingTillVerified, BlockedStay
  <2> QED
    BY <2>1, <2>2, <2>3, OwnService
<1>3. BlockedStay =>
        \A b \in Beneficiaries : benStatus[b] = "BLOCKED" => benStatus'[b] = "BLOCKED"
  BY DEF BlockedStay
<1> QED
  BY TypeCorrect, <1>1, <1>2, <1>3, PTL DEF Spec, BlockedForGoodIfApart, BlockedStaysBlocked

-----------------------------------------------------------------------------
(* Connections of one user.  While the server has only one at a time, no   *)
(* disconnect removes the entry of another.                                *)

OpenIsRegistered == \A s \in Sockets : link[s] = "open" => registry[SocketUser[s]] = s

LEMMA OpenStep ==
  ASSUME TypeOK, ConnectionsApart, ConnectionsApart', OpenIsRegistered, ConnectionService
  PROVE  OpenIsRegistered'
<1>0. /\ link \in [Sockets -> {"new", "open", "severed", "closed"}]
      /\ registry \in [Merchants -> Sockets \union {NoSocket}]
      /\ SocketUser \in [Sockets -> Merchants]
  BY SocketsAssumption DEF TypeOK, SocketsOK
<1>1. PICK s \in Sockets : Connect(s) \/ Sever(s) \/ Disconnect(s)
  BY DEF ConnectionService, SocketsNext
<1>2. CASE Connect(s)
  <2>1. link' = [link EXCEPT ![s] = "open"] /\ registry' = [registry EXCEPT ![SocketUser[s]] = s]
    BY <1>2 DEF Connect
  <2>2. \A t \in Sockets \ {s} : link'[t] = "open" => SocketUser[t] # SocketUser[s]
    BY <1>0, <2>1 DEF ConnectionsApart, Live
  <2> QED
    BY <1>0, <2>1, <2>2 DEF OpenIsRegistered
<1>3. CASE Sever(s)
  BY <1>0, <1>3 DEF Sever, OpenIsRegistered
<1>4. CASE Disconnect(s)
  <2>1. /\ Live(s) /\ link' = [link EXCEPT ![s] = "closed"]
        /\ registry' = [registry EXCEPT ![SocketUser[s]] = NoSocket]
    BY <1>4 DEF Disconnect
  <2>2. \A t \in Sockets \ {s} : link[t] = "open" => SocketUser[t] # SocketUser[s]
    BY <2>1 DEF ConnectionsApart, Live
  <2> QED
    BY <1>0, <2>1, <2>2 DEF OpenIsRegistered
<1> QED
  BY <1>1, <1>2, <1>3, <1>4

\* Only its last step takes a payout to the answer 201.
LEMMA WhoCreates ==
  ASSUME TypeOK, NEW p \in PayoutIds, payout[p].pc # "created", payout'[p].pc = "created",
         [Next]_vars
  PROVE  Finish(p)
<1>0. PayoutsOK
  BY DEF TypeOK
<1>1. CASE UNCHANGED payoutVars
  BY <1>1 DEF payoutVars
<1>2. CASE PayoutService
  <2>1. PICK q \in PayoutIds : Arrival(q) \/ PayoutStep(q) \/ Fails(q)
    BY <1>2, PayoutsAssumption DEF PayoutService, PayoutsNext
  <2>2. q = p
    BY <2>1, PayoutsFrame
  <2>3. /\ ~ Commit(p) /\ ~ Enqueue(p)
        /\ ~ LogPayout(p) /\ ~ DuplicateReference(p)
    BY <1>0, GoToFrame, ClashFrame DEF Commit, Enqueue, LogPayout
  <2>4. payout[p].pc \in {"audit", "notify"}
    <3>1. Quiet(payout[p].pc, payout'[p].pc)
      BY <2>1, <2>2, <2>3, QuietSteps
    <3> QED
      BY <3>1 DEF Quiet, Queued
  <2> QED
    BY <2>1, <2>2, <2>3, <2>4 DEF Arrival, ReplayExisting, KeyTakenByOther, Admit, Arrive, PayoutStep,
       CheckBeneficiary, RefuseBeneficiary, ReadWallet, RefuseWallet, LoseRace, Debit, Credit,
       DuplicateKey, InsertRow, Evict, EvictPeer, DeadlockVictim, Fails, Rollback, GoTo,
       InTransaction
<1>3. CASE Crash
  BY <1>3 DEF Crash, PayoutsLost, PayoutsOK
<1>4. CASE TopUpService
  BY <1>1, <1>4 DEF TopUpService, NotTopUps
<1>5. CASE \/ Log \/ (\E m \in Merchants : Lapse(m)) \/ OtherService \/ Idle \/ UNCHANGED vars
  BY <1>1, <1>5, OtherSteps
<1> QED
  BY <1>2, <1>3, <1>4, <1>5 DEF Next, OtherService

Pushed ==
  \A p \in PayoutIds :
    (/\ payout[p].pc = "notify" /\ payout'[p].pc = "created"
     /\ \E s \in Sockets : link[s] = "open" /\ SocketUser[s] = Sender(p))
      => \E s \in Sockets : <<p, s>> \in pushed'

(* Connections that overlap are the only way to lose a push: if the server *)
(* has noticed that a connection is gone before its user makes another,    *)
(* every payout that is completed while its merchant is connected is       *)
(* pushed, across disconnects and restarts.                                *)
THEOREM PushedToConnected == Spec => PushedIfApart
<1>1. Init => OpenIsRegistered
  BY DEF Init, SocketsInit, OpenIsRegistered
<1>2. TypeOK /\ ConnectionsApart /\ ConnectionsApart' /\ OpenIsRegistered /\ [Next]_vars
        => OpenIsRegistered'
  <2> SUFFICES ASSUME TypeOK, ConnectionsApart, ConnectionsApart', OpenIsRegistered, [Next]_vars
               PROVE  OpenIsRegistered'
    OBVIOUS
  <2>1. CASE Crash
    BY <2>1 DEF Crash, LinksCut, OpenIsRegistered
  <2>2. CASE UNCHANGED connectionVars
    BY <2>2 DEF connectionVars, OpenIsRegistered
  <2> QED
    BY <2>1, <2>2, OpenStep, OwnService
<1>3. TypeOK /\ OpenIsRegistered /\ [Next]_vars => Pushed
  <2> SUFFICES ASSUME TypeOK, OpenIsRegistered, [Next]_vars, NEW p \in PayoutIds,
                      payout[p].pc = "notify", payout'[p].pc = "created",
                      NEW s \in Sockets, link[s] = "open", SocketUser[s] = Sender(p)
               PROVE  <<p, s>> \in pushed'
    BY DEF Pushed
  <2>1. Finish(p)
    BY WhoCreates
  <2>2. s \in Reached(Sender(p))
    BY DEF Reached, OpenIsRegistered
  <2> QED
    BY <2>1, <2>2 DEF Finish, NotifyUser
<1> QED
  BY TypeCorrect, <1>1, <1>2, <1>3, PTL DEF Spec, PushedIfApart, PayoutIsPushed, Pushed

-----------------------------------------------------------------------------
(* The cache.  While no commit falls between a read and its fill, what a   *)
(* reader is about to fill in is the balance; so a key that holds anything *)
(* else is older than a commit, and whoever committed still has to evict   *)
(* it.                                                                     *)

EvictionDue(m) ==
  \/ \E p \in PayoutIds :
       \/ payout[p].pc = "evict" /\ m \in {Sender(p), Recipient(p)}
       \/ payout[p].pc = "evictPeer" /\ m = Recipient(p)
  \/ \E a \in Approvals : approval[a].pc = "evict" /\ m = Beneficial(a)

FillsFresh ==
  \A r \in Readers : reader[r].pc = "fill" => reader[r].seen = balance[reader[r].user]

StaleIsDue == \A m \in Merchants : cache[m] \in {Miss, balance[m]} \/ EvictionDue(m)

FreshInv == FillsFresh /\ StaleIsDue

\* The step of a payout that neither commits nor evicts leaves the cache, and
\* an eviction that is due stays so unless the call fails.
LEMMA UnevictingPayout ==
  ASSUME TypeOK, NEW p \in PayoutIds, Arrival(p) \/ PayoutStep(p) \/ Fails(p),
         ~ Evict(p), ~ EvictPeer(p)
  PROVE  /\ cache' = cache
         /\ payout[p].pc \in {"evict", "evictPeer"} => payout'[p].pc = "failed"
<1>0. PayoutsOK
  BY DEF TypeOK
<1>1. cache' = cache
  BY DEF Arrival, Arrive, ReplayExisting, KeyTakenByOther, Admit, PayoutStep,
     CheckBeneficiary, RefuseBeneficiary, ReadWallet, RefuseWallet, LoseRace, Debit, Credit,
     DuplicateKey, DuplicateReference, InsertRow, Commit, Enqueue, LogPayout, Finish, DeadlockVictim,
     Fails, Rollback
<1>2. ASSUME payout[p].pc \in {"evict", "evictPeer"}
      PROVE  payout'[p].pc = "failed"
  <2>1. Fails(p)
    BY <1>2 DEF Arrival, ReplayExisting, KeyTakenByOther, Admit, Arrive, PayoutStep,
       CheckBeneficiary, RefuseBeneficiary, ReadWallet, RefuseWallet, LoseRace, Debit, Credit,
       DuplicateKey, DuplicateReference, InsertRow, Commit, Enqueue, LogPayout, Finish, DeadlockVictim,
       Rollback, GoTo
  <2> QED
    BY <1>0, <2>1, GoToFrame DEF Fails, Rollback
<1> QED
  BY <1>1, <1>2

LEMMA UnevictingApproval ==
  ASSUME TypeOK, NEW a \in Approvals, ApprovalArrival(a) \/ ApprovalStep(a) \/ ApprovalFails(a),
         ~ EvictApproved(a)
  PROVE  /\ cache' = cache
         /\ \A d \in Approvals \ {a} : approval'[d] = approval[d]
         /\ approval[a].pc = "evict" => approval'[a].pc = "failed"
<1>0. TopUpsOK
  BY DEF TypeOK
<1>1. cache' = cache
  BY DEF ApprovalArrival, AdminApproves, WebhookReceived, WebhookUnknown, ApprovalArrives,
     ApprovalStep, ApprovalFails, MatchOldest, MatchNone, ReadTopUp, RefuseTopUp, CreditWallet,
     CommitApproval, LogApproval, FinishApproval
<1>2. \A d \in Approvals \ {a} : approval'[d] = approval[d]
  <2>1. CASE CommitApproval(a)
    BY <1>0, <2>1, ApprovalGoesFrame DEF CommitApproval
  <2> QED
    BY <2>1, ApprovalComes, ApprovalMatches, ApprovalSteps
<1>3. ASSUME approval[a].pc = "evict"
      PROVE  approval'[a].pc = "failed"
  <2>1. ApprovalFails(a)
    BY <1>3 DEF ApprovalArrival, AdminApproves, WebhookReceived, WebhookUnknown, ApprovalArrives,
       ApprovalStep, MatchOldest, MatchNone, ReadTopUp, RefuseTopUp, CreditWallet,
       CommitApproval, LogApproval, FinishApproval, ApprovalGoes
  <2> QED
    BY <1>0, <2>1, ApprovalGoesFrame DEF ApprovalFails
<1> QED
  BY <1>1, <1>2, <1>3

\* A step that leaves the money, and drops no key but those of Evicted.
LEMMA FreshFrame ==
  ASSUME TypeOK, FreshInv, balance' = balance,
         \A r \in Readers : reader'[r].pc = "fill" => reader'[r] = reader[r],
         \A m \in Merchants :
           cache'[m] = Miss \/ (cache'[m] = cache[m] /\ (EvictionDue(m) => EvictionDue(m)'))
  PROVE  FreshInv'
<1>1. FillsFresh'
  BY DEF FreshInv, FillsFresh
<1>2. ASSUME NEW m \in Merchants
      PROVE  cache'[m] \in {Miss, balance'[m]} \/ EvictionDue(m)'
  BY DEF FreshInv, StaleIsDue
<1> QED
  BY <1>1, <1>2 DEF FreshInv, StaleIsDue

\* What a commit does to the wallets it writes and to those it does not.
LEMMA FreshAtCommit ==
  ASSUME TypeOK, FreshInv, FillsApart, NEW p \in PayoutIds, Commit(p), UNCHANGED <<approval, reader>>
  PROVE  FreshInv'
<1>0. PayoutsOK /\ ReadersOK
  BY DEF TypeOK
<1>1. /\ payout[p].pc = "commit" /\ payout'[p].pc = "evict" /\ payout'[p].call = payout[p].call
      /\ \A q \in PayoutIds \ {p} : payout'[q] = payout[q]
      /\ balance' = Moved(p) /\ cache' = cache
  BY <1>0, GoToFrame DEF Commit
<1>2. \A m \in Merchants : m \notin {Sender(p), Recipient(p)} => balance'[m] = balance[m]
  BY <1>1 DEF Moved
<1>3. FillsFresh'
  BY <1>0, <1>1, <1>2 DEF FreshInv, FillsFresh, FillsApart, ReadersOK
<1>4. ASSUME NEW m \in Merchants, m \in {Sender(p), Recipient(p)} PROVE EvictionDue(m)'
  BY <1>1, <1>4 DEF EvictionDue, Sender, Recipient
<1>5. ASSUME NEW m \in Merchants, EvictionDue(m) PROVE EvictionDue(m)'
  BY <1>1, <1>5 DEF EvictionDue, Sender, Recipient, Beneficial
<1> QED
  BY <1>1, <1>2, <1>3, <1>4, <1>5 DEF FreshInv, StaleIsDue

LEMMA FreshAtApproval ==
  ASSUME TypeOK, FreshInv, FillsApart, NEW a \in Approvals, CommitApproval(a),
         UNCHANGED <<payout, reader>>
  PROVE  FreshInv'
<1>0. TopUpsOK /\ ReadersOK /\ WalletsOK
  BY DEF TypeOK
<1>1. /\ approval[a].pc = "commit" /\ approval'[a].pc = "evict"
      /\ approval'[a].topUp = approval[a].topUp
      /\ \A d \in Approvals \ {a} : approval'[d] = approval[d]
      /\ cache' = cache
  BY <1>0, ApprovalGoesFrame DEF CommitApproval
<1>2. \A m \in Merchants : m # Beneficial(a) => balance'[m] = balance[m]
  BY <1>0 DEF CommitApproval, WalletsOK
<1>3. FillsFresh'
  BY <1>0, <1>1, <1>2 DEF FreshInv, FillsFresh, FillsApart, ReadersOK
<1>4. ASSUME NEW m \in Merchants, m = Beneficial(a) PROVE EvictionDue(m)'
  BY <1>1, <1>4 DEF EvictionDue, Beneficial
<1>5. ASSUME NEW m \in Merchants, EvictionDue(m) PROVE EvictionDue(m)'
  BY <1>1, <1>5 DEF EvictionDue, Sender, Recipient, Beneficial
<1> QED
  BY <1>1, <1>2, <1>3, <1>4, <1>5 DEF FreshInv, StaleIsDue

LEMMA FreshPayout ==
  ASSUME TypeOK, PaidForInv, FreshInv, EvictionsDone', NEW p \in PayoutIds,
         Arrival(p) \/ PayoutStep(p) \/ Fails(p), ~ Commit(p),
         UNCHANGED <<balance, ledger, approval, reader>>
  PROVE  FreshInv'
<1>0. PayoutsOK /\ WalletsOK /\ \A q \in PayoutIds \ {p} : payout'[q] = payout[q]
  BY PayoutsFrame DEF TypeOK
<1>1. ASSUME NEW m \in Merchants, EvictionDue(m),
             payout[p].pc \notin {"evict", "evictPeer"} \/ m \notin {Sender(p), Recipient(p)}
      PROVE  EvictionDue(m)'
  BY <1>0, <1>1 DEF EvictionDue, Sender, Recipient, Beneficial
<1>2. CASE Evict(p)
  <2>1. /\ payout[p].pc = "evict"
        /\ payout'[p].pc = IF Internal(p) THEN "evictPeer" ELSE "enqueue"
        /\ payout'[p].call = payout[p].call
        /\ cache' = Evicted(Sender(p))
    BY <1>0, <1>2, GoToFrame DEF Evict
  <2>2. \A m \in Merchants : cache'[m] = IF m = Sender(p) THEN Miss ELSE cache[m]
    BY <1>0, <2>1 DEF Evicted, WalletsOK
  <2>3. ASSUME NEW m \in Merchants, m = Recipient(p) PROVE EvictionDue(m)'
    BY <2>1, <2>3, BeneficiariesAssumption DEF EvictionDue, Internal, Recipient
  <2> QED
    BY <1>1, <2>2, <2>3, FreshFrame
<1>3. CASE EvictPeer(p)
  <2>1. payout[p].pc = "evictPeer" /\ cache' = Evicted(Recipient(p))
    BY <1>0, <1>3, GoToFrame DEF EvictPeer
  <2>2. \A m \in Merchants : cache'[m] = IF m = Recipient(p) THEN Miss ELSE cache[m]
    BY <1>0, <2>1 DEF Evicted, WalletsOK
  <2>3. ASSUME NEW m \in Merchants, m # Recipient(p), EvictionDue(m) PROVE EvictionDue(m)'
    BY <1>0, <2>1, <2>3 DEF EvictionDue, Sender, Recipient, Beneficial
  <2> QED
    BY <2>2, <2>3, FreshFrame
<1>4. CASE ~ Evict(p) /\ ~ EvictPeer(p)
  <2>1. /\ cache' = cache
        /\ payout[p].pc \in {"evict", "evictPeer"} => payout'[p].pc = "failed"
    BY <1>4, UnevictingPayout
  <2>2. payout[p].pc \notin {"evict", "evictPeer"}
    BY <2>1 DEF PaidForInv, RowsAsCommitted, PaidFor, Paid, PayoutRows, EvictionsDone
  <2> QED
    BY <1>1, <2>1, <2>2, FreshFrame
<1> QED
  BY <1>2, <1>3, <1>4

LEMMA FreshTopUp ==
  ASSUME TypeOK, CreditsInv, FreshInv, EvictionsDone', NEW a \in Approvals,
         ApprovalArrival(a) \/ ApprovalStep(a) \/ ApprovalFails(a), ~ CommitApproval(a),
         UNCHANGED <<balance, ledger, payout, reader>>
  PROVE  FreshInv'
<1>0. TopUpsOK /\ WalletsOK
  BY DEF TypeOK
<1>1. CASE EvictApproved(a)
  <2>1. /\ cache' = Evicted(Beneficial(a))
        /\ \A d \in Approvals \ {a} : approval'[d] = approval[d]
    BY <1>0, <1>1, ApprovalGoesFrame DEF EvictApproved
  <2>2. \A m \in Merchants : cache'[m] = IF m = Beneficial(a) THEN Miss ELSE cache[m]
    BY <1>0, <2>1 DEF Evicted, WalletsOK
  <2>3. ASSUME NEW m \in Merchants, m # Beneficial(a), EvictionDue(m) PROVE EvictionDue(m)'
    BY <2>1, <2>3 DEF EvictionDue, Sender, Recipient, Beneficial
  <2> QED
    BY <2>2, <2>3, FreshFrame
<1>2. CASE ~ EvictApproved(a)
  <2>1. /\ cache' = cache
        /\ \A d \in Approvals \ {a} : approval'[d] = approval[d]
        /\ approval[a].pc = "evict" => approval'[a].pc = "failed"
    BY <1>2, UnevictingApproval
  <2>2. approval[a].pc # "evict"
    BY <2>1 DEF CreditsInv, PastCommit, Funded, FundingRows, EvictionsDone
  <2>3. ASSUME NEW m \in Merchants, EvictionDue(m) PROVE EvictionDue(m)'
    BY <2>1, <2>2, <2>3 DEF EvictionDue, Sender, Recipient, Beneficial
  <2> QED
    BY <2>1, <2>3, FreshFrame
<1> QED
  BY <1>1, <1>2

LEMMA FreshRead ==
  ASSUME TypeOK, FreshInv, WalletService
  PROVE  FreshInv'
<1>0. /\ UNCHANGED <<balance, payout, approval>>
      /\ \A m \in Merchants : EvictionDue(m)' <=> EvictionDue(m)
  <2>1. UNCHANGED <<balance, payout, approval>>
    BY OtherSteps DEF OtherService, walletVars, payoutVars, topUpVars
  <2> QED
    BY <2>1 DEF EvictionDue, Sender, Recipient, Beneficial
<1>1. ReadersOK /\ WalletsOK
  BY DEF TypeOK
<1>2. PICK r \in Readers :
        (\E m \in Merchants : CacheHit(r, m) \/ CacheMiss(r, m)) \/ ReaderStep(r) \/ ReadFails(r)
  BY DEF WalletService, WalletReadsNext
<1>3. CASE (\E m \in Merchants : CacheHit(r, m) \/ CacheMiss(r, m)) \/ ReadFails(r)
  <2>1. cache' = cache /\ \A d \in Readers : reader'[d].pc = "fill" => reader'[d] = reader[d]
    BY <1>1, <1>3 DEF CacheHit, CacheMiss, ReadFails, ReadersOK
  <2> QED
    BY <1>0, <2>1, FreshFrame
<1>4. CASE QueryWallet(r)
  <2>1. /\ cache' = cache
        /\ reader'[r].user = reader[r].user /\ reader'[r].seen = balance[reader[r].user]
        /\ \A d \in Readers \ {r} : reader'[d] = reader[d]
    BY <1>1, <1>4 DEF QueryWallet, ReadersOK
  <2> QED
    BY <1>0, <2>1 DEF FreshInv, FillsFresh, StaleIsDue
<1>5. CASE FillCache(r)
  <2>1. /\ cache' = [cache EXCEPT ![reader[r].user] = balance[reader[r].user]]
        /\ reader'[r].pc = "served"
        /\ \A d \in Readers \ {r} : reader'[d] = reader[d]
    BY <1>1, <1>5 DEF FillCache, ReadersOK, FreshInv, FillsFresh
  <2>2. \A m \in Merchants : cache'[m] \in {cache[m], balance[m]}
    BY <1>1, <2>1 DEF WalletsOK
  <2> QED
    BY <1>0, <2>1, <2>2 DEF FreshInv, FillsFresh, StaleIsDue
<1> QED
  BY <1>2, <1>3, <1>4, <1>5 DEF ReaderStep

LEMMA FreshNext ==
  ASSUME TypeOK, Solvent, PaidForInv, CreditsInv, FreshInv, FillsApart, EvictionsDone',
         [Next]_vars
  PROVE  FreshInv'
<1>0. TypeOK /\ PayoutsOK /\ TopUpsOK /\ ReadersOK /\ WalletsOK
  BY DEF TypeOK
<1>1. CASE PayoutService
  <2>1. PICK p \in PayoutIds : Arrival(p) \/ PayoutStep(p) \/ Fails(p)
    BY <1>1, PayoutsAssumption DEF PayoutService, PayoutsNext
  <2>2. UNCHANGED <<approval, reader>>
    BY <1>1 DEF PayoutService, NotPayouts, topUpVars, clientVars
  <2>3. CASE Commit(p)
    BY <2>2, <2>3, FreshAtCommit
  <2>4. CASE ~ Commit(p)
    <3>1. UNCHANGED <<balance, ledger>>
      BY <2>1, <2>4, GuardedStep, SolventGuarded, OtherPayoutSteps DEF Solvent, InsertRow, walletVars
    <3> QED
      BY <2>1, <2>2, <2>4, <3>1, FreshPayout
  <2> QED
    BY <2>3, <2>4
<1>2. CASE TopUpService
  <2>1. UNCHANGED <<payout, reader>>
    BY <1>2 DEF TopUpService, NotTopUps, payoutVars, clientVars
  <2>2. ASSUME NEW t \in TopUpIds, RequestTopUp(t) PROVE FreshInv'
    <3>1. UNCHANGED <<balance, cache, approval>>
      BY <2>2 DEF RequestTopUp, walletVars
    <3>2. \A m \in Merchants : EvictionDue(m) => EvictionDue(m)'
      BY <2>1, <3>1 DEF EvictionDue, Sender, Recipient, Beneficial
    <3> QED
      BY <2>1, <3>1, <3>2, FreshFrame
  <2>3. ASSUME NEW a \in Approvals, ApprovalArrival(a) \/ ApprovalStep(a) \/ ApprovalFails(a)
        PROVE  FreshInv'
    <3>1. CASE CommitApproval(a)
      BY <2>1, <3>1, FreshAtApproval
    <3>2. CASE ~ CommitApproval(a)
      <4>1. UNCHANGED <<balance, ledger>>
        BY <2>3, <3>2 DEF ApprovalArrival, AdminApproves, WebhookReceived, WebhookUnknown,
           ApprovalArrives, ApprovalStep, ApprovalFails, MatchOldest, MatchNone, ReadTopUp,
           RefuseTopUp, CreditWallet, EvictApproved, LogApproval, FinishApproval, walletVars
      <4> QED
        BY <2>1, <2>3, <3>2, <4>1, FreshTopUp
    <3> QED
      BY <3>1, <3>2
  <2> QED
    BY <1>2, <2>2, <2>3 DEF TopUpService, TopUpsNext
<1>3. CASE WalletService
  BY <1>3, FreshRead
<1>4. CASE Crash
  <2>1. /\ UNCHANGED <<balance, ledger, cache>>
        /\ \A r \in Readers : reader'[r].pc # "fill"
        /\ \A p \in PayoutIds : payout[p].pc \in {"evict", "evictPeer"} => payout'[p].pc = "lost"
        /\ \A a \in Approvals : approval[a].pc = "evict" => approval'[a].pc = "lost"
    BY <1>0, <1>4 DEF Crash, ReadersLost, PayoutsLost, ApprovalsLost, ReadersOK, PayoutsOK,
       TopUpsOK, Settled, Answered
  <2>2. \A p \in PayoutIds : payout[p].pc \notin {"evict", "evictPeer"}
    BY <2>1 DEF PaidForInv, RowsAsCommitted, PaidFor, Paid, PayoutRows, EvictionsDone
  <2>3. \A a \in Approvals : approval[a].pc # "evict"
    BY <2>1 DEF CreditsInv, PastCommit, Funded, FundingRows, EvictionsDone
  <2>4. \A m \in Merchants : ~ EvictionDue(m)
    BY <2>2, <2>3 DEF EvictionDue
  <2> QED
    BY <2>1, <2>4, FreshFrame
<1>5. ASSUME UNCHANGED <<balance, payout, approval, reader>>,
             \A m \in Merchants : cache'[m] \in {Miss, cache[m]}
      PROVE  FreshInv'
  <2>1. \A m \in Merchants : EvictionDue(m) => EvictionDue(m)'
    BY <1>5 DEF EvictionDue, Sender, Recipient, Beneficial
  <2> QED
    BY <1>5, <2>1, FreshFrame
<1>6. CASE \E m \in Merchants : Lapse(m)
  <2>1. UNCHANGED <<balance, payout, approval, reader>>
    BY <1>6 DEF Lapse, Expire, NotData, walletVars, payoutVars, topUpVars, clientVars
  <2>2. \A m \in Merchants : cache'[m] \in {Miss, cache[m]}
    BY <1>0, <1>6 DEF Lapse, Expire, Evicted, WalletsOK
  <2> QED
    BY <1>5, <2>1, <2>2
<1>7. CASE \/ Log \/ BeneficiaryService \/ ChannelService \/ RegistrationService
           \/ ListingService \/ ConnectionService \/ WorkerService \/ Idle \/ UNCHANGED vars
  <2>1. UNCHANGED <<balance, payout, approval>>
    BY <1>7, OtherSteps DEF OtherService, walletVars, payoutVars, topUpVars
  <2>2. UNCHANGED <<cache, reader>>
    BY <1>7 DEF Log, LogAction, NotData, BeneficiaryService, NotReviews, BeneficiariesNext,
       AddBeneficiary, StartReview, ReadToVerify, ReadToBlock, RefuseReview, ReviewStep,
       WriteVerified, WriteBlocked, WriteReview, ChannelService, NotChannels, ChannelsNext,
       ChannelArrival, ChannelStep, StartChannelCall, EndChannelCall, LookUpAccount, ReadToSelect,
       RefuseSelect, ReadToVerifyChannel, RefuseVerifyChannel, InsertChannel, DuplicateAccount,
       WriteSelected, WriteChannelVerified, RegistrationService, RegistrationNext, NotUsers,
       ListingService, ConnectionService, SocketsNext, WorkerService, NotJobs, Idle, vars,
       dataVars, clientVars
  <2> QED
    BY <1>5, <2>1, <2>2
<1> QED
  BY <1>1, <1>2, <1>3, <1>4, <1>6, <1>7 DEF Next

(* A commit between a read and its fill, and a call that dies with its     *)
(* evictions still to do, are the only ways to leave a stale balance in    *)
(* the cache: without them every key is right once no call is under way.   *)
THEOREM CacheFresh == Spec => FreshIfApart
<1>1. Init => FreshInv
  BY DEF Init, WalletDbInit, WalletReadsInit, FreshInv, FillsFresh, StaleIsDue
<1>2. TypeOK /\ Solvent /\ PaidForInv /\ CreditsInv /\ (FillsApart /\ EvictionsDone)
        /\ (FillsApart /\ EvictionsDone)' /\ FreshInv /\ [Next]_vars => FreshInv'
  BY FreshNext
<1>3. FreshInv => CacheNeverStale
  BY DEF FreshInv, StaleIsDue, EvictionDue, CacheNeverStale, Settled, Answered
<1> QED
  BY TypeCorrect, SolventAlways, PaidForAlways, CreditsAlways, <1>1, <1>2, <1>3, PTL
     DEF Spec, FreshIfApart
=============================================================================
