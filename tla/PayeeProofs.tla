----------------------------- MODULE PayeeProofs -----------------------------
(***************************************************************************)
(* Proofs about where money goes and where it comes from: beneficiaries,   *)
(* channels, and the payouts and top-ups that rest on them, for every      *)
(* choice of the constants of Backend.                                     *)
(***************************************************************************)
EXTENDS AccountProofs, PayeeHistory

(* A review in flight has read a row that exists, and rows are never       *)
(* deleted: a late update by id makes no row out of nothing, which the     *)
(* unique constraints would not have seen.                                 *)
ReviewsOfRows ==
  \A v \in Reviews :
    review[v].pc \in {"verify", "block"} => benStatus[review[v].beneficiary] # "none"

Reviewed == {"VERIFIED", "BLOCKED"}

\* What the writes of the beneficiary service come to.
LEMMA ReviewWrites ==
  ASSUME TypeOK, ReviewsOfRows, NEW v \in Reviews, ReviewStep(v)
  PROVE  \E s \in Reviewed :
           /\ benStatus' = [benStatus EXCEPT ![review[v].beneficiary] = s]
           /\ review' = [review EXCEPT ![v].pc = "done"]
           /\ review[v].beneficiary \in Beneficiaries
           /\ benStatus[review[v].beneficiary] # "none"
<1>1. PICK l \in {"verify", "block"}, s \in Reviewed :
        /\ review[v].pc = l
        /\ review' = [review EXCEPT ![v].pc = "done"]
        /\ benStatus' = [benStatus EXCEPT ![review[v].beneficiary] = s]
  BY DEF ReviewStep, WriteVerified, WriteBlocked, WriteReview, Reviewed
<1>2. review[v].pc \in {"verify", "block"}
  BY <1>1
<1>3. review[v].beneficiary \in Beneficiaries
  BY <1>2 DEF TypeOK, BeneficiariesOK
<1>4. benStatus[review[v].beneficiary] # "none"
  BY <1>2 DEF ReviewsOfRows
<1> QED
  BY <1>1, <1>3, <1>4

LEMMA PayeesStep ==
  ASSUME TypeOK, ReviewsOfRows, BeneficiaryService
  PROVE  /\ ReviewsOfRows'
         /\ \A b \in Beneficiaries : benStatus[b] \in Reviewed => benStatus'[b] \in Reviewed
<1>0. /\ benStatus \in [Beneficiaries -> Existing \union {"none"}]
      /\ \A v \in Reviews : review[v].pc # "idle" => review[v].beneficiary \in Beneficiaries
      /\ DOMAIN review = Reviews
  BY DEF TypeOK, BeneficiariesOK
<1>1. CASE \E b \in Beneficiaries : AddBeneficiary(b)
  <2>1. PICK b \in Beneficiaries :
          /\ benStatus[b] = "none"
          /\ benStatus' = [benStatus EXCEPT ![b] = "PENDING"]
          /\ review' = review
    BY <1>1 DEF AddBeneficiary
  <2>2. \A c \in Beneficiaries : benStatus'[c] = IF c = b THEN "PENDING" ELSE benStatus[c]
    BY <1>0, <2>1
  <2>3. ReviewsOfRows'
    BY <1>0, <2>1, <2>2 DEF ReviewsOfRows
  <2> QED
    BY <2>1, <2>2, <2>3 DEF Reviewed
<1>2. CASE \E v \in Reviews, b \in Beneficiaries :
             ReadToVerify(v, b) \/ ReadToBlock(v, b) \/ RefuseReview(v, b)
  <2>1. PICK v \in Reviews, b \in Beneficiaries, l \in {"verify", "block", "done"} :
          /\ review' = [review EXCEPT ![v] = [pc |-> l, beneficiary |-> b]]
          /\ benStatus' = benStatus
          /\ l # "done" => benStatus[b] # "none"
    BY <1>2 DEF ReadToVerify, ReadToBlock, RefuseReview, StartReview
  <2> QED
    BY <1>0, <2>1 DEF ReviewsOfRows
<1>3. CASE \E v \in Reviews : ReviewStep(v)
  <2>1. PICK v \in Reviews, s \in Reviewed :
          /\ benStatus' = [benStatus EXCEPT ![review[v].beneficiary] = s]
          /\ review' = [review EXCEPT ![v].pc = "done"]
          /\ review[v].beneficiary \in Beneficiaries
          /\ benStatus[review[v].beneficiary] # "none"
    BY <1>3, ReviewWrites
  <2>2. \A b \in Beneficiaries :
          /\ benStatus'[b] = "none" <=> benStatus[b] = "none"
          /\ benStatus[b] \in Reviewed => benStatus'[b] \in Reviewed
    BY <1>0, <2>1 DEF Reviewed
  <2>3. \A w \in Reviews :
          review'[w].pc \in {"verify", "block"} => review'[w] = review[w]
    BY <1>0, <2>1
  <2>4. \A w \in Reviews : review[w].pc \in {"verify", "block"} =>
                             review[w].beneficiary \in Beneficiaries
    BY <1>0
  <2> QED
    BY <2>2, <2>3, <2>4 DEF ReviewsOfRows
<1> QED
  BY <1>1, <1>2, <1>3 DEF BeneficiaryService, BeneficiariesNext

\* No step of any service takes a reviewed payee back.
LEMMA PayeesNext ==
  ASSUME TypeOK, ReviewsOfRows, [Next]_vars
  PROVE  /\ ReviewsOfRows'
         /\ \A b \in Beneficiaries : benStatus[b] \in Reviewed => benStatus'[b] \in Reviewed
<1>1. CASE BeneficiaryService
  BY <1>1, PayeesStep
<1>2. CASE Crash
  <2>1. /\ benStatus' = benStatus
        /\ \A v \in Reviews : review'[v] = IF review[v].pc = "idle" THEN review[v]
                                           ELSE [review[v] EXCEPT !.pc = "done"]
    BY <1>2 DEF Crash, ReviewsLost
  <2>2. \A v \in Reviews : review'[v].pc \notin {"verify", "block"}
    BY <2>1 DEF TypeOK, BeneficiariesOK
  <2> QED
    BY <2>1, <2>2 DEF ReviewsOfRows
<1>3. CASE UNCHANGED beneficiaryVars
  BY <1>3 DEF beneficiaryVars, ReviewsOfRows
<1> QED
  BY <1>1, <1>2, <1>3, OwnService

LEMMA PayeesAlways == Spec => []ReviewsOfRows
<1>1. Init => ReviewsOfRows
  BY DEF Init, BeneficiariesInit, ReviewsOfRows
<1>2. TypeOK /\ ReviewsOfRows /\ [Next]_vars => ReviewsOfRows'
  BY PayeesNext
<1> QED
  BY TypeCorrect, <1>1, <1>2, PTL DEF Spec

-----------------------------------------------------------------------------
(* A payout past the check of its beneficiary, and every row it leaves, is *)
(* to a payee of the sender that an administrator has looked at.           *)

PastCheck == {"wallet", "debit", "credit", "insert", "commit"}

PaysOwnPayee(p) ==
  /\ Owner[payout[p].call.beneficiary] = Sender(p)
  /\ benStatus[payout[p].call.beneficiary] \in Reviewed

\* The second part also says that the call a row came from has not changed.
PaidInv ==
  /\ \A p \in PayoutIds : payout[p].pc \in PastCheck => PaysOwnPayee(p)
  /\ \A r \in PayoutRows :
       /\ payout[r.id].pc # "idle"
       /\ r.user = Sender(r.id)
       /\ PaysOwnPayee(r.id)

LEMMA RowIds ==
  ASSUME TypeOK
  PROVE  \A r \in PayoutRows : r.id \in PayoutIds
  BY DEF TypeOK, WalletsOK, Rows, PayoutRows

\* Steps that write rows, and take calls past the check, only of such payouts.
LEMMA PaidFrame ==
  ASSUME TypeOK, PaidInv,
         \A r \in PayoutRows' : r \in PayoutRows \/
           (/\ r.id \in PayoutIds /\ payout[r.id].pc # "idle"
            /\ r.user = Sender(r.id) /\ PaysOwnPayee(r.id)),
         \A b \in Beneficiaries : benStatus[b] \in Reviewed => benStatus'[b] \in Reviewed,
         \A p \in PayoutIds : payout[p].pc # "idle" =>
           payout'[p].call = payout[p].call /\ payout'[p].pc # "idle",
         \A p \in PayoutIds : payout'[p].pc \in PastCheck =>
           payout[p].pc # "idle" /\ (payout[p].pc \in PastCheck \/ PaysOwnPayee(p))
  PROVE  PaidInv'
<1>1. \A p \in PayoutIds : payout[p].pc # "idle" => payout[p].call.beneficiary \in Beneficiaries
  BY CallFields DEF TypeOK, PayoutsOK
<1>2. \A p \in PayoutIds :
        payout[p].pc # "idle" /\ PaysOwnPayee(p) => PaysOwnPayee(p)'
  BY <1>1 DEF PaysOwnPayee, Sender
<1>3. ASSUME NEW p \in PayoutIds, payout'[p].pc \in PastCheck PROVE PaysOwnPayee(p)'
  BY <1>2, <1>3 DEF PaidInv
<1>4. ASSUME NEW r \in PayoutRows'
      PROVE  /\ payout'[r.id].pc # "idle"
             /\ r.user = Sender(r.id)'
             /\ PaysOwnPayee(r.id)'
  <2>1. /\ r.id \in PayoutIds
        /\ payout[r.id].pc # "idle" /\ r.user = Sender(r.id) /\ PaysOwnPayee(r.id)
    BY <1>4, RowIds DEF PaidInv
  <2> QED
    BY <1>2, <2>1 DEF Sender
<1> QED
  BY <1>3, <1>4 DEF PaidInv

\* What a step of payout p leaves, and what takes it past the check.
LEMMA PaidSteps ==
  ASSUME TypeOK, NEW p \in PayoutIds, Arrival(p) \/ PayoutStep(p) \/ Fails(p)
  PROVE  /\ payout'[p].pc # "idle"
         /\ payout[p].pc # "idle" => payout'[p].call = payout[p].call
         /\ payout'[p].pc \in PastCheck => payout[p].pc \in PastCheck \/ CheckBeneficiary(p)
<1>0. PayoutsOK
  BY DEF TypeOK
<1> USE DEF PastCheck
<1>1. CASE Arrival(p)
  <2>1. PICK c \in Calls, l \in {"replayed", "conflict", "beneficiary"} : Arrive(p, c, l)
    BY <1>1 DEF Arrival, ReplayExisting, KeyTakenByOther, Admit
  <2> QED
    BY <1>0, <2>1 DEF Arrive, PayoutsOK
<1>2. CASE ReadWallet(p)
  BY <1>0, <1>2 DEF ReadWallet, PayoutsOK
<1>3. CASE InsertRow(p) \/ DuplicateReference(p)
  BY <1>0, <1>3, InsertFrame, ClashFrame
<1>4. ASSUME NEW from, NEW to, GoTo(p, from, to), to # "idle",
             to \in PastCheck => from \in PastCheck \/ CheckBeneficiary(p)
      PROVE  /\ payout'[p].pc # "idle"
             /\ payout[p].pc # "idle" => payout'[p].call = payout[p].call
             /\ payout'[p].pc \in PastCheck => payout[p].pc \in PastCheck \/ CheckBeneficiary(p)
  BY <1>0, <1>4, GoToFrame
<1>5. CASE CheckBeneficiary(p)
  <2>1. GoTo(p, "beneficiary", "wallet")
    BY <1>5 DEF CheckBeneficiary
  <2> QED
    BY <1>4, <1>5, <2>1
<1>6. CASE Debit(p)
  <2>1. GoTo(p, "debit", "credit") \/ GoTo(p, "debit", "insert")
    BY <1>6 DEF Debit
  <2> QED
    BY <1>4, <2>1
<1>7. CASE Evict(p)
  <2>1. GoTo(p, "evict", "evictPeer") \/ GoTo(p, "evict", "enqueue")
    BY <1>7 DEF Evict
  <2> QED
    BY <1>4, <2>1
<1>8. CASE Credit(p) \/ Commit(p)
  BY <1>4, <1>8 DEF Credit, Commit
<1>9. CASE RefuseBeneficiary(p) \/ RefuseWallet(p) \/ EvictPeer(p) \/ Enqueue(p)
           \/ LogPayout(p) \/ Finish(p)
  BY <1>4, <1>9 DEF RefuseBeneficiary, RefuseWallet, EvictPeer, Enqueue, LogPayout, Finish
<1>10. CASE LoseRace(p) \/ DuplicateKey(p) \/ DeadlockVictim(p) \/ Fails(p)
  <2>1. \E from : \E to \in {"conflict", "failed"} : GoTo(p, from, to)
    BY <1>10 DEF LoseRace, DuplicateKey, DeadlockVictim, Fails, Rollback
  <2> QED
    BY <1>4, <2>1
<1> QED
  BY <1>1, <1>2, <1>3, <1>5, <1>6, <1>7, <1>8, <1>9, <1>10 DEF PayoutStep

LEMMA PaidStep ==
  ASSUME TypeOK, PaidInv, NEW p \in PayoutIds, Arrival(p) \/ PayoutStep(p) \/ Fails(p),
         benStatus' = benStatus
  PROVE  PaidInv'
<1>1. \A q \in PayoutIds \ {p} : payout'[q] = payout[q]
  BY PayoutsFrame
<1>2. /\ payout'[p].pc # "idle"
      /\ payout[p].pc # "idle" => payout'[p].call = payout[p].call
      /\ payout'[p].pc \in PastCheck => payout[p].pc \in PastCheck \/ CheckBeneficiary(p)
  BY PaidSteps
<1>3. \A r \in PayoutRows' : r \in PayoutRows \/
        (/\ r.id \in PayoutIds /\ payout[r.id].pc # "idle"
         /\ r.user = Sender(r.id) /\ PaysOwnPayee(r.id))
  <2>1. CASE Commit(p)
    <3>1. ledger' = ledger \union {PayoutRow(p)} /\ payout[p].pc = "commit"
      BY <2>1 DEF Commit, GoTo
    <3>2. PaysOwnPayee(p)
      BY <3>1 DEF PaidInv, PastCheck
    <3>3. PayoutRow(p).id = p /\ PayoutRow(p).user = Sender(p)
      BY DEF PayoutRow
    <3> QED
      BY <3>1, <3>2, <3>3 DEF PayoutRows
  <2>2. CASE InsertRow(p)
    BY <2>2 DEF InsertRow, walletVars, PayoutRows
  <2>3. CASE ~ Commit(p) /\ ~ InsertRow(p)
    <3>1. ledger' = ledger
      BY <2>3, OtherPayoutSteps
    <3> QED
      BY <3>1 DEF PayoutRows
  <2> QED
    BY <2>1, <2>2, <2>3
<1>4. CheckBeneficiary(p) => payout[p].pc # "idle" /\ PaysOwnPayee(p)
  BY DEF CheckBeneficiary, GoTo, Payable, PaysOwnPayee, Reviewed, Sender
<1>5. payout'[p].pc \in PastCheck =>
        payout[p].pc # "idle" /\ (payout[p].pc \in PastCheck \/ PaysOwnPayee(p))
  BY <1>2, <1>4 DEF PastCheck
<1>6. \A q \in PayoutIds : payout'[q].pc \in PastCheck =>
        payout[q].pc # "idle" /\ (payout[q].pc \in PastCheck \/ PaysOwnPayee(q))
  BY <1>1, <1>5 DEF PastCheck
<1>7. \A q \in PayoutIds : payout[q].pc # "idle" =>
        payout'[q].call = payout[q].call /\ payout'[q].pc # "idle"
  BY <1>1, <1>2
<1> QED
  BY <1>3, <1>6, <1>7, PaidFrame

\* The top-up service writes rows of its own type.
LEMMA TopUpsWriteNoPayout ==
  ASSUME TopUpsNext
  PROVE  PayoutRows' = PayoutRows
<1>1. CASE \E t \in TopUpIds : RequestTopUp(t)
  BY <1>1 DEF RequestTopUp, walletVars, PayoutRows
<1>2. ASSUME NEW a \in Approvals, ApprovalArrival(a)
      PROVE  PayoutRows' = PayoutRows
  BY <1>2 DEF ApprovalArrival, AdminApproves, WebhookReceived, WebhookUnknown, ApprovalArrives,
     walletVars, PayoutRows
<1>3. ASSUME NEW a \in Approvals, CommitApproval(a)
      PROVE  PayoutRows' = PayoutRows
  BY <1>3 DEF CommitApproval, TopUpRow, PayoutRows
<1>4. ASSUME NEW a \in Approvals, ApprovalStep(a) \/ ApprovalFails(a), ~ CommitApproval(a)
      PROVE  PayoutRows' = PayoutRows
  BY <1>4 DEF ApprovalStep, ApprovalFails, MatchOldest, MatchNone, ReadTopUp, RefuseTopUp,
     CreditWallet, EvictApproved, LogApproval, FinishApproval, walletVars, PayoutRows
<1> QED
  BY <1>1, <1>2, <1>3, <1>4 DEF TopUpsNext

LEMMA PaidNext ==
  ASSUME TypeOK, ReviewsOfRows, PaidInv, [Next]_vars
  PROVE  PaidInv'
<1>1. \A b \in Beneficiaries : benStatus[b] \in Reviewed => benStatus'[b] \in Reviewed
  BY PayeesNext
<1>2. ASSUME payout' = payout, PayoutRows' = PayoutRows
      PROVE  PaidInv'
  <2>1. \A p \in PayoutIds : payout'[p].pc \in PastCheck =>
          payout[p].pc # "idle" /\ payout[p].pc \in PastCheck
    BY <1>2 DEF PastCheck
  <2> QED
    BY <1>1, <1>2, <2>1, PaidFrame
<1>3. CASE \/ Log \/ (\E m \in Merchants : Lapse(m)) \/ OtherService \/ Idle \/ UNCHANGED vars
  BY <1>2, <1>3, OtherSteps DEF walletVars, payoutVars, PayoutRows
<1>4. CASE PayoutService
  BY <1>4, PaidStep, PayoutsAssumption DEF PayoutService, PayoutsNext, NotPayouts, accountVars,
     beneficiaryVars
<1>5. CASE TopUpService
  BY <1>2, <1>5, TopUpsWriteNoPayout DEF TopUpService, NotTopUps, payoutVars
<1>6. CASE Crash
  <2>1. ledger' = ledger /\ benStatus' = benStatus
    BY <1>6 DEF Crash
  <2>2. ASSUME NEW p \in PayoutIds
        PROVE  /\ payout[p].pc # "idle" =>
                    payout'[p].call = payout[p].call /\ payout'[p].pc # "idle"
               /\ payout'[p].pc \notin PastCheck
    <3>1. payout'[p] = IF payout[p].pc \in {"idle"} \union Settled THEN payout[p]
                       ELSE [payout[p] EXCEPT !.pc = "lost"]
      BY <1>6 DEF Crash, PayoutsLost
    <3> QED
      BY <3>1 DEF TypeOK, PayoutsOK, PastCheck, Settled
  <2> QED
    BY <1>1, <2>1, <2>2, PaidFrame DEF PayoutRows
<1> QED
  BY <1>3, <1>4, <1>5, <1>6 DEF Next, OtherService

LEMMA PaidAlways == Spec => []PaidInv
<1>1. Init => PaidInv
  BY DEF Init, PayoutsInit, WalletDbInit, PaidInv, PayoutRows, PastCheck
<1>2. TypeOK /\ ReviewsOfRows /\ PaidInv /\ [Next]_vars => PaidInv'
  BY PaidNext
<1> QED
  BY TypeCorrect, PayeesAlways, <1>1, <1>2, PTL DEF Spec

-----------------------------------------------------------------------------
(* What the row of a beneficiary says later does not tell whether it was   *)
(* verified when a payout to it was checked; the history does.  A call     *)
(* that is past the check was vetted then, and so was every row.           *)

VettedInv ==
  /\ \A p \in PayoutIds : payout[p].pc \in PastCheck => p \in vetted
  /\ \A r \in PayoutRows : r.id \in vetted

\* Nothing but the commit of a payout writes a row for it.
LEMMA RowsFromCommits ==
  ASSUME TypeOK, [Next]_vars
  PROVE  \A r \in PayoutRows' : r \in PayoutRows \/ (r.id \in PayoutIds /\ payout[r.id].pc = "commit")
<1>1. CASE PayoutRows' = PayoutRows
  BY <1>1
<1>2. CASE \/ Log \/ (\E m \in Merchants : Lapse(m)) \/ OtherService \/ Idle \/ UNCHANGED vars
  BY <1>1, <1>2, OtherSteps DEF walletVars, PayoutRows
<1>3. CASE PayoutService
  <2>1. PICK p \in PayoutIds : Arrival(p) \/ PayoutStep(p) \/ Fails(p)
    BY <1>3, PayoutsAssumption DEF PayoutService, PayoutsNext
  <2>2. CASE Commit(p)
    BY <2>2 DEF Commit, GoTo, PayoutRow, PayoutRows
  <2>3. CASE ~ Commit(p)
    BY <1>1, <2>1, <2>3, OtherPayoutSteps DEF InsertRow, walletVars, PayoutRows
  <2> QED
    BY <2>2, <2>3
<1>4. CASE TopUpService
  BY <1>1, <1>4, TopUpsWriteNoPayout DEF TopUpService
<1>5. CASE Crash
  BY <1>1, <1>5 DEF Crash, PayoutRows
<1> QED
  BY <1>2, <1>3, <1>4, <1>5 DEF Next, OtherService

\* A call gets past the check by the step that finds its beneficiary verified.
LEMMA CheckedWhenVerified ==
  ASSUME TypeOK, [Next]_vars, NEW p \in PayoutIds, payout'[p].pc \in PastCheck
  PROVE  payout[p].pc \in PastCheck \/ p \in VettedNow
<1>1. CheckBeneficiary(p) => p \in VettedNow
  BY DEF CheckBeneficiary, GoTo, Payable, VettedNow, BeforeCommit
<1>2. CASE payout' = payout
  BY <1>2
<1>3. CASE PayoutService
  <2>1. PICK q \in PayoutIds : Arrival(q) \/ PayoutStep(q) \/ Fails(q)
    BY <1>3, PayoutsAssumption DEF PayoutService, PayoutsNext
  <2>2. CASE q = p
    BY <1>1, <2>1, <2>2, PaidSteps
  <2>3. CASE q # p
    BY <2>1, <2>3, PayoutsFrame
  <2> QED
    BY <2>2, <2>3
<1>4. CASE Crash
  <2>1. payout'[p] = IF payout[p].pc \in {"idle"} \union Settled THEN payout[p]
                     ELSE [payout[p] EXCEPT !.pc = "lost"]
    BY <1>4 DEF Crash, PayoutsLost
  <2> QED
    BY <2>1 DEF TypeOK, PayoutsOK, PastCheck
<1>5. CASE \/ Log \/ (\E m \in Merchants : Lapse(m)) \/ OtherService \/ Idle \/ UNCHANGED vars
  BY <1>2, <1>5, OtherSteps DEF payoutVars
<1>6. CASE TopUpService
  BY <1>2, <1>6 DEF TopUpService, NotTopUps, payoutVars
<1> QED
  BY <1>3, <1>4, <1>5, <1>6 DEF Next, OtherService

LEMMA VettedNext == TypeOK /\ VettedInv /\ [HistoryNext]_historyVars => VettedInv'
<1> SUFFICES ASSUME TypeOK, VettedInv, [HistoryNext]_historyVars PROVE VettedInv'
  OBVIOUS
<1>1. [Next]_vars
  BY DEF HistoryNext, historyVars
<1>2. CASE HistoryNext
  <2>1. vetted' = vetted \union VettedNow
    BY <1>2 DEF HistoryNext
  <2>2. \A p \in PayoutIds : payout'[p].pc \in PastCheck => p \in vetted'
    BY <1>1, <2>1, CheckedWhenVerified DEF VettedInv
  <2>3. \A r \in PayoutRows' : r.id \in vetted'
    BY <1>1, <2>1, RowsFromCommits DEF VettedInv, PastCheck
  <2> QED
    BY <2>2, <2>3 DEF VettedInv
<1>3. CASE UNCHANGED historyVars
  <2>1. vetted' = vetted /\ payout' = payout /\ ledger' = ledger
    BY <1>3 DEF historyVars, vars, dataVars, walletVars, payoutVars
  <2> QED
    BY <2>1 DEF VettedInv, PayoutRows
<1> QED
  BY <1>2, <1>3

(* Money leaves a wallet only for a payee of its owner that was verified   *)
(* at some moment while the payout was on its way to its commit, however   *)
(* late that is and whatever the reviews that run beside it.               *)
THEOREM PaidToVerified == HistorySpec => []PaidWhileVerified
<1>1. HistorySpec => Spec
  <2>1. HistoryInit => Init
    BY DEF HistoryInit
  <2>2. [HistoryNext]_historyVars => [Next]_vars
    BY DEF HistoryNext, historyVars
  <2> QED
    BY <2>1, <2>2, PTL DEF HistorySpec, Spec
<1>2. HistoryInit => VettedInv
  BY DEF HistoryInit, Init, PayoutsInit, WalletDbInit, VettedInv, PayoutRows, PastCheck
<1>3. PaidInv /\ VettedInv => PaidWhileVerified
  BY DEF PaidInv, PaysOwnPayee, Sender, VettedInv, PaidWhileVerified
<1> QED
  BY TypeCorrect, PaidAlways, VettedNext, <1>1, <1>2, <1>3, PTL DEF HistorySpec

-----------------------------------------------------------------------------
(* Channels.  A selection in flight has read a channel that is its user's  *)
(* and verified, and no step takes either back, so it still is when the    *)
(* update by id is made.                                                   *)

CallsOfChannels ==
  \A o \in ChannelCalls :
    LET c == channelCall[o].channel IN
      /\ channelCall[o].pc = "select" => chStatus[c] = "VERIFIED" /\ Holder[c] = channelCall[o].user
      /\ channelCall[o].pc = "verify" => chStatus[c] # "none"

ChannelsInv == OneChannelPerAccount /\ SelectedIsVerifiedAndOwn /\ CallsOfChannels

VerifiedStay == \A c \in Channels : chStatus[c] = "VERIFIED" => chStatus'[c] = "VERIFIED"

\* A call comes in and changes no row.
LEMMA ChannelCallComes ==
  ASSUME TypeOK, ChannelsInv, NEW o \in ChannelCalls, NEW m, NEW c \in Channels, NEW l,
         StartChannelCall(o, m, c, l),
         l = "select" => chStatus[c] = "VERIFIED" /\ Holder[c] = m,
         l = "verify" => chStatus[c] # "none"
  PROVE  ChannelsInv' /\ VerifiedStay
<1>1. /\ channelCall' = [channelCall EXCEPT ![o] = [pc |-> l, channel |-> c, user |-> m]]
      /\ UNCHANGED <<chStatus, selected>>
  BY DEF StartChannelCall
<1>2. DOMAIN channelCall = ChannelCalls
  BY DEF TypeOK, ChannelsOK
<1>3. CallsOfChannels'
  BY <1>1, <1>2 DEF ChannelsInv, CallsOfChannels
<1> QED
  BY <1>1, <1>3 DEF ChannelsInv, OneChannelPerAccount, SelectedIsVerifiedAndOwn, VerifiedStay

\* A call ends, and what it writes unmakes nothing.
LEMMA ChannelCallEnds ==
  ASSUME TypeOK, ChannelsInv, NEW o \in ChannelCalls,
         channelCall' = [channelCall EXCEPT ![o].pc = "done"],
         VerifiedStay,
         \A c \in Channels : chStatus[c] # "none" => chStatus'[c] # "none"
  PROVE  CallsOfChannels'
<1>1. \A q \in ChannelCalls :
        /\ channelCall'[q].pc \in {"select", "verify"} => channelCall'[q] = channelCall[q]
        /\ channelCall[q].pc # "idle" => channelCall[q].channel \in Channels
  BY DEF TypeOK, ChannelsOK
<1> QED
  BY <1>1 DEF ChannelsInv, CallsOfChannels, VerifiedStay

LEMMA ChannelArrives ==
  ASSUME TypeOK, ChannelsInv, NEW o \in ChannelCalls, ChannelArrival(o)
  PROVE  ChannelsInv' /\ VerifiedStay
<1>1. PICK c \in Channels :
        \/ LookUpAccount(o, c)
        \/ ReadToVerifyChannel(o, c) \/ RefuseVerifyChannel(o, c)
        \/ \E m \in Merchants : ReadToSelect(o, m, c) \/ RefuseSelect(o, m, c)
  BY DEF ChannelArrival
<1>2. CASE LookUpAccount(o, c)
  <2>1. StartChannelCall(o, NoUser, c, "done") \/ StartChannelCall(o, NoUser, c, "insert")
    BY <1>2 DEF LookUpAccount
  <2> QED
    BY <2>1, ChannelCallComes
<1>3. CASE ReadToVerifyChannel(o, c) \/ RefuseVerifyChannel(o, c)
  BY <1>3, ChannelCallComes DEF ReadToVerifyChannel, RefuseVerifyChannel
<1>4. CASE \E m \in Merchants : ReadToSelect(o, m, c) \/ RefuseSelect(o, m, c)
  BY <1>4, ChannelCallComes DEF ReadToSelect, RefuseSelect
<1> QED
  BY <1>1, <1>2, <1>3, <1>4

LEMMA ChannelWrites ==
  ASSUME TypeOK, ChannelsInv, NEW o \in ChannelCalls, ChannelStep(o)
  PROVE  ChannelsInv' /\ VerifiedStay
<1> DEFINE c == channelCall[o].channel
<1>0. /\ chStatus \in [Channels -> {"none", "PENDING", "VERIFIED"}]
      /\ selected \in [Merchants -> Channels \union {NoChannel}]
      /\ channelCall[o].pc # "idle" => c \in Channels
      /\ channelCall[o].pc = "select" => channelCall[o].user \in Merchants
  BY DEF TypeOK, ChannelsOK
<1>1. CASE InsertChannel(o)
  <2>1. /\ c \in Channels
        /\ \A d \in Channels : chStatus[d] # "none" => ~ SameAccount(c, d)
        /\ chStatus' = [chStatus EXCEPT ![c] = "PENDING"]
        /\ selected' = selected
        /\ channelCall' = [channelCall EXCEPT ![o].pc = "done"]
    BY <1>0, <1>1 DEF InsertChannel, EndChannelCall, Known
  <2>2. chStatus[c] = "none"
    BY <2>1 DEF SameAccount
  <2> HIDE DEF c
  <2>3. \A d \in Channels : chStatus'[d] = IF d = c THEN "PENDING" ELSE chStatus[d]
    BY <1>0, <2>1
  <2>4. VerifiedStay /\ \A d \in Channels : chStatus[d] # "none" => chStatus'[d] # "none"
    BY <2>2, <2>3 DEF VerifiedStay
  <2>5. CallsOfChannels'
    BY <2>1, <2>4, ChannelCallEnds
  <2>6. OneChannelPerAccount'
    BY <2>1, <2>2, <2>3 DEF ChannelsInv, OneChannelPerAccount, SameAccount
  <2>7. SelectedIsVerifiedAndOwn'
    BY <1>0, <2>1, <2>4 DEF ChannelsInv, SelectedIsVerifiedAndOwn, VerifiedStay
  <2> QED
    BY <2>4, <2>5, <2>6, <2>7 DEF ChannelsInv
<1>2. CASE DuplicateAccount(o)
  <2>1. UNCHANGED <<chStatus, selected>> /\ channelCall' = [channelCall EXCEPT ![o].pc = "done"]
    BY <1>2 DEF DuplicateAccount, EndChannelCall
  <2>2. VerifiedStay /\ CallsOfChannels'
    BY <2>1, ChannelCallEnds DEF VerifiedStay
  <2> QED
    BY <2>1, <2>2 DEF ChannelsInv, OneChannelPerAccount, SelectedIsVerifiedAndOwn
<1>3. CASE WriteSelected(o)
  <2>1. /\ channelCall[o].pc = "select"
        /\ chStatus' = chStatus
        /\ selected' = [selected EXCEPT ![channelCall[o].user] = c]
        /\ channelCall' = [channelCall EXCEPT ![o].pc = "done"]
    BY <1>3 DEF WriteSelected, EndChannelCall
  <2>2. chStatus[c] = "VERIFIED" /\ Holder[c] = channelCall[o].user
    BY <2>1 DEF ChannelsInv, CallsOfChannels
  <2>3. VerifiedStay /\ CallsOfChannels'
    BY <2>1, ChannelCallEnds DEF VerifiedStay
  <2>4. SelectedIsVerifiedAndOwn'
    BY <1>0, <2>1, <2>2 DEF ChannelsInv, SelectedIsVerifiedAndOwn
  <2> QED
    BY <2>1, <2>3, <2>4 DEF ChannelsInv, OneChannelPerAccount
<1>4. CASE WriteChannelVerified(o)
  <2>1. /\ channelCall[o].pc = "verify" /\ c \in Channels
        /\ chStatus' = [chStatus EXCEPT ![c] = "VERIFIED"]
        /\ selected' = selected
        /\ channelCall' = [channelCall EXCEPT ![o].pc = "done"]
    BY <1>0, <1>4 DEF WriteChannelVerified, EndChannelCall
  <2>2. chStatus[c] # "none"
    BY <2>1 DEF ChannelsInv, CallsOfChannels
  <2> HIDE DEF c
  <2>3. \A d \in Channels : chStatus'[d] = IF d = c THEN "VERIFIED" ELSE chStatus[d]
    BY <1>0, <2>1
  <2>4. VerifiedStay /\ \A d \in Channels : chStatus'[d] # "none" <=> chStatus[d] # "none"
    BY <2>2, <2>3 DEF VerifiedStay
  <2>5. CallsOfChannels'
    BY <2>1, <2>4, ChannelCallEnds
  <2>6. OneChannelPerAccount'
    BY <2>4 DEF ChannelsInv, OneChannelPerAccount
  <2>7. SelectedIsVerifiedAndOwn'
    BY <1>0, <2>1, <2>4 DEF ChannelsInv, SelectedIsVerifiedAndOwn, VerifiedStay
  <2> QED
    BY <2>4, <2>5, <2>6, <2>7 DEF ChannelsInv
<1> QED
  BY <1>1, <1>2, <1>3, <1>4 DEF ChannelStep

LEMMA ChannelsNextKeeps ==
  ASSUME TypeOK, ChannelsInv, [Next]_vars
  PROVE  ChannelsInv' /\ VerifiedStay
<1>1. CASE ChannelService
  BY <1>1, ChannelArrives, ChannelWrites DEF ChannelService, ChannelsNext
<1>2. CASE Crash
  <2>1. /\ UNCHANGED <<chStatus, selected>>
        /\ \A o \in ChannelCalls : channelCall'[o] = IF channelCall[o].pc = "idle" THEN channelCall[o]
                                                   ELSE [channelCall[o] EXCEPT !.pc = "done"]
    BY <1>2 DEF Crash, ChannelCallsLost
  <2>2. \A o \in ChannelCalls : channelCall'[o].pc \notin {"select", "verify"}
    BY <2>1 DEF TypeOK, ChannelsOK
  <2> QED
    BY <2>1, <2>2 DEF ChannelsInv, OneChannelPerAccount, SelectedIsVerifiedAndOwn, CallsOfChannels,
       VerifiedStay
<1>3. CASE UNCHANGED channelVars
  BY <1>3 DEF channelVars, ChannelsInv, OneChannelPerAccount, SelectedIsVerifiedAndOwn,
     CallsOfChannels, VerifiedStay
<1> QED
  BY <1>1, <1>2, <1>3, OwnService

LEMMA ChannelsAlways == Spec => []ChannelsInv
<1>1. Init => ChannelsInv
  <2> SUFFICES ASSUME Init PROVE ChannelsInv
    OBVIOUS
  <2>1. /\ chStatus = InitialChannel /\ selected = InitialSelected
        /\ \A o \in ChannelCalls : channelCall[o].pc = "idle"
    BY DEF Init, ChannelsInit
  <2> QED
    BY <2>1, ChannelsAssumption DEF ChannelsInv, OneChannelPerAccount, SelectedIsVerifiedAndOwn,
       CallsOfChannels
<1>2. TypeOK /\ ChannelsInv /\ [Next]_vars => ChannelsInv'
  BY ChannelsNextKeeps
<1> QED
  BY TypeCorrect, <1>1, <1>2, PTL DEF Spec

(* One bank account is one channel, although addChannel looks and inserts  *)
(* in two steps.                                                           *)
THEOREM AccountsUnique == Spec => []OneChannelPerAccount
<1>1. ChannelsInv => OneChannelPerAccount
  BY DEF ChannelsInv
<1> QED
  BY ChannelsAlways, <1>1, PTL

(* The channel a merchant has selected is its own and verified, although   *)
(* selectChannel writes what it read before an await.                      *)
THEOREM SelectionCorrect == Spec => []SelectedIsVerifiedAndOwn
<1>1. ChannelsInv => SelectedIsVerifiedAndOwn
  BY DEF ChannelsInv
<1> QED
  BY ChannelsAlways, <1>1, PTL

-----------------------------------------------------------------------------
(* Top-up requests.  An approval only ever writes to a request that it has *)
(* found pending, so no approval brings a request into being.              *)

WritesToRequests ==
  \A a \in Approvals :
    approval[a].pc \in {"credit", "commit"} => topUpStatus[approval[a].topUp] # "none"

BackedInv == WritesToRequests /\ RequestsAreBacked

\* Steps that make no request.
LEMMA BackedFrame ==
  ASSUME BackedInv, VerifiedStay,
         \A t \in TopUpIds : topUpStatus'[t] # "none" => topUpStatus[t] # "none",
         WritesToRequests'
  PROVE  BackedInv'
  BY DEF BackedInv, RequestsAreBacked, VerifiedStay

\* What a step of approval a does to requests.
LEMMA BackedApproval ==
  ASSUME TypeOK, BackedInv, VerifiedStay, NEW a \in Approvals,
         ApprovalArrival(a) \/ ApprovalStep(a) \/ ApprovalFails(a)
  PROVE  BackedInv'
<1>0. TopUpsOK
  BY DEF TypeOK
<1>1. ASSUME topUpStatus' = topUpStatus,
             \A d \in Approvals \ {a} : approval'[d] = approval[d],
             approval'[a].pc \notin {"credit", "commit"}
      PROVE  BackedInv'
  BY <1>1, BackedFrame DEF BackedInv, WritesToRequests
<1>2. ASSUME NEW from, NEW to, ApprovalGoes(a, from, to), topUpStatus' = topUpStatus,
             to \notin {"credit", "commit"}
      PROVE  BackedInv'
  BY <1>0, <1>1, <1>2, ApprovalGoesFrame
<1>3. ASSUME NEW from, NEW to, ApprovalGoes(a, from, to), topUpStatus' = topUpStatus,
             topUpStatus[approval[a].topUp] # "none"
      PROVE  BackedInv'
  <2>1. WritesToRequests'
    BY <1>0, <1>3, ApprovalGoesFrame DEF BackedInv, WritesToRequests
  <2> QED
    BY <1>3, <2>1, BackedFrame
<1>4. CASE ApprovalArrival(a)
  <2>1. PICK l \in {"approve", "match", "rejected"} :
          \E t, x, c : ApprovalArrives(a, [pc |-> l, topUp |-> t, transfer |-> x, channel |-> c])
    BY <1>4 DEF ApprovalArrival, AdminApproves, WebhookReceived, WebhookUnknown
  <2>2. PICK call : call.pc = l /\ ApprovalArrives(a, call)
    BY <2>1
  <2> QED
    BY <1>0, <1>1, <2>1, <2>2 DEF ApprovalArrives, TopUpsOK
<1>5. CASE MatchOldest(a)
  <2>1. PICK t \in TopUpIds :
          /\ approval' = [approval EXCEPT ![a].pc = "approve", ![a].topUp = t]
          /\ topUpStatus' = topUpStatus
    BY <1>5 DEF MatchOldest, Matching
  <2> QED
    BY <1>0, <1>1, <2>1 DEF TopUpsOK
<1>6. CASE \/ MatchNone(a) \/ RefuseTopUp(a) \/ EvictApproved(a) \/ LogApproval(a)
           \/ FinishApproval(a)
  BY <1>2, <1>6 DEF MatchNone, RefuseTopUp, EvictApproved, LogApproval, FinishApproval
<1>7. CASE ApprovalFails(a)
  BY <1>2, <1>7 DEF ApprovalFails
<1>8. CASE ReadTopUp(a)
  BY <1>3, <1>8 DEF ReadTopUp, Approvable
<1>9. CASE CreditWallet(a)
  <2>1. ApprovalGoes(a, "credit", "commit") /\ topUpStatus' = topUpStatus
    BY <1>9 DEF CreditWallet
  <2>2. topUpStatus[approval[a].topUp] # "none"
    BY <2>1 DEF ApprovalGoes, BackedInv, WritesToRequests
  <2> QED
    BY <1>3, <2>1, <2>2
<1>10. CASE CommitApproval(a)
  <2>1. /\ ApprovalGoes(a, "commit", "evict")
        /\ topUpStatus' = [topUpStatus EXCEPT ![approval[a].topUp] = "APPROVED"]
    BY <1>10 DEF CommitApproval
  <2>2. topUpStatus[approval[a].topUp] # "none"
    BY <2>1 DEF ApprovalGoes, BackedInv, WritesToRequests
  <2>3. \A t : topUpStatus'[t] # "none" <=> topUpStatus[t] # "none"
    BY <1>0, <2>1, <2>2 DEF TopUpsOK
  <2>4. WritesToRequests'
    BY <1>0, <2>1, <2>3, ApprovalGoesFrame DEF BackedInv, WritesToRequests
  <2> QED
    BY <2>3, <2>4, BackedFrame
<1> QED
  BY <1>4, <1>5, <1>6, <1>7, <1>8, <1>9, <1>10 DEF ApprovalStep

\* A request rests on the channel its user has selected.
LEMMA BackedRequest ==
  ASSUME TypeOK, ChannelsInv, BackedInv, VerifiedStay, NEW t \in TopUpIds, RequestTopUp(t)
  PROVE  BackedInv'
<1> DEFINE c == selected[Requester[t]]
<1>1. /\ c # NoChannel /\ chStatus[c] = "VERIFIED" /\ approval' = approval
      /\ topUpStatus' = [topUpStatus EXCEPT ![t] = "PENDING"]
  BY DEF RequestTopUp
<1>2. Requester[t] \in Merchants
  BY TopUpsAssumption
<1>3. c \in Channels /\ Holder[c] = Requester[t]
  BY <1>1, <1>2 DEF TypeOK, ChannelsOK, ChannelsInv, SelectedIsVerifiedAndOwn
<1> HIDE DEF c
<1>4. \A u : u # t => topUpStatus'[u] = topUpStatus[u]
  BY <1>1 DEF TypeOK, TopUpsOK
<1>5. topUpStatus'[t] = "PENDING"
  BY <1>1 DEF TypeOK, TopUpsOK
<1>6. WritesToRequests'
  BY <1>1, <1>4, <1>5 DEF BackedInv, WritesToRequests
<1>7. RequestsAreBacked'
  BY <1>1, <1>3, <1>4 DEF BackedInv, RequestsAreBacked, VerifiedStay
<1> QED
  BY <1>6, <1>7 DEF BackedInv

LEMMA BackedNext ==
  ASSUME TypeOK, ChannelsInv, BackedInv, [Next]_vars
  PROVE  BackedInv'
<1>0. VerifiedStay
  BY ChannelsNextKeeps
<1>1. ASSUME UNCHANGED topUpVars PROVE BackedInv'
  BY <1>0, <1>1, BackedFrame DEF topUpVars, BackedInv, WritesToRequests
<1>2. CASE \/ Log \/ (\E m \in Merchants : Lapse(m)) \/ OtherService \/ Idle \/ UNCHANGED vars
  BY <1>1, <1>2, OtherSteps
<1>3. CASE PayoutService
  BY <1>1, <1>3 DEF PayoutService, NotPayouts
<1>4. CASE TopUpService
  <2>1. CASE \E t \in TopUpIds : RequestTopUp(t)
    BY <1>0, <2>1, BackedRequest
  <2>2. CASE \E a \in Approvals : ApprovalArrival(a) \/ ApprovalStep(a) \/ ApprovalFails(a)
    BY <1>0, <2>2, BackedApproval
  <2> QED
    BY <1>4, <2>1, <2>2 DEF TopUpService, TopUpsNext
<1>5. CASE Crash
  <2>1. topUpStatus' = topUpStatus
    BY <1>5 DEF Crash
  <2>2. \A a \in Approvals : approval'[a].pc \notin {"credit", "commit"}
    BY <1>5 DEF Crash, ApprovalsLost, TypeOK, TopUpsOK, Answered
  <2> QED
    BY <1>0, <2>1, <2>2, BackedFrame DEF WritesToRequests
<1> QED
  BY <1>2, <1>3, <1>4, <1>5 DEF Next, OtherService

(* Only a merchant with a verified account of its own has a top-up, in     *)
(* whatever order accounts are added, verified and selected and top-ups    *)
(* requested and approved.                                                 *)
THEOREM FundingBacked == Spec => []RequestsAreBacked
<1>1. Init => BackedInv
  BY DEF Init, TopUpsInit, BackedInv, WritesToRequests, RequestsAreBacked
<1>2. TypeOK /\ ChannelsInv /\ BackedInv /\ [Next]_vars => BackedInv'
  BY BackedNext
<1>3. BackedInv => RequestsAreBacked
  BY DEF BackedInv
<1> QED
  BY TypeCorrect, ChannelsAlways, <1>1, <1>2, <1>3, PTL DEF Spec
=============================================================================
