---------------------------- MODULE BackendProofs ----------------------------
(***************************************************************************)
(* Proofs about Backend for every choice of its constants.                 *)
(***************************************************************************)
EXTENDS BackendProperties, TLAPS

USE DEF InTransaction, Settled, Answered, Existing

(* The assumptions on constants that the steps below rest on, once.        *)
LEMMA CallFields ==
  ASSUME NEW c \in Calls
  PROVE  /\ c.merchant \in Merchants
         /\ c.beneficiary \in Beneficiaries
         /\ c.amount \in Nat \ {0}
         /\ c.key \in Keys \union {NoKey}
  BY PayoutsAssumption DEF Requests

(* What PostgreSQL stores is a whole number of cents.                      *)
LEMMA RoundingTypes ==
  ASSUME NEW b \in Int, NEW a \in Nat
  PROVE  /\ Stored(a) \in Nat
         /\ Debited(b, a) \in Int
         /\ Credited(b, a) \in Int
  BY DEF Stored, Debited, Credited

(* What is left after a debit that the balance covers is not negative, and *)
(* a credit never lowers a balance.                                        *)
LEMMA RoundingBounds ==
  ASSUME NEW b \in Int, NEW a \in Nat
  PROVE  /\ Covers(b, a) => Debited(b, a) >= 0
         /\ Credited(b, a) >= b
  BY DEF Debited, Credited, Covers

-----------------------------------------------------------------------------
LEMMA TypeInit == Init => TypeOK
<1> SUFFICES ASSUME Init PROVE TypeOK
  OBVIOUS
<1> USE DEF Init
<1>1. WalletsOK
  BY WalletDbAssumption DEF WalletsOK, WalletDbInit
<1>2. PayoutsOK
  BY DEF PayoutsOK, PayoutsInit, PayoutPC
<1>3. BeneficiariesOK
  BY BeneficiariesAssumption DEF BeneficiariesOK, BeneficiariesInit
<1>4. ChannelsOK
  BY ChannelsAssumption DEF ChannelsOK, ChannelsInit
<1>5. TopUpsOK
  BY TopUpsAssumption DEF TopUpsOK, TopUpsInit, ApprovalPC
<1>6. ReadersOK
  BY DEF ReadersOK, WalletReadsInit
<1>7. SocketsOK
  BY DEF SocketsOK, SocketsInit
<1>8. WorkerOK
  BY DEF WorkerOK, WorkerInit
<1>9. ListingOK
  BY DEF ListingOK, ListingInit, Unlisted
<1>10. RegistrationOK
  BY DEF RegistrationOK, RegistrationInit
<1> QED
  BY <1>1, <1>2, <1>3, <1>4, <1>5, <1>6, <1>7, <1>8, <1>9, <1>10 DEF TypeOK

-----------------------------------------------------------------------------
(* Type correctness, service by service.                                   *)

LEMMA GoToType ==
  ASSUME PayoutsOK,
         NEW p \in PayoutIds, NEW from \in PayoutPC \ {"idle"}, NEW to \in PayoutPC,
         GoTo(p, from, to), jobs' \subseteq PayoutIds
  PROVE  PayoutsOK'
  BY DEF PayoutsOK, GoTo, PayoutPC

LEMMA InsertType ==
  ASSUME PayoutsOK, NEW p \in PayoutIds, InsertRow(p) \/ DuplicateReference(p)
  PROVE  PayoutsOK'
<1>1. PICK t \in Nat, l \in {"commit", "clash"} :
        payout' = [payout EXCEPT ![p].pc = l, ![p].at = t]
  BY PayoutsAssumption DEF InsertRow, DuplicateReference, Now
<1>2. payout[p].pc = "insert" /\ jobs' = jobs
  BY DEF InsertRow, DuplicateReference
<1> DEFINE Record == [pc : PayoutPC, call : Calls \union {NoCall}, seen : Nat, at : Nat]
<1>3. payout' \in [PayoutIds -> Record]
  <2>1. payout \in [PayoutIds -> Record]
    BY DEF PayoutsOK
  <2>2. [payout[p] EXCEPT !.pc = l, !.at = t] \in Record
    BY <1>1, <2>1 DEF PayoutPC
  <2>3. payout' = [payout EXCEPT ![p] = [payout[p] EXCEPT !.pc = l, !.at = t]]
    BY <1>1
  <2> QED
    BY <2>1, <2>2, <2>3
<1>4. \A q \in PayoutIds : payout'[q].pc # "idle" => payout'[q].call \in Calls
  BY <1>1, <1>2 DEF PayoutsOK
<1> QED
  BY <1>2, <1>3, <1>4 DEF PayoutsOK

LEMMA UnlockedType ==
  ASSUME WalletsOK, NEW s
  PROVE  Unlocked(s) \in [Merchants -> Sessions \union {Free}]
  BY DEF WalletsOK, Unlocked

LEMMA TypeArrival ==
  ASSUME TypeOK, NEW p \in PayoutIds, Arrival(p)
  PROVE  WalletsOK' /\ PayoutsOK'
<1>1. PICK c \in Calls, l \in PayoutPC : Arrive(p, c, l)
  BY DEF Arrival, ReplayExisting, KeyTakenByOther, Admit, PayoutPC
<1>2. PayoutsOK'
  BY <1>1 DEF TypeOK, PayoutsOK, Arrive
<1>3. WalletsOK'
  BY <1>1 DEF TypeOK, WalletsOK, Arrive, walletVars
<1> QED
  BY <1>2, <1>3

LEMMA TypePayoutStep ==
  ASSUME TypeOK, NEW p \in PayoutIds, PayoutStep(p) \/ Fails(p)
  PROVE  WalletsOK' /\ PayoutsOK'
<1>0. WalletsOK /\ PayoutsOK
  BY DEF TypeOK
<1>1. CASE CheckBeneficiary(p)
  BY <1>1, <1>0, GoToType DEF CheckBeneficiary, PayoutPC, WalletsOK, walletVars, PayoutsOK
<1>2. CASE RefuseBeneficiary(p)
  BY <1>2, <1>0, GoToType DEF RefuseBeneficiary, PayoutPC, WalletsOK, walletVars, PayoutsOK
<1>3. CASE ReadWallet(p)
  <2>1. payout[p].call \in Calls /\ Sender(p) \in Merchants
    BY <1>3, <1>0, CallFields DEF ReadWallet, PayoutsOK, Sender
  <2>2. WalletsOK' /\ jobs' = jobs
    BY <1>3, <1>0 DEF ReadWallet, WalletsOK, walletVars
  <2>3. version[Sender(p)] \in Nat
    BY <1>0, <2>1 DEF WalletsOK
  <2>4. payout' = [payout EXCEPT ![p].pc = "debit", ![p].seen = version[Sender(p)]]
    BY <1>3 DEF ReadWallet
  <2>5. PayoutsOK'
    <3> DEFINE Record == [pc : PayoutPC, call : Calls \union {NoCall}, seen : Nat, at : Nat]
    <3>1. payout \in [PayoutIds -> Record]
      BY <1>0 DEF PayoutsOK
    <3>2. [payout[p] EXCEPT !.pc = "debit", !.seen = version[Sender(p)]] \in Record
      BY <2>3, <3>1 DEF PayoutPC
    <3>3. payout' \in [PayoutIds -> Record]
      BY <2>4, <3>1, <3>2
    <3>4. \A q \in PayoutIds : payout'[q].pc # "idle" => payout'[q].call \in Calls
      BY <1>0, <2>1, <2>4 DEF PayoutsOK
    <3> QED
      BY <1>0, <2>2, <3>3, <3>4 DEF PayoutsOK
  <2> QED
    BY <2>2, <2>5
<1>4. CASE RefuseWallet(p)
  BY <1>4, <1>0, GoToType DEF RefuseWallet, PayoutPC, WalletsOK, walletVars, PayoutsOK
<1>5. ASSUME NEW from \in PayoutPC \ {"idle"}, NEW to \in PayoutPC, Rollback(p, from, to)
      PROVE  WalletsOK' /\ PayoutsOK'
  BY <1>5, <1>0, GoToType, UnlockedType DEF Rollback, WalletsOK, PayoutsOK
<1>6. CASE LoseRace(p) \/ DuplicateKey(p) \/ DeadlockVictim(p) \/ Fails(p)
  BY <1>6, <1>5 DEF LoseRace, DuplicateKey, DeadlockVictim, Fails, PayoutPC
<1>7. CASE Debit(p)
  <2>1. GoTo(p, "debit", "credit") \/ GoTo(p, "debit", "insert")
    BY <1>7 DEF Debit
  <2> QED
    BY <1>7, <1>0, <2>1, GoToType DEF Debit, Lock, PayoutPC, WalletsOK, PayoutsOK, Sessions
<1>8. CASE Credit(p)
  BY <1>8, <1>0, GoToType DEF Credit, Lock, PayoutPC, WalletsOK, PayoutsOK, Sessions
<1>9. CASE InsertRow(p)
  BY <1>9, <1>0, InsertType DEF InsertRow, WalletsOK, walletVars
<1>10. CASE Commit(p)
  <2>1. payout[p].call \in Calls /\ Sender(p) \in Merchants
    BY <1>10, <1>0, CallFields DEF Commit, GoTo, PayoutsOK, Sender
  <2>2. Moved(p) \in [Merchants -> Int]
    BY <1>0, <2>1, CallFields, RoundingTypes DEF Moved, WalletsOK
  <2>3. Bumped(p) \in [Merchants -> Nat]
    BY <1>0 DEF Bumped, WalletsOK
  <2>4. PayoutRow(p) \in Rows
    <3>1. payout[p].call.amount \in Nat /\ payout[p].call.key \in Keys \union {NoKey}
      BY <2>1, CallFields
    <3>2. Stored(payout[p].call.amount) \in Nat
      BY <3>1 DEF Stored
    <3> QED
      BY <2>1, <3>1, <3>2 DEF PayoutRow, Rows
  <2>5. PayoutsOK'
    BY <1>10, <1>0, GoToType DEF Commit, PayoutPC, PayoutsOK
  <2> QED
    BY <1>10, <1>0, <2>2, <2>3, <2>4, <2>5, UnlockedType DEF Commit, WalletsOK
<1>11. CASE Evict(p)
  <2>1. GoTo(p, "evict", "evictPeer") \/ GoTo(p, "evict", "enqueue")
    BY <1>11 DEF Evict
  <2> QED
    BY <1>11, <1>0, <2>1, GoToType DEF Evict, Evicted, PayoutPC, WalletsOK, walletVars, PayoutsOK
<1>12. CASE EvictPeer(p)
  BY <1>12, <1>0, GoToType DEF EvictPeer, Evicted, PayoutPC, WalletsOK, walletVars, PayoutsOK
<1>13. CASE Enqueue(p)
  <2>1. jobs' \subseteq PayoutIds
    BY <1>13, <1>0 DEF Enqueue, PayoutsOK
  <2> QED
    BY <1>13, <1>0, <2>1, GoToType DEF Enqueue, PayoutPC, WalletsOK, walletVars
<1>14. CASE Finish(p)
  BY <1>14, <1>0, GoToType DEF Finish, PayoutPC, WalletsOK, walletVars, PayoutsOK
<1>15. CASE LogPayout(p)
  BY <1>15, <1>0, GoToType DEF LogPayout, PayoutPC, WalletsOK, walletVars, PayoutsOK
<1>16. CASE DuplicateReference(p)
  BY <1>16, <1>0, InsertType, UnlockedType DEF DuplicateReference, WalletsOK
<1> QED
  BY <1>1, <1>2, <1>3, <1>4, <1>6, <1>7, <1>8, <1>9, <1>10, <1>11, <1>12, <1>13, <1>14, <1>15,
     <1>16
     DEF PayoutStep

LEMMA TypeBeneficiaries ==
  ASSUME TypeOK, BeneficiariesNext
  PROVE  WalletsOK' /\ BeneficiariesOK'
<1>0. WalletsOK /\ BeneficiariesOK
  BY DEF TypeOK
<1>1. CASE \E b \in Beneficiaries : AddBeneficiary(b)
  BY <1>0, <1>1 DEF AddBeneficiary, WalletsOK, BeneficiariesOK, walletVars
<1>2. ASSUME NEW v \in Reviews, NEW b \in Beneficiaries, NEW l \in {"verify", "block", "done"},
             StartReview(v, b, l)
      PROVE  WalletsOK' /\ BeneficiariesOK'
  BY <1>0, <1>2 DEF StartReview, WalletsOK, BeneficiariesOK, walletVars
<1>3. CASE \E v \in Reviews, b \in Beneficiaries :
             ReadToVerify(v, b) \/ ReadToBlock(v, b) \/ RefuseReview(v, b)
  BY <1>2, <1>3 DEF ReadToVerify, ReadToBlock, RefuseReview
<1>4. ASSUME NEW v \in Reviews, NEW l \in {"verify", "block"}, NEW s \in Existing, NEW e,
             WriteReview(v, l, s, e)
      PROVE  WalletsOK' /\ BeneficiariesOK'
  BY <1>0, <1>4 DEF WriteReview, WalletsOK, BeneficiariesOK, walletVars
<1>5. CASE \E v \in Reviews : ReviewStep(v)
  BY <1>4, <1>5 DEF ReviewStep, WriteVerified, WriteBlocked
<1> QED
  BY <1>1, <1>3, <1>5 DEF BeneficiariesNext

LEMMA TypeChannels ==
  ASSUME TypeOK, ChannelsNext
  PROVE  WalletsOK' /\ ChannelsOK'
<1>0. WalletsOK /\ ChannelsOK
  BY DEF TypeOK
<1>1. PICK o \in ChannelCalls : ChannelArrival(o) \/ ChannelStep(o)
  BY DEF ChannelsNext
<1>2. ASSUME NEW c \in Channels, NEW m \in Merchants \union {NoUser},
             NEW l \in {"insert", "select", "verify", "done"},
             l = "select" => m \in Merchants, StartChannelCall(o, m, c, l)
      PROVE  WalletsOK' /\ ChannelsOK'
  BY <1>0, <1>2 DEF StartChannelCall, WalletsOK, ChannelsOK, walletVars
<1>3. CASE ChannelArrival(o)
  BY <1>2, <1>3 DEF ChannelArrival, LookUpAccount, ReadToSelect, RefuseSelect,
     ReadToVerifyChannel, RefuseVerifyChannel
<1>4. CASE InsertChannel(o)
  BY <1>0, <1>4 DEF InsertChannel, EndChannelCall, WalletsOK, ChannelsOK, walletVars
<1>5. CASE DuplicateAccount(o)
  BY <1>0, <1>5 DEF DuplicateAccount, EndChannelCall, WalletsOK, ChannelsOK, walletVars
<1>6. CASE WriteSelected(o)
  BY <1>0, <1>6 DEF WriteSelected, EndChannelCall, WalletsOK, ChannelsOK, walletVars
<1>7. CASE WriteChannelVerified(o)
  BY <1>0, <1>7 DEF WriteChannelVerified, EndChannelCall, WalletsOK, ChannelsOK, walletVars
<1> QED
  BY <1>1, <1>3, <1>4, <1>5, <1>6, <1>7 DEF ChannelStep

LEMMA TypeReaders ==
  ASSUME TypeOK, WalletReadsNext
  PROVE  WalletsOK' /\ ReadersOK'
<1>0. WalletsOK /\ ReadersOK
  BY DEF TypeOK
<1>1. PICK r \in Readers :
        (\E m \in Merchants : CacheHit(r, m) \/ CacheMiss(r, m))
          \/ ReaderStep(r) \/ ReadFails(r)
  BY DEF WalletReadsNext
<1>2. CASE \E m \in Merchants : CacheHit(r, m)
  BY <1>0, <1>2 DEF CacheHit, WalletsOK, ReadersOK, walletVars
<1>3. CASE \E m \in Merchants : CacheMiss(r, m)
  BY <1>0, <1>3 DEF CacheMiss, WalletsOK, ReadersOK, walletVars
<1>4. CASE QueryWallet(r)
  <2>1. WalletsOK'
    BY <1>0, <1>4 DEF QueryWallet, WalletsOK, walletVars
  <2>2. ReadersOK'
    <3> DEFINE m == reader[r].user
    <3>1. reader' = [reader EXCEPT ![r] = [reader[r] EXCEPT !.pc = "fill", !.seen = balance[m]]]
      BY <1>4 DEF QueryWallet
    <3>2. reader[r].pc = "query" /\ m \in Merchants /\ balance[m] \in Int
      BY <1>0, <1>4 DEF QueryWallet, WalletsOK, ReadersOK
    <3> HIDE DEF m
    <3> QED
      BY <1>0, <3>1, <3>2 DEF ReadersOK
  <2> QED
    BY <2>1, <2>2
<1>5. CASE FillCache(r)
  BY <1>0, <1>5 DEF FillCache, WalletsOK, ReadersOK, walletVars
<1>6. CASE ReadFails(r)
  <2>1. WalletsOK'
    BY <1>0, <1>6 DEF ReadFails, WalletsOK, walletVars
  <2>2. ReadersOK'
    BY <1>0, <1>6 DEF ReadFails, ReadersOK
  <2> QED
    BY <2>1, <2>2
<1> QED
  BY <1>1, <1>2, <1>3, <1>4, <1>5, <1>6 DEF ReaderStep

\* The approvals that have a request, and so a wallet to credit.
LEMMA ApprovalFields ==
  ASSUME TopUpsOK, NEW a \in Approvals,
         approval[a].pc \in {"approve", "credit", "commit", "evict", "audit", "notify", "approved"}
  PROVE  /\ approval[a].topUp \in TopUpIds
         /\ Beneficial(a) \in Merchants
         /\ Worth(approval[a].topUp) \in Nat
<1>1. approval[a].topUp \in TopUpIds
  BY DEF TopUpsOK
<1>2. Beneficial(a) \in Merchants
  BY <1>1, TopUpsAssumption DEF Beneficial
<1>3. Asked[approval[a].topUp] \in Nat
  BY <1>1, TopUpsAssumption
<1>4. Worth(approval[a].topUp) \in Nat
  BY <1>3 DEF Worth, Stored
<1> QED
  BY <1>1, <1>2, <1>4

LEMMA ApprovalGoesType ==
  ASSUME TopUpsOK, NEW a \in Approvals, NEW from, NEW to \in ApprovalPC \ {"match"},
         ApprovalGoes(a, from, to), topUpStatus' = topUpStatus,
         \/ from \in {"approve", "credit", "commit", "evict", "audit", "notify"}
         \/ to \in {"rejected", "failed"}
  PROVE  TopUpsOK'
<1>1. approval' \in [Approvals -> [pc : ApprovalPC,
                                   topUp : TopUpIds \union {NoTopUp},
                                   transfer : Transfers \union {NoTransfer},
                                   channel : Channels \union {NoChannel}]]
  BY DEF TopUpsOK, ApprovalGoes
<1>2. \A d \in Approvals :
        /\ approval'[d].topUp = approval[d].topUp
        /\ approval'[d].transfer = approval[d].transfer
        /\ approval'[d].channel = approval[d].channel
        /\ d # a => approval'[d].pc = approval[d].pc
  BY DEF TopUpsOK, ApprovalGoes
<1>3. approval[a].pc = from /\ approval'[a].pc = to
  BY DEF TopUpsOK, ApprovalGoes
<1> QED
  BY <1>1, <1>2, <1>3 DEF TopUpsOK, ApprovalPC

LEMMA TypeTopUps ==
  ASSUME TypeOK, TopUpsNext
  PROVE  WalletsOK' /\ TopUpsOK'
<1>0. WalletsOK /\ TopUpsOK
  BY DEF TypeOK
<1> USE DEF walletVars
<1>1. CASE \E t \in TopUpIds : RequestTopUp(t)
  BY <1>0, <1>1 DEF RequestTopUp, WalletsOK, TopUpsOK
<1>2. ASSUME NEW a \in Approvals, ApprovalArrival(a)
      PROVE  WalletsOK' /\ TopUpsOK'
  <2>1. CASE \E t \in TopUpIds : AdminApproves(a, t)
    BY <1>0, <2>1 DEF AdminApproves, ApprovalArrives, WalletsOK, TopUpsOK, ApprovalPC
  <2>2. CASE \E x \in Transfers : WebhookReceived(a, x)
    BY <1>0, <2>2 DEF WebhookReceived, ApprovalArrives, WalletsOK, TopUpsOK, ApprovalPC
  <2>3. CASE \E x \in Transfers : WebhookUnknown(a, x)
    BY <1>0, <2>3 DEF WebhookUnknown, ApprovalArrives, WalletsOK, TopUpsOK, ApprovalPC
  <2> QED
    BY <1>2, <2>1, <2>2, <2>3 DEF ApprovalArrival
<1>3. ASSUME NEW a \in Approvals, ApprovalStep(a) \/ ApprovalFails(a)
      PROVE  WalletsOK' /\ TopUpsOK'
  <2>1. CASE MatchOldest(a)
    <3>1. PICK t \in TopUpIds :
            approval' = [approval EXCEPT ![a].pc = "approve", ![a].topUp = t]
      BY <2>1 DEF MatchOldest, Matching
    <3>2. topUpStatus' = topUpStatus /\ WalletsOK'
      BY <1>0, <2>1 DEF MatchOldest, WalletsOK
    <3>3. /\ approval' = [approval EXCEPT ![a] =
                           [approval[a] EXCEPT !.pc = "approve", !.topUp = t]]
          /\ approval[a] \in [pc : ApprovalPC,
                              topUp : TopUpIds \union {NoTopUp},
                              transfer : Transfers \union {NoTransfer},
                              channel : Channels \union {NoChannel}]
      BY <1>0, <3>1 DEF TopUpsOK
    <3> QED
      BY <1>0, <3>2, <3>3 DEF TopUpsOK, ApprovalPC
  <2>2. CASE MatchNone(a) \/ ReadTopUp(a) \/ RefuseTopUp(a)
    <3>1. \/ ApprovalGoes(a, "match", "rejected")
          \/ ApprovalGoes(a, "approve", "credit")
          \/ ApprovalGoes(a, "approve", "rejected")
      BY <2>2 DEF MatchNone, ReadTopUp, RefuseTopUp
    <3>2. topUpStatus' = topUpStatus /\ WalletsOK'
      BY <1>0, <2>2 DEF MatchNone, ReadTopUp, RefuseTopUp, WalletsOK
    <3> QED
      BY <1>0, <3>1, <3>2, ApprovalGoesType DEF ApprovalPC
  <2>3. CASE CreditWallet(a)
    BY <1>0, <2>3, ApprovalGoesType DEF CreditWallet, Lock, WalletsOK, ApprovalPC, Sessions
  <2>4. CASE CommitApproval(a)
    <3>1. /\ approval[a].topUp \in TopUpIds
          /\ Beneficial(a) \in Merchants
          /\ Worth(approval[a].topUp) \in Nat
      BY <1>0, <2>4, ApprovalFields DEF CommitApproval, ApprovalGoes
    <3>2. TopUpRow(a) \in Rows
      BY <3>1 DEF TopUpRow, Rows, Sessions
    <3>3. TopUpsOK'
      BY <1>0, <2>4, <3>1 DEF CommitApproval, ApprovalGoes, TopUpsOK, ApprovalPC
    <3>4. balance' \in [Merchants -> Int]
      BY <1>0, <2>4, <3>1 DEF CommitApproval, WalletsOK
    <3> QED
      BY <1>0, <2>4, <3>2, <3>3, <3>4, UnlockedType DEF CommitApproval, WalletsOK
  <2>5. CASE EvictApproved(a)
    BY <1>0, <2>5, ApprovalGoesType DEF EvictApproved, Evicted, WalletsOK, ApprovalPC
  <2>6. CASE LogApproval(a) \/ FinishApproval(a)
    BY <1>0, <2>6, ApprovalGoesType DEF LogApproval, FinishApproval, WalletsOK, ApprovalPC
  <2>7. CASE ApprovalFails(a)
    <3>1. PICK l \in {"match", "approve", "credit", "commit", "evict"} :
            ApprovalGoes(a, l, "failed")
      BY <2>7 DEF ApprovalFails
    <3> QED
      BY <1>0, <2>7, <3>1, ApprovalGoesType, UnlockedType DEF ApprovalFails, WalletsOK, ApprovalPC
  <2> QED
    BY <1>3, <2>1, <2>2, <2>3, <2>4, <2>5, <2>6, <2>7 DEF ApprovalStep
<1> QED
  BY <1>1, <1>2, <1>3 DEF TopUpsNext

\* What the type of one component needs of the others' steps.
LEMMA TypeKept ==
  ASSUME TypeOK
  PROVE  /\ UNCHANGED <<walletVars, cache>> => WalletsOK'
         /\ UNCHANGED payoutVars => PayoutsOK'
         /\ UNCHANGED beneficiaryVars => BeneficiariesOK'
         /\ UNCHANGED channelVars => ChannelsOK'
         /\ UNCHANGED topUpVars => TopUpsOK'
         /\ UNCHANGED reader => ReadersOK'
         /\ UNCHANGED <<connectionVars, pushed>> => SocketsOK'
         /\ UNCHANGED workerVars => WorkerOK'
         /\ UNCHANGED pager => ListingOK'
         /\ UNCHANGED registrationVars => RegistrationOK'
<1> USE DEF TypeOK
<1>1. UNCHANGED <<walletVars, cache>> => WalletsOK'
  BY DEF WalletsOK, walletVars
<1>2. UNCHANGED payoutVars => PayoutsOK'
  BY DEF PayoutsOK, payoutVars
<1>3. UNCHANGED beneficiaryVars => BeneficiariesOK'
  BY DEF BeneficiariesOK, beneficiaryVars
<1>4. UNCHANGED channelVars => ChannelsOK'
  BY DEF ChannelsOK, channelVars
<1>5. UNCHANGED topUpVars => TopUpsOK'
  BY DEF TopUpsOK, topUpVars
<1>6. UNCHANGED reader => ReadersOK'
  BY DEF ReadersOK
<1>7. UNCHANGED <<connectionVars, pushed>> => SocketsOK'
  BY DEF SocketsOK, connectionVars
<1>8. UNCHANGED workerVars => WorkerOK'
  BY DEF WorkerOK, workerVars, queueVars
<1>9. UNCHANGED pager => ListingOK'
  BY DEF ListingOK
<1>10. UNCHANGED registrationVars => RegistrationOK'
  BY DEF RegistrationOK, registrationVars
<1> QED
  BY <1>1, <1>2, <1>3, <1>4, <1>5, <1>6, <1>7, <1>8, <1>9, <1>10

\* What is emitted goes to a connection, and is about a payout or approval.
LEMMA NotifyType ==
  ASSUME SocketsOK, NEW m, NEW id \in Sessions, NotifyUser(m, id),
         UNCHANGED connectionVars
  PROVE  SocketsOK'
  BY DEF SocketsOK, NotifyUser, Reached, connectionVars

LEMMA PushedByPayouts ==
  ASSUME TypeOK, PayoutsNext, UNCHANGED clientVars
  PROVE  SocketsOK'
<1>1. UNCHANGED connectionVars
  BY DEF clientVars
<1>2. PICK p \in PayoutIds : Arrival(p) \/ PayoutStep(p) \/ Fails(p)
  BY PayoutsAssumption DEF PayoutsNext
<1>3. CASE Finish(p)
  BY <1>1, <1>3, NotifyType DEF Finish, Sessions, TypeOK
<1>4. CASE ~ Finish(p)
  <2>1. UNCHANGED pushed
    BY <1>2, <1>4 DEF Arrival, Arrive, ReplayExisting, KeyTakenByOther, Admit, PayoutStep,
       CheckBeneficiary, RefuseBeneficiary, ReadWallet, RefuseWallet, LoseRace, Debit, Credit,
       DuplicateKey, DuplicateReference, InsertRow, Commit, Evict, EvictPeer, Enqueue, LogPayout,
       DeadlockVictim, Fails, Rollback, effectVars
  <2> QED
    BY <1>1, <2>1 DEF connectionVars, TypeOK, SocketsOK
<1> QED
  BY <1>3, <1>4

LEMMA PushedByTopUps ==
  ASSUME TypeOK, TopUpsNext, UNCHANGED clientVars
  PROVE  SocketsOK'
<1>1. UNCHANGED connectionVars
  BY DEF clientVars
<1>2. CASE \E a \in Approvals : FinishApproval(a)
  BY <1>1, <1>2, NotifyType DEF FinishApproval, Sessions, TypeOK
<1>3. CASE ~ \E a \in Approvals : FinishApproval(a)
  <2>1. UNCHANGED pushed
    BY <1>3 DEF TopUpsNext, RequestTopUp, ApprovalArrival, AdminApproves, WebhookReceived,
       WebhookUnknown, ApprovalArrives, ApprovalStep, ApprovalFails, MatchOldest, MatchNone,
       ReadTopUp, RefuseTopUp, CreditWallet, CommitApproval, EvictApproved, LogApproval, effectVars
  <2> QED
    BY <1>1, <2>1 DEF connectionVars, TypeOK, SocketsOK
<1> QED
  BY <1>2, <1>3

LEMMA TypeSockets ==
  ASSUME TypeOK, SocketsNext
  PROVE  SocketsOK'
<1>0. SocketsOK /\ pushed' = pushed
  BY DEF TypeOK, SocketsNext, effectVars
<1>1. PICK s \in Sockets : Connect(s) \/ Sever(s) \/ Disconnect(s)
  BY DEF SocketsNext
<1> QED
  BY <1>0, <1>1, SocketsAssumption DEF SocketsOK, Connect, Sever, Disconnect

LEMMA TypeWorker ==
  ASSUME TypeOK, WorkerNext
  PROVE  WorkerOK'
<1>0. WorkerOK
  BY DEF TypeOK
<1> USE DEF queueVars
<1>1. CASE \E w \in Workers : TakeJob(w)
  BY <1>0, <1>1, WorkerAssumption DEF TakeJob, WorkerOK
<1>2. CASE \E w \in Workers : EndHandler(w)
  BY <1>0, <1>2 DEF EndHandler, WorkerOK
<1>3. CASE \E w \in Workers : CompleteJob(w)
  BY <1>0, <1>3 DEF CompleteJob, Release, WorkerOK
<1>4. CASE \E w \in Workers : RefuseReport(w) \/ WorkerDies(w)
  BY <1>0, <1>4 DEF RefuseReport, WorkerDies, Release, WorkerOK
<1>5. CASE \E w \in Workers : WorkerStarts(w)
  BY <1>0, <1>5 DEF WorkerStarts, WorkerOK
<1>6. CASE \E p \in PayoutIds : StallJob(p)
  BY <1>0, <1>6 DEF StallJob, WorkerOK
<1> QED
  BY <1>1, <1>2, <1>3, <1>4, <1>5, <1>6 DEF WorkerNext

LEMMA TypeListing ==
  ASSUME TypeOK, ListingNext
  PROVE  ListingOK'
<1> DEFINE Pages == [pc : {"idle", "paging", "ended", "failed"},
                     of : Merchants \union {Everyone},
                     size : Nat,
                     cursor : PayoutIds \union {NoRow},
                     known : SUBSET PayoutIds,
                     listed : [PayoutIds -> 0 .. 2]]
<1>0. pager \in [Pagers -> Pages]
  BY DEF TypeOK, ListingOK
<1>1. ASSUME NEW m PROVE Queried(m) \subseteq PayoutIds
  BY DEF Queried, TypeOK, WalletsOK, Rows
<1>2. ASSUME NEW g \in Pagers, NEW call \in Pages, Fetch(g, call)
      PROVE  pager' \in [Pagers -> Pages]
  <2> DEFINE got(P) == [call EXCEPT !.listed = Counted(call.listed, P)]
  <2>1. PICK rest \in Following(Queried(call.of), call.cursor) :
          \E P \in Newest(rest, call.size) :
            \/ pager' = [pager EXCEPT ![g] = [got(P) EXCEPT !.pc = "ended"]]
            \/ \E c \in LastRows(P, rest) :
                 pager' = [pager EXCEPT ![g] = [got(P) EXCEPT !.pc = "paging", !.cursor = c]]
            \/ pager' = [pager EXCEPT ![g] = [got(P) EXCEPT !.pc = "failed"]]
    BY <1>2 DEF Fetch
  <2>2. PICK P \in Newest(rest, call.size) :
            \/ pager' = [pager EXCEPT ![g] = [got(P) EXCEPT !.pc = "ended"]]
            \/ \E c \in LastRows(P, rest) :
                 pager' = [pager EXCEPT ![g] = [got(P) EXCEPT !.pc = "paging", !.cursor = c]]
            \/ pager' = [pager EXCEPT ![g] = [got(P) EXCEPT !.pc = "failed"]]
    BY <2>1
  <2>3. LastRows(P, rest) \subseteq PayoutIds
    <3>1. rest \subseteq PayoutIds
      BY <1>1 DEF Following
    <3> QED
      BY <3>1 DEF LastRows, Newest
  <2>4. got(P) \in Pages
    BY DEF Counted
  <2> HIDE DEF got
  <2>5. /\ [got(P) EXCEPT !.pc = "ended"] \in Pages
        /\ [got(P) EXCEPT !.pc = "failed"] \in Pages
        /\ \A c \in LastRows(P, rest) : [got(P) EXCEPT !.pc = "paging", !.cursor = c] \in Pages
    BY <2>3, <2>4
  <2> HIDE DEF Pages
  <2> QED
    BY <1>0, <2>2, <2>5
<1>3. PICK g \in Pagers :
        \/ \E m \in Merchants \union {Everyone}, n \in PageSizes : FirstPage(g, m, n)
        \/ NextPage(g)
  BY DEF ListingNext
<1>4. ASSUME NEW m \in Merchants \union {Everyone}, NEW n \in PageSizes, FirstPage(g, m, n)
      PROVE  pager' \in [Pagers -> Pages]
  <2>1. [pager[g] EXCEPT !.of = m, !.size = n, !.known = Queried(m)] \in Pages
    BY <1>0, <1>1, ListingAssumption
  <2> HIDE DEF Pages
  <2> QED
    BY <1>2, <1>4, <2>1 DEF FirstPage
<1>5. ASSUME NextPage(g) PROVE pager' \in [Pagers -> Pages]
  <2> HIDE DEF Pages
  <2> QED
    BY <1>0, <1>2, <1>5 DEF NextPage
<1> QED
  BY <1>3, <1>4, <1>5 DEF ListingOK

LEMMA TypeRegistration ==
  ASSUME TypeOK, RegistrationNext
  PROVE  RegistrationOK'
<1>0. RegistrationOK
  BY DEF TypeOK
<1>1. CASE \E g \in Signups, f \in Forms : LookUpUser(g, f)
  BY <1>0, <1>1 DEF LookUpUser, RegistrationOK
<1>2. ASSUME NEW g \in Signups, NEW from \in {"insert", "commit"},
             NEW to \in {"commit", "created", "conflict", "failed"},
             SignupGoes(g, from, to), UNCHANGED <<users, wallets>>
      PROVE  RegistrationOK'
  BY <1>0, <1>2 DEF SignupGoes, RegistrationOK
<1>3. ASSUME NEW g \in Signups, InsertUser(g) \/ DuplicateUser(g) \/ SignupFails(g)
      PROVE  RegistrationOK'
  BY <1>2, <1>3 DEF InsertUser, DuplicateUser, SignupFails
<1>4. ASSUME NEW g \in Signups, CommitUser(g)
      PROVE  RegistrationOK'
  <2>1. signup[g].form \in Forms
    BY <1>0, <1>4 DEF CommitUser, SignupGoes, RegistrationOK
  <2>2. UserRow(g) \in [id : Signups, email : Emails, phone : Phones]
    BY <2>1, RegistrationAssumption DEF UserRow, Normalised, Forms
  <2> QED
    BY <1>0, <1>4, <2>2 DEF CommitUser, SignupGoes, RegistrationOK
<1>5. CASE \E e \in Emails : Login(e) \/ LoginUnknown(e)
  <2>1. UNCHANGED registrationVars
    BY <1>5 DEF Login, LoginUnknown
  <2> QED
    BY <2>1, TypeKept
<1> QED
  BY <1>1, <1>3, <1>4, <1>5 DEF RegistrationNext

LEMMA TypeCrash == ASSUME TypeOK, Crash PROVE TypeOK'
<1> USE DEF TypeOK, Crash
<1>1. WalletsOK'
  BY DEF WalletsOK
<1>2. PayoutsOK'
  BY DEF PayoutsOK, PayoutsLost, PayoutPC
<1>3. BeneficiariesOK'
  BY DEF BeneficiariesOK, ReviewsLost
<1>4. ChannelsOK'
  BY DEF ChannelsOK, ChannelCallsLost
<1>5. TopUpsOK'
  BY DEF TopUpsOK, ApprovalsLost, ApprovalPC
<1>6. ReadersOK'
  BY DEF ReadersOK, ReadersLost
<1>7. SocketsOK'
  BY DEF SocketsOK, LinksCut
<1>8. WorkerOK'
  BY DEF WorkerOK, workerVars, queueVars
<1>9. ListingOK'
  BY DEF ListingOK
<1>10. RegistrationOK'
  BY DEF RegistrationOK, SignupsLost
<1> QED
  BY <1>1, <1>2, <1>3, <1>4, <1>5, <1>6, <1>7, <1>8, <1>9, <1>10

-----------------------------------------------------------------------------
LEMMA TypeNext == TypeOK /\ [Next]_vars => TypeOK'
<1> SUFFICES ASSUME TypeOK, [Next]_vars PROVE TypeOK'
  OBVIOUS
<1> USE TypeKept DEF accountVars, clientVars
<1>1. CASE Log
  <2>1. UNCHANGED <<walletVars, cache>> /\ NotData
    BY <1>1 DEF Log, LogAction
  <2> QED
    BY <2>1 DEF NotData, TypeOK
<1>2. CASE \E m \in Merchants : Lapse(m)
  <2>1. NotData /\ WalletsOK'
    BY <1>2 DEF Lapse, Expire, Evicted, walletVars, TypeOK, WalletsOK
  <2> QED
    BY <2>1 DEF NotData, TypeOK
<1>3. CASE BeneficiaryService
  BY <1>3, TypeBeneficiaries DEF BeneficiaryService, NotReviews, TypeOK
<1>4. CASE PayoutService
  <2>1. WalletsOK' /\ PayoutsOK'
    BY <1>4, TypeArrival, TypePayoutStep, PayoutsAssumption DEF PayoutService, PayoutsNext
  <2>2. NotPayouts /\ SocketsOK'
    BY <1>4, PushedByPayouts DEF PayoutService, NotPayouts
  <2> QED
    BY <2>1, <2>2 DEF NotPayouts, TypeOK
<1>5. CASE ChannelService
  BY <1>5, TypeChannels DEF ChannelService, NotChannels, TypeOK
<1>6. CASE TopUpService
  BY <1>6, TypeTopUps, PushedByTopUps DEF TopUpService, NotTopUps, TypeOK
<1>7. CASE WalletService
  BY <1>7, TypeReaders DEF WalletService, NotReads, TypeOK
<1>8. CASE RegistrationService
  <2>1. UNCHANGED <<walletVars, cache>> /\ NotUsers /\ RegistrationOK'
    BY <1>8, TypeRegistration DEF RegistrationService, RegistrationNext
  <2> QED
    BY <2>1 DEF NotUsers, TypeOK
<1>9. CASE ListingService
  BY <1>9, TypeListing DEF ListingService, dataVars, effectVars, TypeOK
<1>10. CASE ConnectionService
  <2>1. UNCHANGED <<walletVars, cache>> /\ SocketsOK'
    BY <1>10, TypeSockets DEF ConnectionService, SocketsNext
  <2> QED
    BY <1>10, <2>1 DEF ConnectionService, TypeOK
<1>11. CASE WorkerService
  BY <1>11, TypeWorker DEF WorkerService, NotJobs, dataVars, effectVars, TypeOK
<1>12. CASE Crash
  BY <1>12, TypeCrash
<1>13. CASE Idle \/ UNCHANGED vars
  BY <1>13 DEF Idle, vars, dataVars, effectVars, TypeOK
<1> QED
  BY <1>1, <1>2, <1>3, <1>4, <1>5, <1>6, <1>7, <1>8, <1>9, <1>10, <1>11, <1>12, <1>13 DEF Next

(* Every table, cache key and call in flight keeps the shape the code      *)
(* gives it, whatever the services do and whenever the process dies.       *)
THEOREM TypeCorrect == Spec => []TypeOK
<1>1. TypeOK /\ [Next]_vars => TypeOK'
  BY TypeNext
<1> QED
  BY TypeInit, <1>1, PTL DEF Spec

-----------------------------------------------------------------------------
(* Log, the cache's expiry and the services that move no money.            *)
OtherService ==
  \/ BeneficiaryService \/ ChannelService \/ WalletService \/ RegistrationService
  \/ ListingService \/ ConnectionService \/ WorkerService

LEMMA OtherSteps ==
  ASSUME Log \/ (\E m \in Merchants : Lapse(m)) \/ OtherService \/ Idle \/ UNCHANGED vars
  PROVE  UNCHANGED <<walletVars, payoutVars, topUpVars>>
<1>1. CASE Log \/ (\E m \in Merchants : Lapse(m))
  BY <1>1 DEF Log, LogAction, Lapse, Expire, NotData
<1>2. CASE BeneficiaryService
  BY <1>2 DEF BeneficiaryService, NotReviews, BeneficiariesNext, AddBeneficiary, StartReview,
     ReadToVerify, ReadToBlock, RefuseReview, ReviewStep, WriteVerified, WriteBlocked, WriteReview
<1>3. CASE ChannelService
  BY <1>3 DEF ChannelService, NotChannels, ChannelsNext, ChannelArrival, ChannelStep,
     StartChannelCall, EndChannelCall, LookUpAccount, ReadToSelect, RefuseSelect,
     ReadToVerifyChannel, RefuseVerifyChannel, InsertChannel, DuplicateAccount, WriteSelected,
     WriteChannelVerified
<1>4. CASE WalletService
  BY <1>4 DEF WalletService, NotReads, WalletReadsNext, CacheHit, CacheMiss, ReaderStep,
     QueryWallet, FillCache, ReadFails
<1>5. CASE RegistrationService \/ ConnectionService
  BY <1>5 DEF RegistrationService, RegistrationNext, NotUsers, ConnectionService, SocketsNext
<1>6. CASE ListingService \/ WorkerService \/ Idle \/ UNCHANGED vars
  BY <1>6 DEF ListingService, WorkerService, NotJobs, Idle, vars, dataVars
<1> QED
  BY <1>1, <1>2, <1>3, <1>4, <1>5, <1>6 DEF OtherService

-----------------------------------------------------------------------------
(* Locks.                                                                  *)

\* What a step of payout p leaves as it was.
LEMMA GoToFrame ==
  ASSUME PayoutsOK, NEW p \in PayoutIds, NEW from, NEW to, GoTo(p, from, to)
  PROVE  /\ payout[p].pc = from
         /\ payout'[p].pc = to
         /\ payout'[p].call = payout[p].call
         /\ payout'[p].seen = payout[p].seen
         /\ \A q \in PayoutIds \ {p} : payout'[q] = payout[q]
  BY DEF PayoutsOK, GoTo

LEMMA InsertFrame ==
  ASSUME PayoutsOK, NEW p \in PayoutIds, InsertRow(p)
  PROVE  /\ payout[p].pc = "insert"
         /\ payout'[p].pc = "commit"
         /\ payout'[p].call = payout[p].call
         /\ payout'[p].seen = payout[p].seen
         /\ \A q \in PayoutIds \ {p} : payout'[q] = payout[q]
<1>1. PICK t \in Nat : payout' = [payout EXCEPT ![p].pc = "commit", ![p].at = t]
  BY PayoutsAssumption DEF InsertRow, Now
<1>2. payout[p].pc = "insert"
  BY DEF InsertRow
<1> QED
  BY <1>1, <1>2 DEF PayoutsOK

LEMMA ClashFrame ==
  ASSUME PayoutsOK, NEW p \in PayoutIds, DuplicateReference(p)
  PROVE  /\ payout[p].pc = "insert"
         /\ payout'[p].pc = "clash"
         /\ payout'[p].call = payout[p].call
         /\ payout'[p].seen = payout[p].seen
         /\ \A q \in PayoutIds \ {p} : payout'[q] = payout[q]
         /\ rowLock' = Unlocked(p)
         /\ UNCHANGED <<balance, version, ledger, cache, effectVars, jobs>>
<1>1. PICK t \in Nat : payout' = [payout EXCEPT ![p].pc = "clash", ![p].at = t]
  BY PayoutsAssumption DEF DuplicateReference, Now
<1>2. payout[p].pc = "insert"
  BY DEF DuplicateReference
<1>3. rowLock' = Unlocked(p) /\ UNCHANGED <<balance, version, ledger, cache, effectVars, jobs>>
  BY DEF DuplicateReference
<1> QED
  BY <1>1, <1>2, <1>3 DEF PayoutsOK

LEMMA ApprovalGoesFrame ==
  ASSUME TopUpsOK, NEW a \in Approvals, NEW from, NEW to, ApprovalGoes(a, from, to)
  PROVE  /\ approval[a].pc = from
         /\ approval'[a].pc = to
         /\ approval'[a].topUp = approval[a].topUp
         /\ \A d \in Approvals \ {a} : approval'[d] = approval[d]
  BY DEF TopUpsOK, ApprovalGoes

\* What a step of any payout p comes to, as far as locks are concerned.
LEMMA LocksFrame ==
  ASSUME TypeOK, LocksHeld, NEW p \in PayoutIds, approval' = approval,
         \A q \in PayoutIds \ {p} : payout'[q] = payout[q],
         \/ rowLock' = rowLock /\ \A m \in Merchants : PayoutUpdated(p, m)' <=> PayoutUpdated(p, m)
         \/ rowLock' = Unlocked(p) /\ \A m \in Merchants : ~ PayoutUpdated(p, m)'
  PROVE  LocksHeld'
<1>1. \A q \in PayoutIds \ {p}, m \in Merchants : PayoutUpdated(q, m)' <=> PayoutUpdated(q, m)
  BY DEF PayoutUpdated, Sender, Recipient
<1>2. \A a \in Approvals, m \in Merchants : ApprovalUpdated(a, m)' <=> ApprovalUpdated(a, m)
  BY DEF ApprovalUpdated, Beneficial
<1>3. p # Free /\ p \notin Approvals /\ Free \notin PayoutIds /\ Free \notin Approvals
  BY PayoutsAssumption, TopUpsAssumption, BackendAssumption
<1>4. CASE rowLock' = rowLock /\ \A m \in Merchants : PayoutUpdated(p, m)' <=> PayoutUpdated(p, m)
  BY <1>1, <1>2, <1>4 DEF LocksHeld
<1>5. CASE rowLock' = Unlocked(p) /\ \A m \in Merchants : ~ PayoutUpdated(p, m)'
  <2>1. \A m \in Merchants : rowLock'[m] = IF rowLock[m] = p THEN Free ELSE rowLock[m]
    BY <1>5 DEF Unlocked
  <2> QED
    BY <1>1, <1>2, <1>3, <1>5, <2>1 DEF LocksHeld
<1> QED
  BY <1>4, <1>5

LEMMA LocksPayout ==
  ASSUME TypeOK, LocksHeld, NEW p \in PayoutIds, approval' = approval,
         Arrival(p) \/ PayoutStep(p) \/ Fails(p)
  PROVE  LocksHeld'
<1>0. PayoutsOK
  BY DEF TypeOK
<1> USE DEF PayoutUpdated
<1>1. CASE Arrival(p)
  <2>1. PICK c \in Calls, l \in {"replayed", "conflict", "beneficiary"} : Arrive(p, c, l)
    BY <1>1 DEF Arrival, ReplayExisting, KeyTakenByOther, Admit
  <2>2. /\ payout[p].pc = "idle" /\ payout'[p].pc = l
        /\ \A q \in PayoutIds \ {p} : payout'[q] = payout[q]
        /\ rowLock' = rowLock
    BY <1>0, <2>1 DEF Arrive, PayoutsOK, walletVars
  <2> QED
    BY <2>2, LocksFrame
<1>2. CASE ReadWallet(p)
  <2>1. /\ payout[p].pc = "wallet" /\ payout'[p].pc = "debit"
        /\ \A q \in PayoutIds \ {p} : payout'[q] = payout[q]
        /\ rowLock' = rowLock
    BY <1>0, <1>2 DEF ReadWallet, PayoutsOK, walletVars
  <2> QED
    BY <2>1, LocksFrame
<1>3. ASSUME NEW from \in PayoutPC \ InTransaction, NEW to \in PayoutPC \ InTransaction,
             GoTo(p, from, to), rowLock' = rowLock
      PROVE  LocksHeld'
  BY <1>0, <1>3, GoToFrame, LocksFrame
<1>4. CASE \/ CheckBeneficiary(p) \/ RefuseBeneficiary(p) \/ RefuseWallet(p)
           \/ Evict(p) \/ EvictPeer(p) \/ Enqueue(p) \/ LogPayout(p) \/ Finish(p)
  BY <1>3, <1>4 DEF CheckBeneficiary, RefuseBeneficiary, RefuseWallet, Evict, EvictPeer, Enqueue,
     LogPayout, Finish, PayoutPC, walletVars
<1>5. ASSUME NEW from, NEW to \in PayoutPC \ InTransaction,
             GoTo(p, from, to), rowLock' = Unlocked(p)
      PROVE  LocksHeld'
  BY <1>0, <1>5, GoToFrame, LocksFrame
<1>6. CASE LoseRace(p) \/ DuplicateKey(p) \/ DeadlockVictim(p) \/ Fails(p) \/ Commit(p)
  BY <1>5, <1>6 DEF LoseRace, DuplicateKey, DeadlockVictim, Fails, Commit, Rollback, PayoutPC
<1>7. CASE InsertRow(p)
  <2>1. rowLock' = rowLock
    BY <1>7 DEF InsertRow, walletVars
  <2>2. \A m \in Merchants : PayoutUpdated(p, m)' <=> PayoutUpdated(p, m)
    BY <1>0, <1>7, InsertFrame DEF Sender, Recipient
  <2> QED
    BY <1>0, <1>7, <2>1, <2>2, InsertFrame, LocksFrame
\* The two steps that take a lock.
<1>8. ASSUME NEW n \in {Sender(p), Recipient(p)}, Lock(p, n),
             NEW from, NEW to, GoTo(p, from, to),
             \A m \in Merchants :
               PayoutUpdated(p, m)' <=> (PayoutUpdated(p, m) \/ m = n)
      PROVE  LocksHeld'
  <2>1. \A q \in PayoutIds \ {p}, m \in Merchants : PayoutUpdated(q, m)' <=> PayoutUpdated(q, m)
    BY <1>0, <1>8, GoToFrame DEF Sender, Recipient
  <2>2. \A a \in Approvals, m \in Merchants : ApprovalUpdated(a, m)' <=> ApprovalUpdated(a, m)
    BY DEF ApprovalUpdated, Beneficial
  <2>3. p # Free /\ p \notin Approvals /\ Free \notin PayoutIds /\ Free \notin Approvals
    BY PayoutsAssumption, TopUpsAssumption, BackendAssumption
  <2>4. rowLock[n] = Free /\ \A m \in Merchants : rowLock'[m] = IF m = n THEN p ELSE rowLock[m]
    BY <1>8 DEF Lock, TypeOK, WalletsOK
  <2> HIDE DEF PayoutUpdated
  <2>5. \A m \in Merchants : (rowLock'[m] = p) <=> PayoutUpdated(p, m)'
    BY <1>8, <2>4 DEF LocksHeld
  <2>6. \A m \in Merchants, q \in PayoutIds \ {p} : (rowLock'[m] = q) <=> PayoutUpdated(q, m)'
    BY <2>1, <2>3, <2>4 DEF LocksHeld
  <2>7. \A m \in Merchants, a \in Approvals : (rowLock'[m] = a) <=> ApprovalUpdated(a, m)'
    BY <2>2, <2>3, <2>4 DEF LocksHeld
  <2> QED
    BY <2>5, <2>6, <2>7 DEF LocksHeld
<1>9. CASE Debit(p)
  <2>1. PICK to \in {"credit", "insert"} :
          GoTo(p, "debit", to) /\ (to = "insert" <=> Recipient(p) = Bank)
    BY <1>9 DEF Debit, Internal
  <2>2. Bank \notin Merchants
    BY BeneficiariesAssumption
  <2>3. \A m \in Merchants : PayoutUpdated(p, m)' <=> (PayoutUpdated(p, m) \/ m = Sender(p))
    BY <1>0, <2>1, <2>2, GoToFrame DEF Sender, Recipient
  <2> QED
    BY <1>8, <1>9, <2>1, <2>3 DEF Debit
<1>10. CASE Credit(p)
  <2>1. GoTo(p, "credit", "insert") /\ Lock(p, Recipient(p))
    BY <1>10 DEF Credit
  <2>2. \A m \in Merchants : PayoutUpdated(p, m)' <=> (PayoutUpdated(p, m) \/ m = Recipient(p))
    BY <1>0, <2>1, GoToFrame DEF Sender, Recipient
  <2> QED
    BY <1>8, <2>1, <2>2
<1>11. CASE DuplicateReference(p)
  BY <1>0, <1>11, ClashFrame, LocksFrame
<1> QED
  BY <1>1, <1>2, <1>4, <1>6, <1>7, <1>9, <1>10, <1>11 DEF PayoutStep

LEMMA LocksApproval ==
  ASSUME TypeOK, LocksHeld, NEW a \in Approvals, payout' = payout,
         ApprovalArrival(a) \/ ApprovalStep(a) \/ ApprovalFails(a)
  PROVE  LocksHeld'
<1>0. TopUpsOK
  BY DEF TypeOK
<1>1. \A p \in PayoutIds, m \in Merchants : PayoutUpdated(p, m)' <=> PayoutUpdated(p, m)
  BY DEF PayoutUpdated, Sender, Recipient
<1>2. a # Free /\ a \notin PayoutIds /\ Free \notin PayoutIds /\ Free \notin Approvals
  BY PayoutsAssumption, TopUpsAssumption, BackendAssumption
<1>3. ASSUME \A d \in Approvals \ {a} : approval'[d] = approval[d],
             approval[a].pc # "commit", approval'[a].pc # "commit", rowLock' = rowLock
      PROVE  LocksHeld'
  BY <1>1, <1>3 DEF LocksHeld, ApprovalUpdated, Beneficial
<1>4. CASE ApprovalArrival(a)
  <2>1. PICK l \in {"approve", "match", "rejected"}, t \in TopUpIds \union {NoTopUp},
            x \in Transfers \union {NoTransfer}, c \in Channels \union {NoChannel} :
          ApprovalArrives(a, [pc |-> l, topUp |-> t, transfer |-> x, channel |-> c])
    BY <1>4 DEF ApprovalArrival, AdminApproves, WebhookReceived, WebhookUnknown
  <2> QED
    BY <1>0, <1>3, <2>1 DEF ApprovalArrives, TopUpsOK, walletVars
<1>5. CASE MatchOldest(a)
  BY <1>0, <1>3, <1>5 DEF MatchOldest, TopUpsOK, walletVars
<1>6. CASE \/ MatchNone(a) \/ ReadTopUp(a) \/ RefuseTopUp(a)
           \/ EvictApproved(a) \/ LogApproval(a) \/ FinishApproval(a)
  <2>1. PICK from \in ApprovalPC \ {"commit"}, to \in ApprovalPC \ {"commit"} :
          ApprovalGoes(a, from, to) /\ rowLock' = rowLock
    BY <1>6 DEF MatchNone, ReadTopUp, RefuseTopUp, EvictApproved, LogApproval, FinishApproval,
       ApprovalPC, walletVars
  <2> QED
    BY <1>0, <1>3, <2>1, ApprovalGoesFrame
<1>7. CASE CreditWallet(a)
  <2>1. /\ approval[a].pc = "credit" /\ approval'[a].pc = "commit"
        /\ approval'[a].topUp = approval[a].topUp
        /\ \A d \in Approvals \ {a} : approval'[d] = approval[d]
    BY <1>0, <1>7, ApprovalGoesFrame DEF CreditWallet
  <2>2. Beneficial(a) \in Merchants /\ Beneficial(a)' = Beneficial(a)
    BY <1>0, <2>1, ApprovalFields DEF Beneficial
  <2>3. /\ rowLock[Beneficial(a)] = Free
        /\ \A m \in Merchants : rowLock'[m] = IF m = Beneficial(a) THEN a ELSE rowLock[m]
    BY <1>7, <2>2 DEF CreditWallet, Lock, TypeOK, WalletsOK
  <2> QED
    BY <1>1, <1>2, <2>1, <2>2, <2>3 DEF LocksHeld, ApprovalUpdated, Beneficial
<1>8. CASE CommitApproval(a) \/ ApprovalFails(a)
  <2>1. PICK from \in ApprovalPC, to \in {"evict", "failed"} :
          ApprovalGoes(a, from, to) /\ rowLock' = Unlocked(a)
    <3>1. CASE CommitApproval(a)
      BY <3>1 DEF CommitApproval, ApprovalPC
    <3>2. CASE ApprovalFails(a)
      BY <3>2 DEF ApprovalFails, ApprovalPC
    <3> QED
      BY <1>8, <3>1, <3>2
  <2>2. \A m \in Merchants : rowLock'[m] = IF rowLock[m] = a THEN Free ELSE rowLock[m]
    BY <2>1 DEF Unlocked
  <2>3. approval'[a].pc # "commit" /\ \A d \in Approvals \ {a} : approval'[d] = approval[d]
    BY <1>0, <2>1, ApprovalGoesFrame
  <2> QED
    BY <1>1, <1>2, <2>2, <2>3 DEF LocksHeld, ApprovalUpdated, Beneficial
<1> QED
  BY <1>4, <1>5, <1>6, <1>7, <1>8 DEF ApprovalStep

LEMMA LocksNext == TypeOK /\ LocksHeld /\ [Next]_vars => LocksHeld'
<1> SUFFICES ASSUME TypeOK, LocksHeld, [Next]_vars PROVE LocksHeld'
  OBVIOUS
<1>1. ASSUME UNCHANGED <<rowLock, payout, approval>> PROVE LocksHeld'
  BY <1>1 DEF LocksHeld, PayoutUpdated, ApprovalUpdated, Sender, Recipient, Beneficial
<1>2. CASE \/ Log \/ (\E m \in Merchants : Lapse(m)) \/ OtherService \/ Idle \/ UNCHANGED vars
  BY <1>1, <1>2, OtherSteps DEF walletVars, payoutVars, topUpVars
<1>3. CASE PayoutService
  <2>1. PICK p \in PayoutIds : Arrival(p) \/ PayoutStep(p) \/ Fails(p)
    BY <1>3, PayoutsAssumption DEF PayoutService, PayoutsNext
  <2> QED
    BY <1>3, <2>1, LocksPayout DEF PayoutService, NotPayouts, topUpVars
<1>4. CASE TopUpService
  <2>1. CASE \E t \in TopUpIds : RequestTopUp(t)
    BY <1>1, <1>4, <2>1 DEF RequestTopUp, TopUpService, NotTopUps, payoutVars, walletVars
  <2>2. CASE \E a \in Approvals : ApprovalArrival(a) \/ ApprovalStep(a) \/ ApprovalFails(a)
    BY <1>4, <2>2, LocksApproval DEF TopUpService, NotTopUps, payoutVars
  <2> QED
    BY <1>4, <2>1, <2>2 DEF TopUpService, TopUpsNext
<1>5. CASE Crash
  <2>1. \A p \in PayoutIds : payout'[p].pc \notin InTransaction
    BY <1>5 DEF Crash, PayoutsLost, TypeOK, PayoutsOK
  <2>2. \A a \in Approvals : approval'[a].pc # "commit"
    BY <1>5 DEF Crash, ApprovalsLost, TypeOK, TopUpsOK
  <2>3. \A m \in Merchants : rowLock'[m] = Free
    BY <1>5 DEF Crash
  <2> QED
    BY <2>1, <2>2, <2>3, PayoutsAssumption, TopUpsAssumption
       DEF LocksHeld, PayoutUpdated, ApprovalUpdated
<1> QED
  BY <1>2, <1>3, <1>4, <1>5 DEF Next, OtherService

(* A wallet row is locked exactly while a transaction that has updated it  *)
(* is open: whatever fails, is answered early or dies, no wallet stays     *)
(* locked, and no transaction goes on without its locks.                   *)
THEOREM LocksCorrect == Spec => []LocksHeld
<1>1. Init => LocksHeld
  <2> SUFFICES ASSUME Init PROVE LocksHeld
    OBVIOUS
  <2>1. \A m \in Merchants : rowLock[m] = Free
    BY DEF Init, WalletDbInit
  <2>2. /\ \A p \in PayoutIds : payout[p].pc = "idle"
        /\ \A a \in Approvals : approval[a].pc = "idle"
    BY DEF Init, PayoutsInit, TopUpsInit
  <2> QED
    BY <2>1, <2>2, PayoutsAssumption, TopUpsAssumption
       DEF LocksHeld, PayoutUpdated, ApprovalUpdated
<1>2. TypeOK /\ LocksHeld /\ [Next]_vars => LocksHeld'
  BY LocksNext
<1> QED
  BY TypeCorrect, <1>1, <1>2, PTL DEF Spec

-----------------------------------------------------------------------------
(* Money.  OptimisticLock is what makes NonNegativeBalances inductive: a   *)
(* payout that gets to its commit is still covered then, because the row   *)
(* locks of LocksHeld keep every other commit away from its wallet.        *)

Guarded(p) ==
  /\ payout[p].pc = "debit" =>
       /\ payout[p].seen <= version[Sender(p)]
       /\ payout[p].seen = version[Sender(p)] =>
            Covers(balance[Sender(p)], payout[p].call.amount)
  /\ payout[p].pc \in InTransaction =>
       Covers(balance[Sender(p)], payout[p].call.amount)

LEMMA CoversMore ==
  ASSUME NEW b \in Int, NEW c \in Int, NEW a \in Nat, Covers(b, a), c >= b
  PROVE  Covers(c, a)
  BY DEF Covers

\* A payout that stands still while balances rise stays guarded.
LEMMA GuardedWhileRaised ==
  ASSUME TypeOK, TypeOK', NEW q \in PayoutIds, Guarded(q), payout'[q] = payout[q],
         \A m \in Merchants : balance'[m] >= balance[m] /\ version'[m] = version[m]
  PROVE  Guarded(q)'
<1>1. Sender(q)' = Sender(q)
  BY DEF Sender
<1>2. ASSUME payout[q].pc # "idle"
      PROVE  Sender(q) \in Merchants /\ payout[q].call.amount \in Nat
  BY <1>2, CallFields DEF TypeOK, PayoutsOK, Sender
<1>3. \A m \in Merchants : balance[m] \in Int /\ balance'[m] \in Int
  BY DEF TypeOK, WalletsOK
<1>4. ASSUME payout[q].pc # "idle", Covers(balance[Sender(q)], payout[q].call.amount)
      PROVE  Covers(balance'[Sender(q)], payout[q].call.amount)
  BY <1>2, <1>3, <1>4, CoversMore
<1>5. ASSUME payout[q].pc = "debit"
      PROVE  version'[Sender(q)] = version[Sender(q)]
  BY <1>2, <1>5
<1> QED
  BY <1>1, <1>4, <1>5 DEF Guarded

\* A step of any payout before its commit moves no money.
LEMMA GuardedStep ==
  ASSUME TypeOK, NEW p \in PayoutIds, Guarded(p),
         Arrival(p) \/ PayoutStep(p) \/ Fails(p), ~ Commit(p)
  PROVE  Guarded(p)' /\ balance' = balance /\ version' = version
<1>0. PayoutsOK
  BY DEF TypeOK
<1> USE DEF walletVars
<1>1. ASSUME payout'[p].pc \notin {"debit"} \union InTransaction
      PROVE  Guarded(p)'
  BY <1>1 DEF Guarded
<1>2. CASE Arrival(p)
  <2>1. PICK c \in Calls, l \in {"replayed", "conflict", "beneficiary"} : Arrive(p, c, l)
    BY <1>2 DEF Arrival, ReplayExisting, KeyTakenByOther, Admit
  <2>2. payout'[p].pc = l
    BY <1>0, <2>1 DEF Arrive, PayoutsOK
  <2> QED
    BY <1>1, <2>1, <2>2 DEF Arrive
<1>3. CASE ReadWallet(p)
  <2>1. Sender(p) \in Merchants
    BY <1>0, <1>3, CallFields DEF ReadWallet, PayoutsOK, Sender
  <2>2. /\ payout'[p].pc = "debit" /\ payout'[p].seen = version[Sender(p)]
        /\ payout'[p].call = payout[p].call
        /\ balance' = balance /\ version' = version
    BY <1>0, <1>3 DEF ReadWallet, PayoutsOK
  <2>3. version[Sender(p)] \in Nat /\ Covers(balance[Sender(p)], payout[p].call.amount)
    BY <1>3, <2>1 DEF ReadWallet, Affordable, TypeOK, WalletsOK
  <2> QED
    BY <2>2, <2>3 DEF Guarded, Sender
<1>4. ASSUME NEW from, NEW to \in PayoutPC \ ({"debit"} \union InTransaction),
             GoTo(p, from, to)
      PROVE  Guarded(p)'
  BY <1>0, <1>1, <1>4, GoToFrame
<1>5. CASE \/ CheckBeneficiary(p) \/ RefuseBeneficiary(p) \/ RefuseWallet(p)
           \/ Evict(p) \/ EvictPeer(p) \/ Enqueue(p) \/ LogPayout(p) \/ Finish(p)
  <2>1. balance' = balance /\ version' = version
    BY <1>5 DEF CheckBeneficiary, RefuseBeneficiary, RefuseWallet, Evict, EvictPeer, Enqueue,
       LogPayout, Finish
  <2> QED
    BY <1>4, <1>5, <2>1 DEF CheckBeneficiary, RefuseBeneficiary, RefuseWallet, Evict, EvictPeer,
       Enqueue, LogPayout, Finish, PayoutPC
<1>6. CASE LoseRace(p) \/ DuplicateKey(p) \/ DeadlockVictim(p) \/ Fails(p)
  BY <1>4, <1>6 DEF LoseRace, DuplicateKey, DeadlockVictim, Fails, Rollback, PayoutPC
<1>7. CASE Debit(p)
  <2>1. /\ payout[p].pc = "debit" /\ payout'[p].pc # "debit"
        /\ payout'[p].call = payout[p].call
    BY <1>0, <1>7, GoToFrame DEF Debit
  <2>2. version[Sender(p)] = payout[p].seen /\ balance' = balance /\ version' = version
    BY <1>7 DEF Debit
  <2> QED
    BY <2>1, <2>2 DEF Guarded, Sender
<1>8. CASE Credit(p) \/ InsertRow(p)
  <2>1. balance' = balance /\ version' = version
    BY <1>8 DEF Credit, InsertRow
  <2>2. /\ payout[p].pc \in InTransaction /\ payout'[p].pc \in InTransaction
        /\ payout'[p].call = payout[p].call
    BY <1>0, <1>8, GoToFrame, InsertFrame DEF Credit
  <2> QED
    BY <2>1, <2>2 DEF Guarded, Sender
<1>9. CASE DuplicateReference(p)
  BY <1>0, <1>1, <1>9, ClashFrame
<1> QED
  BY <1>2, <1>3, <1>5, <1>6, <1>7, <1>8, <1>9 DEF PayoutStep

\* A commit leaves every other payout guarded: it cannot touch the wallet of
\* one that is in its transaction, and it makes the version of one that is not
\* yet there go past what that one has read.
LEMMA GuardedAtCommit ==
  ASSUME TypeOK, TypeOK', LocksHeld, NEW p \in PayoutIds, Guarded(p), Commit(p),
         NEW q \in PayoutIds, Guarded(q)
  PROVE  Guarded(q)'
<1>0. PayoutsOK /\ WalletsOK
  BY DEF TypeOK
<1>1. /\ payout[p].pc = "commit" /\ payout'[p].pc = "evict"
      /\ \A d \in PayoutIds \ {p} : payout'[d] = payout[d]
  BY <1>0, GoToFrame DEF Commit
<1>2. CASE q = p
  BY <1>1, <1>2 DEF Guarded
<1>3. CASE q # p
  <2>1. payout'[q] = payout[q] /\ Sender(q)' = Sender(q)
    BY <1>1, <1>3 DEF Sender
  <2>2. ASSUME payout[q].pc # "idle" PROVE Sender(q) \in Merchants
    BY <1>0, <2>2, CallFields DEF PayoutsOK, Sender
  <2>3. CASE payout[q].pc = "debit"
    <3>1. CASE Sender(q) \in {Sender(p), Recipient(p)}
      <4>1. version'[Sender(q)] = version[Sender(q)] + 1
        BY <2>2, <2>3, <3>1 DEF Commit, Bumped
      <4>2. version[Sender(q)] \in Nat /\ payout[q].seen \in Nat
        BY <1>0, <2>2, <2>3 DEF WalletsOK, PayoutsOK
      <4>3. payout[q].seen <= version[Sender(q)]
        BY <2>3 DEF Guarded
      <4> QED
        BY <2>1, <2>3, <4>1, <4>2, <4>3 DEF Guarded
    <3>2. CASE Sender(q) \notin {Sender(p), Recipient(p)}
      <4>1. /\ version'[Sender(q)] = version[Sender(q)]
            /\ balance'[Sender(q)] = balance[Sender(q)]
        BY <2>2, <2>3, <3>2 DEF Commit, Bumped, Moved
      <4> QED
        BY <2>1, <2>3, <4>1 DEF Guarded
    <3> QED
      BY <3>1, <3>2
  <2>4. CASE payout[q].pc \in InTransaction
    <3>1. Sender(q) \in Merchants
      BY <2>2, <2>4
    <3>2. rowLock[Sender(q)] = q
      BY <2>4, <3>1 DEF LocksHeld, PayoutUpdated
    <3>3. Sender(q) \notin {Sender(p), Recipient(p)}
      BY <1>1, <1>3, <3>1, <3>2 DEF LocksHeld, PayoutUpdated
    <3>4. balance'[Sender(q)] = balance[Sender(q)]
      BY <3>1, <3>3 DEF Commit, Moved
    <3> QED
      BY <2>1, <2>4, <3>4 DEF Guarded
  <2>5. CASE payout[q].pc \notin {"debit"} \union InTransaction
    BY <2>1, <2>5 DEF Guarded
  <2> QED
    BY <2>3, <2>4, <2>5
<1> QED
  BY <1>2, <1>3

LEMMA NonNegativeAtCommit ==
  ASSUME TypeOK, NonNegativeBalances, NEW p \in PayoutIds, Guarded(p), Commit(p)
  PROVE  NonNegativeBalances'
<1>1. payout[p].pc = "commit"
  BY DEF Commit, GoTo
<1>2. Sender(p) \in Merchants /\ payout[p].call.amount \in Nat
  BY <1>1, CallFields DEF TypeOK, PayoutsOK, Sender
<1>3. Covers(balance[Sender(p)], payout[p].call.amount)
  BY <1>1 DEF Guarded
<1> SUFFICES ASSUME NEW m \in Merchants PROVE balance'[m] >= 0
  BY DEF NonNegativeBalances
<1>4. balance[m] \in Int /\ balance[m] >= 0
  BY DEF TypeOK, WalletsOK, NonNegativeBalances
<1>5. balance'[m] = Moved(p)[m]
  BY DEF Commit
<1>6. CASE m = Sender(p)
  <2>1. balance'[m] = Debited(balance[m], payout[p].call.amount)
    BY <1>5, <1>6 DEF Moved
  <2> QED
    BY <1>2, <1>3, <1>4, <1>6, <2>1, RoundingBounds
<1>7. CASE m # Sender(p) /\ m = Recipient(p)
  <2>1. balance'[m] = Credited(balance[m], payout[p].call.amount)
    BY <1>5, <1>7 DEF Moved
  <2>2. /\ Credited(balance[m], payout[p].call.amount) >= balance[m]
        /\ Credited(balance[m], payout[p].call.amount) \in Int
    BY <1>2, <1>4, RoundingBounds, RoundingTypes
  <2> QED
    BY <1>4, <2>1, <2>2
<1>8. CASE m # Sender(p) /\ m # Recipient(p)
  BY <1>4, <1>5, <1>8 DEF Moved
<1> QED
  BY <1>6, <1>7, <1>8

\* A step of the top-up service lowers no balance.
LEMMA TopUpsRaise ==
  ASSUME TypeOK, TopUpsNext, NEW m \in Merchants
  PROVE  balance'[m] >= balance[m] /\ version'[m] = version[m]
<1>0. balance \in [Merchants -> Int]
  BY DEF TypeOK, WalletsOK
<1>1. CASE UNCHANGED <<balance, version>>
  BY <1>0, <1>1
<1>2. CASE \E t \in TopUpIds : RequestTopUp(t)
  BY <1>1, <1>2 DEF RequestTopUp, walletVars
<1>3. ASSUME NEW a \in Approvals, ApprovalArrival(a)
      PROVE  UNCHANGED <<balance, version>>
  BY <1>3 DEF ApprovalArrival, AdminApproves, WebhookReceived, WebhookUnknown, ApprovalArrives,
     walletVars
<1>4. ASSUME NEW a \in Approvals, CommitApproval(a)
      PROVE  balance'[m] >= balance[m] /\ version'[m] = version[m]
  <2>1. approval[a].topUp \in TopUpIds
    BY <1>4 DEF CommitApproval, ApprovalGoes, TypeOK, TopUpsOK
  <2>2. Asked[approval[a].topUp] \in Nat
    BY <2>1, TopUpsAssumption
  <2>3. Worth(approval[a].topUp) \in Nat
    BY <2>2 DEF Worth, Stored
  <2>4. /\ balance' = [balance EXCEPT ![Beneficial(a)] = @ + Worth(approval[a].topUp)]
        /\ version' = version
    BY <1>4 DEF CommitApproval
  <2> QED
    BY <1>0, <2>3, <2>4
<1>5. ASSUME NEW a \in Approvals, ApprovalStep(a) \/ ApprovalFails(a), ~ CommitApproval(a)
      PROVE  UNCHANGED <<balance, version>>
  BY <1>5 DEF ApprovalStep, ApprovalFails, MatchOldest, MatchNone, ReadTopUp, RefuseTopUp,
     CreditWallet, EvictApproved, LogApproval, FinishApproval, walletVars
<1> QED
  BY <1>1, <1>2, <1>3, <1>4, <1>5 DEF TopUpsNext

\* A step of one payout leaves the others as they were.
LEMMA PayoutsFrame ==
  ASSUME TypeOK, NEW p \in PayoutIds, Arrival(p) \/ PayoutStep(p) \/ Fails(p)
  PROVE  \A q \in PayoutIds \ {p} : payout'[q] = payout[q]
<1>0. PayoutsOK
  BY DEF TypeOK
<1>1. CASE Arrival(p)
  <2>1. PICK c \in Calls, l \in {"replayed", "conflict", "beneficiary"} : Arrive(p, c, l)
    BY <1>1 DEF Arrival, ReplayExisting, KeyTakenByOther, Admit
  <2> QED
    BY <1>0, <2>1 DEF Arrive, PayoutsOK
<1>2. CASE ReadWallet(p)
  BY <1>0, <1>2 DEF ReadWallet, PayoutsOK
<1>3. ASSUME NEW from, NEW to, GoTo(p, from, to)
      PROVE  \A q \in PayoutIds \ {p} : payout'[q] = payout[q]
  BY <1>0, <1>3, GoToFrame
<1>4. CASE \/ CheckBeneficiary(p) \/ RefuseBeneficiary(p) \/ RefuseWallet(p)
           \/ Debit(p) \/ Credit(p) \/ Commit(p)
           \/ Evict(p) \/ EvictPeer(p) \/ Enqueue(p) \/ LogPayout(p) \/ Finish(p)
  BY <1>3, <1>4 DEF CheckBeneficiary, RefuseBeneficiary, RefuseWallet, Debit, Credit,
     Commit, Evict, EvictPeer, Enqueue, LogPayout, Finish
<1>5. CASE LoseRace(p) \/ DuplicateKey(p) \/ DeadlockVictim(p) \/ Fails(p)
  BY <1>3, <1>5 DEF LoseRace, DuplicateKey, DeadlockVictim, Fails, Rollback
<1>6. CASE InsertRow(p) \/ DuplicateReference(p)
  BY <1>0, <1>6, InsertFrame, ClashFrame
<1> QED
  BY <1>1, <1>2, <1>4, <1>5, <1>6 DEF PayoutStep

Solvent == OptimisticLock /\ NonNegativeBalances

LEMMA SolventGuarded == OptimisticLock <=> \A p \in PayoutIds : Guarded(p)
  BY DEF OptimisticLock, Guarded

LEMMA SolventNext ==
  TypeOK /\ TypeOK' /\ LocksHeld /\ Solvent /\ [Next]_vars => Solvent'
<1> SUFFICES ASSUME TypeOK, TypeOK', LocksHeld, Solvent, [Next]_vars PROVE Solvent'
  OBVIOUS
<1>0. /\ \A p \in PayoutIds : Guarded(p)
      /\ NonNegativeBalances
      /\ \A m \in Merchants : balance[m] \in Int /\ balance'[m] \in Int
  BY SolventGuarded DEF Solvent, TypeOK, WalletsOK
<1>1. OptimisticLock' <=> \A p \in PayoutIds : Guarded(p)'
  BY DEF OptimisticLock, Guarded
<1>2. ASSUME payout' = payout,
             \A m \in Merchants : balance'[m] >= balance[m] /\ version'[m] = version[m]
      PROVE  Solvent'
  <2>1. \A q \in PayoutIds : Guarded(q)'
    BY <1>0, <1>2, GuardedWhileRaised
  <2>2. NonNegativeBalances'
    BY <1>0, <1>2 DEF NonNegativeBalances
  <2> QED
    BY <1>1, <2>1, <2>2 DEF Solvent
<1>3. ASSUME UNCHANGED <<balance, version, payout>> PROVE Solvent'
  BY <1>0, <1>2, <1>3
<1>4. CASE \/ Log \/ (\E m \in Merchants : Lapse(m)) \/ OtherService \/ Idle \/ UNCHANGED vars
  BY <1>3, <1>4, OtherSteps DEF walletVars, payoutVars, topUpVars
<1>5. CASE PayoutService
  <2>1. PICK p \in PayoutIds : Arrival(p) \/ PayoutStep(p) \/ Fails(p)
    BY <1>5, PayoutsAssumption DEF PayoutService, PayoutsNext
  <2>2. CASE Commit(p)
    <3>1. \A q \in PayoutIds : Guarded(q)'
      BY <1>0, <2>2, GuardedAtCommit
    <3>2. NonNegativeBalances'
      BY <1>0, <2>2, NonNegativeAtCommit
    <3> QED
      BY <1>1, <3>1, <3>2 DEF Solvent
  <2>3. CASE ~ Commit(p)
    <3>1. Guarded(p)' /\ balance' = balance /\ version' = version
      BY <1>0, <2>1, <2>3, GuardedStep
    <3>2. \A q \in PayoutIds \ {p} : payout'[q] = payout[q]
      BY <2>1, PayoutsFrame
    <3>3. \A q \in PayoutIds \ {p} : Guarded(q)'
      BY <1>0, <3>1, <3>2, GuardedWhileRaised
    <3>4. NonNegativeBalances'
      BY <1>0, <3>1 DEF NonNegativeBalances
    <3> QED
      BY <1>1, <3>1, <3>3, <3>4 DEF Solvent
  <2> QED
    BY <2>2, <2>3
<1>6. CASE TopUpService
  BY <1>2, <1>6, TopUpsRaise DEF TopUpService, NotTopUps, payoutVars
<1>7. CASE Crash
  <2>1. ASSUME NEW p \in PayoutIds
        PROVE  payout'[p].pc \notin {"debit"} \union InTransaction
    <3>1. payout'[p] = IF payout[p].pc \in {"idle"} \union Settled THEN payout[p]
                       ELSE [payout[p] EXCEPT !.pc = "lost"]
      BY <1>7 DEF Crash, PayoutsLost
    <3> QED
      BY <3>1 DEF TypeOK, PayoutsOK
  <2>2. NonNegativeBalances'
    BY <1>0, <1>7 DEF Crash, NonNegativeBalances
  <2> QED
    BY <1>1, <2>1, <2>2 DEF Solvent, Guarded
<1> QED
  BY <1>4, <1>5, <1>6, <1>7 DEF Next, OtherService

LEMMA SolventAlways == Spec => []Solvent
<1>1. Init => Solvent
  <2> SUFFICES ASSUME Init PROVE Solvent
    OBVIOUS
  <2>1. ASSUME NEW p \in PayoutIds PROVE payout[p].pc = "idle"
    BY DEF Init, PayoutsInit
  <2>2. NonNegativeBalances
    <3>1. OpeningBalance \in [Merchants -> Nat]
      BY WalletDbAssumption
    <3>2. balance = OpeningBalance
      BY DEF Init, WalletDbInit
    <3> QED
      BY <3>1, <3>2 DEF NonNegativeBalances
  <2> QED
    BY <2>1, <2>2 DEF Solvent, OptimisticLock
<1>2. TypeOK /\ TypeOK' /\ LocksHeld /\ Solvent /\ [Next]_vars => Solvent'
  BY SolventNext
<1> QED
  BY TypeCorrect, LocksCorrect, <1>1, <1>2, PTL DEF Spec

(* From its read of the wallet to its commit, a payout whose version is    *)
(* still the current one, or which holds the row, is covered by the        *)
(* balance, for any number of payouts and top-ups at once.                 *)
THEOREM OptimisticLockCorrect == Spec => []OptimisticLock
<1>1. Solvent => OptimisticLock
  BY DEF Solvent
<1> QED
  BY SolventAlways, <1>1, PTL

(* No wallet is ever overdrawn, although the balance is compared with the  *)
(* amount outside the transaction that takes it.                           *)
THEOREM NeverOverdrawn == Spec => []NonNegativeBalances
<1>1. Solvent => NonNegativeBalances
  BY DEF Solvent
<1> QED
  BY SolventAlways, <1>1, PTL

-----------------------------------------------------------------------------
(* Idempotency.  The unique index makes a second insert of a key wait for  *)
(* the transaction of the first, so a call that is about to commit knows   *)
(* that its key is in no row and in no other call about to commit.         *)

KeysFresh ==
  \A p \in PayoutIds :
    (payout[p].pc = "commit" /\ payout[p].call.key # NoKey) =>
      /\ \A r \in ledger : r.key # payout[p].call.key
      /\ \A q \in PayoutIds \ {p} :
           payout[q].pc = "commit" => payout[q].call.key # payout[p].call.key

\* A step of a payout that is not about to commit after it, and writes no row.
LEMMA KeysFreshFrame ==
  ASSUME KeysFresh, KeyPaidOnce, NEW p \in PayoutIds, ledger' = ledger,
         \A q \in PayoutIds \ {p} : payout'[q] = payout[q],
         payout'[p].pc # "commit"
  PROVE  KeysFresh' /\ KeyPaidOnce'
  BY DEF KeysFresh, KeyPaidOnce

LEMMA KeysAtInsert ==
  ASSUME TypeOK, KeysFresh, KeyPaidOnce, NEW p \in PayoutIds, InsertRow(p)
  PROVE  KeysFresh' /\ KeyPaidOnce'
<1>1. /\ payout'[p].call = payout[p].call
      /\ \A q \in PayoutIds \ {p} : payout'[q] = payout[q]
  BY InsertFrame DEF TypeOK
<1>2. ledger' = ledger
  BY DEF InsertRow, walletVars
<1>3. payout[p].call.key # NoKey =>
        /\ \A r \in ledger : r.key # payout[p].call.key
        /\ \A q \in PayoutIds \ {p} :
             payout[q].pc = "commit" => payout[q].call.key # payout[p].call.key
  BY DEF InsertRow, RowWithKey, KeyBusy
<1> QED
  BY <1>1, <1>2, <1>3 DEF KeysFresh, KeyPaidOnce

LEMMA KeysAtCommit ==
  ASSUME TypeOK, KeysFresh, KeyPaidOnce, NEW p \in PayoutIds, Commit(p)
  PROVE  KeysFresh' /\ KeyPaidOnce'
<1>1. /\ payout[p].pc = "commit" /\ payout'[p].pc = "evict"
      /\ \A q \in PayoutIds \ {p} : payout'[q] = payout[q]
  BY GoToFrame DEF Commit, TypeOK
<1>2. ledger' = ledger \union {PayoutRow(p)} /\ PayoutRow(p).key = payout[p].call.key
  BY DEF Commit, PayoutRow
<1> QED
  BY <1>1, <1>2 DEF KeysFresh, KeyPaidOnce

\* The top-up service writes no row with a key.
LEMMA TopUpsUseNoKey ==
  ASSUME TopUpsNext
  PROVE  \A r \in ledger' : r \in ledger \/ r.key = NoKey
<1>1. CASE \E t \in TopUpIds : RequestTopUp(t)
  BY <1>1 DEF RequestTopUp, walletVars
<1>2. ASSUME NEW a \in Approvals, ApprovalArrival(a)
      PROVE  ledger' = ledger
  BY <1>2 DEF ApprovalArrival, AdminApproves, WebhookReceived, WebhookUnknown, ApprovalArrives,
     walletVars
<1>3. ASSUME NEW a \in Approvals, CommitApproval(a)
      PROVE  \A r \in ledger' : r \in ledger \/ r.key = NoKey
  BY <1>3 DEF CommitApproval, TopUpRow
<1>4. ASSUME NEW a \in Approvals, ApprovalStep(a) \/ ApprovalFails(a), ~ CommitApproval(a)
      PROVE  ledger' = ledger
  BY <1>4 DEF ApprovalStep, ApprovalFails, MatchOldest, MatchNone, ReadTopUp, RefuseTopUp,
     CreditWallet, EvictApproved, LogApproval, FinishApproval, walletVars
<1> QED
  BY <1>1, <1>2, <1>3, <1>4 DEF TopUpsNext

\* No row of the ledger is ever taken back.
LEMMA TopUpsKeepRows ==
  ASSUME TopUpsNext
  PROVE  ledger \subseteq ledger'
<1>1. CASE \E t \in TopUpIds : RequestTopUp(t)
  BY <1>1 DEF RequestTopUp, walletVars
<1>2. ASSUME NEW a \in Approvals, ApprovalArrival(a)
      PROVE  ledger' = ledger
  BY <1>2 DEF ApprovalArrival, AdminApproves, WebhookReceived, WebhookUnknown, ApprovalArrives,
     walletVars
<1>3. ASSUME NEW a \in Approvals, ApprovalStep(a) \/ ApprovalFails(a)
      PROVE  ledger \subseteq ledger'
  BY <1>3 DEF ApprovalStep, ApprovalFails, MatchOldest, MatchNone, ReadTopUp, RefuseTopUp,
     CreditWallet, CommitApproval, EvictApproved, LogApproval, FinishApproval, walletVars
<1> QED
  BY <1>1, <1>2, <1>3 DEF TopUpsNext

\* Only an insert leads to a commit, and only a commit writes a row.
LEMMA OtherPayoutSteps ==
  ASSUME TypeOK, NEW p \in PayoutIds, Arrival(p) \/ PayoutStep(p) \/ Fails(p),
         ~ Commit(p), ~ InsertRow(p)
  PROVE  ledger' = ledger /\ payout'[p].pc # "commit"
<1>0. PayoutsOK
  BY DEF TypeOK
<1> USE DEF walletVars
<1>1. CASE Arrival(p)
  <2>1. PICK c \in Calls, l \in {"replayed", "conflict", "beneficiary"} : Arrive(p, c, l)
    BY <1>1 DEF Arrival, ReplayExisting, KeyTakenByOther, Admit
  <2> QED
    BY <1>0, <2>1 DEF Arrive, PayoutsOK
<1>2. CASE ReadWallet(p)
  BY <1>0, <1>2 DEF ReadWallet, PayoutsOK
<1>3. ASSUME NEW from, NEW to \in PayoutPC \ {"commit"}, GoTo(p, from, to)
      PROVE  payout'[p].pc # "commit"
  BY <1>0, <1>3, GoToFrame
<1>4. CASE \/ CheckBeneficiary(p) \/ RefuseBeneficiary(p) \/ RefuseWallet(p) \/ Credit(p)
           \/ Evict(p) \/ EvictPeer(p) \/ Enqueue(p) \/ LogPayout(p) \/ Finish(p)
  <2>1. ledger' = ledger
    BY <1>4 DEF CheckBeneficiary, RefuseBeneficiary, RefuseWallet, Credit, Evict, EvictPeer,
       Enqueue, LogPayout, Finish
  <2> QED
    BY <1>3, <1>4, <2>1 DEF CheckBeneficiary, RefuseBeneficiary, RefuseWallet, Credit, Evict,
       EvictPeer, Enqueue, LogPayout, Finish, PayoutPC
<1>5. CASE Debit(p)
  <2>1. GoTo(p, "debit", "credit") \/ GoTo(p, "debit", "insert")
    BY <1>5 DEF Debit
  <2> QED
    BY <1>3, <1>5, <2>1 DEF Debit, PayoutPC
<1>6. CASE LoseRace(p) \/ DuplicateKey(p) \/ DeadlockVictim(p) \/ Fails(p)
  BY <1>3, <1>6 DEF LoseRace, DuplicateKey, DeadlockVictim, Fails, Rollback, PayoutPC
<1>7. CASE DuplicateReference(p)
  BY <1>0, <1>7, ClashFrame
<1> QED
  BY <1>1, <1>2, <1>4, <1>5, <1>6, <1>7 DEF PayoutStep

LEMMA KeysNext ==
  TypeOK /\ TypeOK' /\ KeysFresh /\ KeyPaidOnce /\ [Next]_vars => KeysFresh' /\ KeyPaidOnce'
<1> SUFFICES ASSUME TypeOK, TypeOK', KeysFresh, KeyPaidOnce, [Next]_vars
             PROVE  KeysFresh' /\ KeyPaidOnce'
  OBVIOUS
<1>1. ASSUME payout' = payout, ledger \subseteq ledger',
             \A r \in ledger' : r \in ledger \/ r.key = NoKey
      PROVE  KeysFresh' /\ KeyPaidOnce'
  BY <1>1 DEF KeysFresh, KeyPaidOnce
<1>2. ASSUME UNCHANGED <<ledger, payout>> PROVE KeysFresh' /\ KeyPaidOnce'
  BY <1>1, <1>2
<1>3. CASE \/ Log \/ (\E m \in Merchants : Lapse(m)) \/ OtherService \/ Idle \/ UNCHANGED vars
  BY <1>2, <1>3, OtherSteps DEF walletVars, payoutVars, topUpVars
<1>4. CASE PayoutService
  <2>1. PICK p \in PayoutIds : Arrival(p) \/ PayoutStep(p) \/ Fails(p)
    BY <1>4, PayoutsAssumption DEF PayoutService, PayoutsNext
  <2>2. CASE Commit(p)
    BY <2>2, KeysAtCommit
  <2>3. CASE InsertRow(p)
    BY <2>3, KeysAtInsert
  <2>4. CASE ~ Commit(p) /\ ~ InsertRow(p)
    <3>1. ledger' = ledger /\ payout'[p].pc # "commit"
      BY <2>1, <2>4, OtherPayoutSteps
    <3> QED
      BY <2>1, <3>1, PayoutsFrame, KeysFreshFrame
  <2> QED
    BY <2>2, <2>3, <2>4
<1>5. CASE TopUpService
  <2>1. ledger \subseteq ledger'
    BY <1>5, TopUpsKeepRows DEF TopUpService
  <2> QED
    BY <1>1, <1>5, <2>1, TopUpsUseNoKey DEF TopUpService, NotTopUps, payoutVars
<1>6. CASE Crash
  <2>1. ASSUME NEW p \in PayoutIds PROVE payout'[p].pc # "commit"
    <3>1. payout'[p] = IF payout[p].pc \in {"idle"} \union Settled THEN payout[p]
                       ELSE [payout[p] EXCEPT !.pc = "lost"]
      BY <1>6 DEF Crash, PayoutsLost
    <3> QED
      BY <3>1 DEF TypeOK, PayoutsOK
  <2>2. ledger' = ledger
    BY <1>6 DEF Crash
  <2> QED
    BY <2>1, <2>2 DEF KeysFresh, KeyPaidOnce
<1> QED
  BY <1>3, <1>4, <1>5, <1>6 DEF Next, OtherService

(* However many calls carry an idempotency key, at once or one after the   *)
(* other, at most one of them moves money.                                 *)
THEOREM Idempotent == Spec => []KeyPaidOnce
<1>1. Init => KeysFresh /\ KeyPaidOnce
  <2> SUFFICES ASSUME Init PROVE KeysFresh /\ KeyPaidOnce
    OBVIOUS
  <2>1. ASSUME NEW p \in PayoutIds PROVE payout[p].pc = "idle"
    BY DEF Init, PayoutsInit
  <2>2. ledger = {}
    BY DEF Init, WalletDbInit
  <2> QED
    BY <2>1, <2>2 DEF KeysFresh, KeyPaidOnce
<1>2. TypeOK /\ TypeOK' /\ KeysFresh /\ KeyPaidOnce /\ [Next]_vars => KeysFresh' /\ KeyPaidOnce'
  BY KeysNext
<1> QED
  BY TypeCorrect, <1>1, <1>2, PTL DEF Spec
=============================================================================
