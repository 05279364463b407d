------------------------------ MODULE Backend ------------------------------
(***************************************************************************)
(* The backend: the services of the API process side by side over one      *)
(* database and one cache, the connections of its clients, and the worker  *)
(* processes of its queue.  Node runs one handler at a time, and each      *)
(* handler gives way at every await, so a step of the process is a step of *)
(* one call of one service.                                                *)
(***************************************************************************)
EXTENDS Worker, Listing, TopUps, WalletReads, Registration, FiniteSetsExt

CONSTANT CanCrash  \* whether the process may die and be started again

ASSUME BackendAssumption ==
  /\ CanCrash \in BOOLEAN
  /\ PayoutIds \intersect Approvals = {}

dataVars    == <<walletVars, cache, effectVars>>
accountVars == <<beneficiaryVars, channelVars, registrationVars>>
clientVars  == <<reader, pager, connectionVars>>

vars == <<dataVars, accountVars, clientVars, payoutVars, topUpVars, workerVars>>

Init ==
  /\ WalletDbInit
  /\ BeneficiariesInit
  /\ PayoutsInit
  /\ ChannelsInit
  /\ TopUpsInit
  /\ WalletReadsInit
  /\ SocketsInit
  /\ WorkerInit
  /\ ListingInit
  /\ RegistrationInit

-----------------------------------------------------------------------------
(* Who changes what: each service, and what it leaves alone.               *)
NotPayouts  == UNCHANGED <<accountVars, clientVars, topUpVars, workerVars>>
NotTopUps   == UNCHANGED <<accountVars, clientVars, payoutVars, workerVars>>
NotReads    == UNCHANGED <<accountVars, payoutVars, topUpVars, workerVars, pushed,
                           pager, connectionVars>>
NotReviews  == UNCHANGED <<channelVars, registrationVars, clientVars, payoutVars,
                           topUpVars, workerVars, pushed>>
NotChannels == UNCHANGED <<beneficiaryVars, registrationVars, clientVars, payoutVars,
                           topUpVars, workerVars, pushed>>
NotUsers    == UNCHANGED <<beneficiaryVars, channelVars, clientVars, payoutVars,
                           topUpVars, workerVars, pushed>>
NotJobs     == UNCHANGED <<dataVars, accountVars, clientVars, payoutVars, topUpVars>>
NotData     == UNCHANGED <<accountVars, clientVars, payoutVars, topUpVars, workerVars, pushed>>

Log      == LogAction /\ NotData
Lapse(m) == Expire(m) /\ NotData

PayoutService       == PayoutsNext /\ NotPayouts
TopUpService        == TopUpsNext /\ NotTopUps
BeneficiaryService  == BeneficiariesNext /\ NotReviews
ChannelService      == ChannelsNext /\ NotChannels
RegistrationService == RegistrationNext /\ NotUsers
WalletService       == WalletReadsNext /\ NotReads
WorkerService       == WorkerNext /\ NotJobs

ListingService ==
  /\ ListingNext
  /\ UNCHANGED <<dataVars, accountVars, reader, connectionVars, payoutVars,
                 topUpVars, workerVars>>

ConnectionService ==
  /\ SocketsNext
  /\ UNCHANGED <<accountVars, reader, pager, payoutVars, topUpVars, workerVars>>

(* The API process dies: what its calls had not done is never done,        *)
(* PostgreSQL rolls their transactions back, and the registry is empty in  *)
(* the next process.  Tables, cache and queue stay, workers run on, and a  *)
(* client goes on paging with the cursor it has.                           *)
Crash ==
  /\ CanCrash
  /\ rowLock' = [m \in Merchants |-> Free]
  /\ owed' = {}
  /\ review' = ReviewsLost
  /\ payout' = PayoutsLost
  /\ channelCall' = ChannelCallsLost
  /\ approval' = ApprovalsLost
  /\ reader' = ReadersLost
  /\ signup' = SignupsLost
  /\ link' = LinksCut
  /\ registry' = [m \in Merchants |-> NoSocket]
  /\ UNCHANGED <<balance, version, ledger, cache, audit, pushed, benStatus, jobs, chStatus,
                 selected, topUpStatus, users, wallets, pager, workerVars>>

(* No call is under way, so the process has nothing to do.                 *)
Idle ==
  /\ owed = {}
  /\ \A v \in Reviews : review[v].pc \in {"idle", "done"}
  /\ \A p \in PayoutIds : payout[p].pc \in {"idle"} \union Settled
  /\ \A o \in ChannelCalls : channelCall[o].pc \in {"idle", "done"}
  /\ \A a \in Approvals : approval[a].pc \in {"idle"} \union Answered
  /\ \A r \in Readers : reader[r].pc \in {"idle", "served", "failed"}
  /\ \A g \in Signups : signup[g].pc \notin {"insert", "commit"}
  /\ UNCHANGED vars

Next ==
  \/ Log
  \/ \E m \in Merchants : Lapse(m)
  \/ BeneficiaryService
  \/ PayoutService
  \/ ChannelService
  \/ TopUpService
  \/ WalletService
  \/ RegistrationService
  \/ ListingService
  \/ ConnectionService
  \/ WorkerService
  \/ Crash
  \/ Idle

Spec == Init /\ [][Next]_vars

-----------------------------------------------------------------------------
(* A call that has arrived is run on: the event loop, PostgreSQL and Redis *)
(* each answer what they are asked, a row lock passes to a waiter, and a   *)
(* deadlock is broken.  As long as some worker runs, a waiting job is      *)
(* taken and a job whose worker has left it is found; and a handler ends,  *)
(* and its report is answered.  Nothing says that a request arrives, that  *)
(* an await rejects, that a lock expires under its worker, that a process  *)
(* dies, or that a worker that died is started again.                      *)
PayoutRuns(p)   == PayoutStep(p) /\ NotPayouts
ApprovalRuns(a) == ApprovalStep(a) /\ NotTopUps
ReaderRuns(r)   == ReaderStep(r) /\ NotReads
ReviewRuns(v)   == ReviewStep(v) /\ NotReviews
ChannelRuns(o)  == ChannelStep(o) /\ NotChannels
SignupRuns(g)   ==
  /\ InsertUser(g) \/ DuplicateUser(g) \/ CommitUser(g)
  /\ UNCHANGED <<walletVars, cache, audit>>
  /\ NotUsers
JobTaken        == (\E w \in Workers : TakeJob(w)) /\ NotJobs
HandlerEnds(w)  == EndHandler(w) /\ NotJobs
ReportEnds(w)   == (CompleteJob(w) \/ RefuseReport(w)) /\ NotJobs
StallFound(p)   == Abandoned(p) /\ StallJob(p) /\ NotJobs

Fairness ==
  /\ WF_vars(Log)
  /\ \A p \in PayoutIds : WF_vars(PayoutRuns(p))
  /\ \A a \in Approvals : WF_vars(ApprovalRuns(a))
  /\ \A r \in Readers : WF_vars(ReaderRuns(r))
  /\ \A v \in Reviews : WF_vars(ReviewRuns(v))
  /\ \A o \in ChannelCalls : WF_vars(ChannelRuns(o))
  /\ \A g \in Signups : WF_vars(SignupRuns(g))
  /\ WF_vars(JobTaken)
  /\ \A w \in Workers : WF_vars(HandlerEnds(w)) /\ WF_vars(ReportEnds(w))
  /\ \A p \in PayoutIds : WF_vars(StallFound(p))

FairSpec == Spec /\ Fairness
=============================================================================
