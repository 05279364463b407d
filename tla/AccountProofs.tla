---------------------------- MODULE AccountProofs ----------------------------
(***************************************************************************)
(* Proofs about what surrounds the money: connections, users, payees and   *)
(* channels, for every choice of the constants of Backend.                 *)
(***************************************************************************)
EXTENDS BackendProofs

\* Each part of the state is changed by its own service and by a crash alone.
LEMMA OwnService ==
  ASSUME [Next]_vars
  PROVE  /\ BeneficiaryService \/ Crash \/ UNCHANGED beneficiaryVars
         /\ ChannelService \/ Crash \/ UNCHANGED channelVars
         /\ RegistrationService \/ Crash \/ UNCHANGED registrationVars
         /\ ConnectionService \/ Crash \/ UNCHANGED connectionVars
  BY DEF Next, Log, Lapse, NotData, PayoutService, NotPayouts, TopUpService, NotTopUps,
     BeneficiaryService, NotReviews, ChannelService, NotChannels, RegistrationService, NotUsers,
     WalletService, NotReads, ListingService, ConnectionService, WorkerService, NotJobs, Idle,
     vars, accountVars, clientVars

-----------------------------------------------------------------------------
(* Connections are made in the order of their numbers, so a socket that    *)
(* has just been registered has no newer one beside it.                    *)

InOrder == \A s, t \in Sockets : (s < t /\ link[t] # "new") => link[s] # "new"

LEMMA RegistryStep ==
  ASSUME TypeOK, InOrder, RegistryIsLive, ConnectionService
  PROVE  InOrder' /\ RegistryIsLive'
<1>0. /\ link \in [Sockets -> {"new", "open", "severed", "closed"}]
      /\ registry \in [Merchants -> Sockets \union {NoSocket}]
  BY DEF TypeOK, SocketsOK
<1>1. PICK s \in Sockets : Connect(s) \/ Sever(s) \/ Disconnect(s)
  BY DEF ConnectionService, SocketsNext
<1>2. CASE Connect(s)
  <2>1. /\ link[s] = "new"
        /\ \A t \in Sockets : t < s => link[t] # "new"
        /\ link' = [link EXCEPT ![s] = "open"]
        /\ registry' = [registry EXCEPT ![SocketUser[s]] = s]
    BY <1>2 DEF Connect
  <2>2. \A t \in Sockets : t > s => link[t] = "new"
    BY <2>1, SocketsAssumption DEF InOrder
  <2>3. InOrder'
    BY <1>0, <2>1, <2>2, SocketsAssumption DEF InOrder
  <2>4. ASSUME NEW m \in Merchants, registry'[m] # NoSocket
        PROVE  /\ SocketUser[registry'[m]] = m
               /\ link'[registry'[m]] \in {"open", "severed"}
               /\ \A t \in Sockets : (t > registry'[m] /\ SocketUser[t] = m) => link'[t] = "new"
    <3>1. CASE m = SocketUser[s]
      <4>1. registry'[m] = s /\ link'[s] = "open"
        BY <1>0, <2>1, <3>1
      <4>2. \A t \in Sockets : t > s => link'[t] = "new"
        BY <1>0, <2>1, <2>2, SocketsAssumption
      <4> QED
        BY <3>1, <4>1, <4>2
    <3>2. CASE m # SocketUser[s]
      <4>1. registry'[m] = registry[m] /\ registry[m] # s
        BY <1>0, <2>1, <2>4, <3>2 DEF RegistryIsLive
      <4>2. /\ SocketUser[registry[m]] = m
            /\ link[registry[m]] \in {"open", "severed"}
            /\ \A t \in Sockets : (t > registry[m] /\ SocketUser[t] = m) => link[t] = "new"
        BY <2>4, <4>1 DEF RegistryIsLive, Live
      <4>3. \A t \in Sockets : t # s => link'[t] = link[t]
        BY <1>0, <2>1
      <4>4. registry[m] \in Sockets
        BY <1>0, <2>4, <4>1
      <4> QED
        BY <3>2, <4>1, <4>2, <4>3, <4>4
    <3> QED
      BY <3>1, <3>2
  <2> QED
    BY <2>3, <2>4 DEF RegistryIsLive, Live
<1>3. CASE Sever(s)
  BY <1>0, <1>3 DEF Sever, InOrder, RegistryIsLive, Live
<1>4. CASE Disconnect(s)
  <2>1. /\ link' = [link EXCEPT ![s] = "closed"]
        /\ registry' = [registry EXCEPT ![SocketUser[s]] = NoSocket]
        /\ link[s] # "new"
    BY <1>4 DEF Disconnect, Live
  <2>2. InOrder'
    BY <1>0, <2>1 DEF InOrder
  <2>3. ASSUME NEW m \in Merchants, registry'[m] # NoSocket
        PROVE  registry'[m] = registry[m] /\ registry[m] # s
    BY <1>0, <2>1, <2>3, SocketsAssumption DEF RegistryIsLive
  <2> QED
    BY <1>0, <2>1, <2>2, <2>3 DEF RegistryIsLive, Live
<1> QED
  BY <1>1, <1>2, <1>3, <1>4

(* The registry never has a dead socket or somebody else's, and never one  *)
(* that is older than another connection of its user, in whatever order    *)
(* connections come and are noticed as gone, and across restarts.          *)
THEOREM RegistryCorrect == Spec => []RegistryIsLive
<1>1. Init => InOrder /\ RegistryIsLive
  BY DEF Init, SocketsInit, InOrder, RegistryIsLive
<1>2. TypeOK /\ InOrder /\ RegistryIsLive /\ [Next]_vars => InOrder' /\ RegistryIsLive'
  <2> SUFFICES ASSUME TypeOK, InOrder, RegistryIsLive, [Next]_vars
               PROVE  InOrder' /\ RegistryIsLive'
    OBVIOUS
  <2>1. CASE ConnectionService
    BY <2>1, RegistryStep
  <2>2. CASE Crash
    <3>1. \A m \in Merchants : registry'[m] = NoSocket
      BY <2>2 DEF Crash
    <3>2. \A s \in Sockets : link'[s] = "new" <=> link[s] = "new"
      BY <2>2 DEF Crash, LinksCut
    <3> QED
      BY <3>1, <3>2 DEF InOrder, RegistryIsLive
  <2>3. CASE UNCHANGED connectionVars
    BY <2>3 DEF connectionVars, InOrder, RegistryIsLive, Live
  <2> QED
    BY <2>1, <2>2, <2>3, OwnService
<1> QED
  BY TypeCorrect, <1>1, <1>2, PTL DEF Spec

-----------------------------------------------------------------------------
(* Registrations.  As with keys, the unique columns make a second insert   *)
(* wait, so a call about to commit knows that its address and number are   *)
(* in no row and in no other call about to commit.                         *)

SignupsFresh ==
  \A g \in Signups : signup[g].pc = "commit" =>
    /\ ~ Taken(signup[g].form)
    /\ \A h \in Signups \ {g} :
         signup[h].pc = "commit" => ~ Clashes(UserRow(h), signup[g].form)

\* Every user is the row of a call that was answered 201.
RowsOfCreated ==
  \A u \in users : u.id \in Signups /\ signup[u.id].pc = "created" /\ u = UserRow(u.id)

UsersInv == SignupsFresh /\ RowsOfCreated /\ OneUserPerMailbox

\* What the address of any row is: one that is already in small letters.
LEMMA RowEmail ==
  ASSUME TypeOK, NEW g \in Signups, signup[g].pc # "idle"
  PROVE  /\ UserRow(g).id = g
         /\ UserRow(g).email = Lower[signup[g].form.email]
         /\ UserRow(g).phone = signup[g].form.phone
         /\ Lower[UserRow(g).email] = UserRow(g).email
<1>1. signup[g].form.email \in Emails
  BY DEF TypeOK, RegistrationOK, Forms
<1> QED
  BY <1>1, RegistrationAssumption DEF UserRow, Normalised

\* A step of call g that makes no user and does not lead to a commit.
LEMMA UsersFrame ==
  ASSUME TypeOK, UsersInv, NEW g \in Signups, users' = users,
         \A h \in Signups \ {g} : signup'[h] = signup[h],
         signup[g].pc # "created", signup'[g].pc # "commit"
  PROVE  UsersInv'
<1>1. \A h \in Signups \ {g} : UserRow(h)' = UserRow(h)
  BY DEF UserRow, Normalised
<1>2. RowsOfCreated'
  BY <1>1 DEF UsersInv, RowsOfCreated
<1>3. SignupsFresh'
  BY <1>1 DEF UsersInv, SignupsFresh, Taken, Clashes, Normalised
<1>4. OneUserPerMailbox'
  BY DEF UsersInv, OneUserPerMailbox
<1> QED
  BY <1>2, <1>3, <1>4 DEF UsersInv

LEMMA SignupGoesFrame ==
  ASSUME TypeOK, NEW g \in Signups, NEW from, NEW to, SignupGoes(g, from, to)
  PROVE  /\ signup[g].pc = from
         /\ signup'[g].pc = to
         /\ signup'[g].form = signup[g].form
         /\ \A h \in Signups \ {g} : signup'[h] = signup[h]
  BY DEF TypeOK, RegistrationOK, SignupGoes

LEMMA UsersAtInsert ==
  ASSUME TypeOK, UsersInv, NEW g \in Signups, InsertUser(g)
  PROVE  UsersInv'
<1>1. /\ signup[g].pc = "insert" /\ signup'[g].pc = "commit"
      /\ signup'[g].form = signup[g].form
      /\ \A h \in Signups \ {g} : signup'[h] = signup[h]
      /\ users' = users
  BY SignupGoesFrame DEF InsertUser
<1>2. \A h \in Signups : UserRow(h)' = UserRow(h)
  BY <1>1 DEF UserRow, Normalised
<1>3. ~ Taken(signup[g].form)
  BY DEF InsertUser
<1>4. \A h \in Signups \ {g} :
        signup[h].pc = "commit" => ~ Clashes(UserRow(h), signup[g].form)
  BY DEF InsertUser, RowBusy
<1>5. \A h \in Signups \ {g} :
        signup[h].pc = "commit" => ~ Clashes(UserRow(g), signup[h].form)
  BY <1>1, <1>4, RowEmail DEF Clashes, Normalised
<1>6. SignupsFresh'
  BY <1>1, <1>2, <1>3, <1>4, <1>5 DEF UsersInv, SignupsFresh, Taken, Clashes, Normalised
<1>7. RowsOfCreated' /\ OneUserPerMailbox'
  BY <1>1, <1>2 DEF UsersInv, RowsOfCreated, OneUserPerMailbox
<1> QED
  BY <1>6, <1>7 DEF UsersInv

LEMMA UsersAtCommit ==
  ASSUME TypeOK, UsersInv, NEW g \in Signups, CommitUser(g)
  PROVE  UsersInv'
<1>1. /\ signup[g].pc = "commit" /\ signup'[g].pc = "created"
      /\ signup'[g].form = signup[g].form
      /\ \A h \in Signups \ {g} : signup'[h] = signup[h]
      /\ users' = users \union {UserRow(g)}
  BY SignupGoesFrame DEF CommitUser
<1>2. \A h \in Signups : UserRow(h)' = UserRow(h)
  BY <1>1 DEF UserRow, Normalised
<1>3. ~ Taken(signup[g].form)
  BY <1>1 DEF UsersInv, SignupsFresh
<1>4. ASSUME NEW h \in Signups \ {g}, signup[h].pc = "commit"
      PROVE  ~ Clashes(UserRow(g), signup[h].form)
  BY <1>1, <1>4 DEF UsersInv, SignupsFresh
<1>5. SignupsFresh'
  BY <1>1, <1>2, <1>4 DEF UsersInv, SignupsFresh, Taken, Clashes, Normalised
<1>6. UserRow(g).id = g
  BY <1>1, RowEmail
<1>7. RowsOfCreated'
  BY <1>1, <1>2, <1>6 DEF UsersInv, RowsOfCreated
<1>8. ASSUME NEW u \in users
      PROVE  Lower[u.email] # Lower[UserRow(g).email] /\ u.phone # UserRow(g).phone
  <2>1. u.email # UserRow(g).email /\ u.phone # UserRow(g).phone
    BY <1>1, <1>3, <1>8, RowEmail DEF Taken, Clashes, Normalised
  <2>2. Lower[u.email] = u.email
    BY <1>8, RowEmail DEF UsersInv, RowsOfCreated
  <2> QED
    BY <1>1, <2>1, <2>2, RowEmail
<1>9. OneUserPerMailbox'
  BY <1>1, <1>8 DEF UsersInv, OneUserPerMailbox
<1> QED
  BY <1>5, <1>7, <1>9 DEF UsersInv

LEMMA UsersStep ==
  ASSUME TypeOK, UsersInv, RegistrationService
  PROVE  UsersInv'
<1>1. CASE \E g \in Signups, f \in Forms : LookUpUser(g, f)
  <2>1. PICK g \in Signups, f \in Forms, l \in {"conflict", "insert"} :
          /\ signup[g].pc = "idle"
          /\ signup' = [signup EXCEPT ![g] = [pc |-> l, form |-> f]]
          /\ users' = users
    BY <1>1 DEF LookUpUser
  <2> QED
    BY <2>1, UsersFrame DEF TypeOK, RegistrationOK
<1>2. ASSUME NEW g \in Signups, DuplicateUser(g) \/ SignupFails(g)
      PROVE  UsersInv'
  <2>1. PICK from \in {"insert", "commit"}, to \in {"conflict", "failed"} :
          SignupGoes(g, from, to) /\ users' = users
    BY <1>2 DEF DuplicateUser, SignupFails
  <2> QED
    BY <2>1, SignupGoesFrame, UsersFrame
<1>3. CASE \E e \in Emails : Login(e) \/ LoginUnknown(e)
  <2>1. UNCHANGED <<users, signup>>
    BY <1>3 DEF Login, LoginUnknown, registrationVars
  <2> QED
    BY <2>1 DEF UsersInv, SignupsFresh, RowsOfCreated, OneUserPerMailbox, Taken, Clashes, UserRow,
       Normalised
<1> QED
  BY <1>1, <1>2, <1>3, UsersAtInsert, UsersAtCommit DEF RegistrationService, RegistrationNext

LEMMA UsersAlways == Spec => []UsersInv
<1>1. Init => UsersInv
  BY DEF Init, RegistrationInit, UsersInv, SignupsFresh, RowsOfCreated, OneUserPerMailbox
<1>2. TypeOK /\ UsersInv /\ [Next]_vars => UsersInv'
  <2> SUFFICES ASSUME TypeOK, UsersInv, [Next]_vars PROVE UsersInv'
    OBVIOUS
  <2>1. CASE RegistrationService
    BY <2>1, UsersStep
  <2>2. CASE Crash
    <3>1. /\ users' = users
          /\ \A g \in Signups : signup'[g] = IF signup[g].pc \in {"insert", "commit"}
                                           THEN [signup[g] EXCEPT !.pc = "lost"] ELSE signup[g]
      BY <2>2 DEF Crash, SignupsLost
    <3>2. \A g \in Signups : signup'[g].pc # "commit" /\ signup'[g].form = signup[g].form
      BY <3>1 DEF TypeOK, RegistrationOK
    <3>3. \A g \in Signups : UserRow(g)' = UserRow(g)
      BY <3>2 DEF UserRow, Normalised
    <3> QED
      BY <3>1, <3>2, <3>3 DEF UsersInv, SignupsFresh, RowsOfCreated, OneUserPerMailbox
  <2>3. CASE UNCHANGED registrationVars
    BY <2>3 DEF registrationVars, UsersInv, SignupsFresh, RowsOfCreated, OneUserPerMailbox, Taken,
       Clashes, UserRow, Normalised
  <2> QED
    BY <2>1, <2>2, <2>3, OwnService
<1> QED
  BY TypeCorrect, <1>1, <1>2, PTL DEF Spec

(* However many people register at once, no two users have one mailbox or  *)
(* one phone number.                                                       *)
THEOREM MailboxesUnique == Spec => []OneUserPerMailbox
<1>1. UsersInv => OneUserPerMailbox
  BY DEF UsersInv
<1> QED
  BY UsersAlways, <1>1, PTL

-----------------------------------------------------------------------------
(* What a registration is told and what the log says of users.             *)

UserActions == {"USER_REGISTERED", "LOGIN_SUCCESS"}

\* The other services and the log itself make up no entry about a user.
LEMMA OthersLogOthers ==
  ASSUME [Next]_vars, ~ RegistrationService
  PROVE  \A e \in audit' \union owed' : e \in audit \union owed \/ e[1] \notin UserActions
<1> USE DEF UserActions
<1>1. CASE UNCHANGED logVars
  BY <1>1 DEF logVars
<1>2. CASE Log
  BY <1>2 DEF Log, LogAction
<1>3. CASE BeneficiaryService
  BY <1>3 DEF BeneficiaryService, BeneficiariesNext, AddBeneficiary, StartReview, ReadToVerify,
     ReadToBlock, RefuseReview, ReviewStep, WriteVerified, WriteBlocked, WriteReview, logVars
<1>4. CASE ChannelService
  BY <1>4 DEF ChannelService, ChannelsNext, ChannelArrival, ChannelStep,
     StartChannelCall, EndChannelCall, LookUpAccount, ReadToSelect, RefuseSelect,
     ReadToVerifyChannel, RefuseVerifyChannel, InsertChannel, DuplicateAccount, WriteSelected,
     WriteChannelVerified, logVars
<1>5. ASSUME NEW p \in PayoutIds, Arrival(p) \/ PayoutStep(p) \/ Fails(p)
      PROVE  UNCHANGED logVars \/ (owed' = owed /\ audit' \in {audit, audit \union {<<"PAYOUT_COMPLETED", p>>}})
  BY <1>5 DEF Arrival, Arrive, ReplayExisting, KeyTakenByOther, Admit, PayoutStep,
     CheckBeneficiary, RefuseBeneficiary, ReadWallet, RefuseWallet, LoseRace, Debit, Credit,
     DuplicateKey, DuplicateReference, InsertRow, Commit, Evict, EvictPeer, Enqueue,
     LogPayout, Finish, DeadlockVictim, Fails, Rollback, effectVars, logVars
<1>6. CASE PayoutService
  BY <1>1, <1>5, <1>6, PayoutsAssumption DEF PayoutService, PayoutsNext
<1>7. ASSUME NEW a \in Approvals, ApprovalArrival(a) \/ ApprovalStep(a) \/ ApprovalFails(a)
      PROVE  UNCHANGED logVars \/ (owed' = owed /\ audit' \in {audit, audit \union {<<"TOPUP_APPROVED", a>>}})
  BY <1>7 DEF ApprovalArrival, AdminApproves, WebhookReceived, WebhookUnknown, ApprovalArrives,
     ApprovalStep, ApprovalFails, MatchOldest, MatchNone, ReadTopUp, RefuseTopUp, CreditWallet,
     CommitApproval, EvictApproved, LogApproval, FinishApproval, effectVars, logVars
<1>8. CASE TopUpService
  <2>1. CASE \E t \in TopUpIds : RequestTopUp(t)
    BY <2>1 DEF RequestTopUp
  <2> QED
    BY <1>1, <1>7, <1>8, <2>1 DEF TopUpService, TopUpsNext
<1>9. CASE Crash
  BY <1>9 DEF Crash
<1>10. CASE (\E m \in Merchants : Lapse(m)) \/ WalletService
  BY <1>1, <1>10 DEF Lapse, Expire, WalletService, WalletReadsNext, CacheHit, CacheMiss,
     ReaderStep, QueryWallet, FillCache, ReadFails
<1>11. CASE ListingService \/ ConnectionService \/ WorkerService \/ Idle \/ UNCHANGED vars
  BY <1>1, <1>11 DEF ListingService, ConnectionService, SocketsNext, WorkerService, NotJobs, Idle,
     vars, dataVars, effectVars
<1> QED
  BY <1>2, <1>3, <1>4, <1>6, <1>8, <1>9, <1>10, <1>11 DEF Next

LEMMA AnswersStep ==
  ASSUME TypeOK, UsersInv, RegistrationAnswersAreTrue, RegistrationService
  PROVE  RegistrationAnswersAreTrue'
<1>0. audit' = audit
  BY DEF RegistrationService, RegistrationNext
<1> DEFINE About(e) == e[1] \in {"USER_REGISTERED", "LOGIN_SUCCESS"} =>
                         \E u \in users' : u.id = e[2]
<1> SUFFICES
      /\ \A g \in Signups :
           /\ signup'[g].pc = "created" => UserRow(g)' \in users'
           /\ signup'[g].pc = "conflict" =>
                \E u \in users' : u.id # g /\ Clashes(u, signup'[g].form)
      /\ wallets' = {u.id : u \in users'}
      /\ \A e \in audit' \union owed' : About(e)
  BY DEF RegistrationAnswersAreTrue, Clashes, Normalised
\* Steps that make no user.
<1>1. ASSUME NEW g \in Signups, signup[g].pc # "created", signup'[g].pc # "created",
             \A h \in Signups \ {g} : signup'[h] = signup[h],
             UNCHANGED <<users, wallets, owed>>,
             signup'[g].pc = "conflict" => Taken(signup'[g].form)
      PROVE  RegistrationAnswersAreTrue'
  <2>1. \A h \in Signups \ {g} : UserRow(h)' = UserRow(h)
    BY <1>1 DEF UserRow, Normalised
  <2>2. signup'[g].pc = "conflict" =>
          \E u \in users : u.id # g /\ Clashes(u, signup'[g].form)
    BY <1>1 DEF Taken, UsersInv, RowsOfCreated
  <2> QED
    BY <1>0, <1>1, <2>1, <2>2 DEF RegistrationAnswersAreTrue, Clashes, Normalised
<1>2. CASE \E g \in Signups, f \in Forms : LookUpUser(g, f)
  <2>1. PICK g \in Signups, f \in Forms :
          /\ signup[g].pc = "idle"
          /\ signup' = [signup EXCEPT ![g] =
               [pc |-> IF Taken(f) THEN "conflict" ELSE "insert", form |-> f]]
          /\ UNCHANGED <<users, wallets, owed>>
    BY <1>2 DEF LookUpUser
  <2>2. /\ signup'[g].pc = (IF Taken(f) THEN "conflict" ELSE "insert")
        /\ signup'[g].form = f
        /\ \A h \in Signups \ {g} : signup'[h] = signup[h]
    BY <2>1 DEF TypeOK, RegistrationOK
  <2>3. RegistrationAnswersAreTrue'
    BY <1>1, <2>1, <2>2
  <2> QED
    BY <2>3 DEF RegistrationAnswersAreTrue, Clashes, Normalised
<1>3. ASSUME NEW g \in Signups, InsertUser(g) \/ DuplicateUser(g) \/ SignupFails(g)
      PROVE  RegistrationAnswersAreTrue'
  <2>1. PICK from \in {"insert", "commit"}, to \in {"commit", "conflict", "failed"} :
          /\ SignupGoes(g, from, to)
          /\ UNCHANGED <<users, wallets, owed>>
          /\ to = "conflict" => Taken(signup[g].form)
    BY <1>3 DEF InsertUser, DuplicateUser, SignupFails
  <2> QED
    BY <1>1, <2>1, SignupGoesFrame
<1>4. ASSUME NEW g \in Signups, CommitUser(g)
      PROVE  RegistrationAnswersAreTrue'
  <2>1. /\ signup[g].pc = "commit" /\ signup'[g].pc = "created"
        /\ signup'[g].form = signup[g].form
        /\ \A h \in Signups \ {g} : signup'[h] = signup[h]
        /\ users' = users \union {UserRow(g)}
        /\ wallets' = wallets \union {g}
        /\ owed' = owed \union {<<"USER_REGISTERED", g>>}
    BY <1>4, SignupGoesFrame DEF CommitUser
  <2>2. \A h \in Signups : UserRow(h)' = UserRow(h)
    BY <2>1 DEF UserRow, Normalised
  <2>3. UserRow(g).id = g
    BY DEF UserRow
  <2>4. \A h \in Signups :
          /\ signup'[h].pc = "created" => UserRow(h)' \in users'
          /\ signup'[h].pc = "conflict" =>
               \E u \in users' : u.id # h /\ Clashes(u, signup'[h].form)
    BY <2>1, <2>2 DEF RegistrationAnswersAreTrue
  <2>5. wallets' = {u.id : u \in users'}
    BY <2>1, <2>3 DEF RegistrationAnswersAreTrue
  <2>6. \A e \in audit' \union owed' : About(e)
    BY <1>0, <2>1, <2>3 DEF RegistrationAnswersAreTrue
  <2> QED
    BY <2>4, <2>5, <2>6 DEF RegistrationAnswersAreTrue, Clashes, Normalised
<1>5. CASE \E e \in Emails : Login(e) \/ LoginUnknown(e)
  <2>1. /\ UNCHANGED <<users, wallets, signup>>
        /\ \A e \in owed' : e \in owed \/ e[1] = "LOGIN_FAILED" \/ \E u \in users : u.id = e[2]
    BY <1>5 DEF Login, LoginUnknown, Found, registrationVars
  <2>2. \A h \in Signups : UserRow(h)' = UserRow(h)
    BY <2>1 DEF UserRow, Normalised
  <2> QED
    BY <1>0, <2>1, <2>2 DEF RegistrationAnswersAreTrue
<1>6. RegistrationAnswersAreTrue' \/ \E e \in Emails : Login(e) \/ LoginUnknown(e)
  BY <1>2, <1>3, <1>4 DEF RegistrationService, RegistrationNext, RegistrationAnswersAreTrue, Clashes,
     Normalised
<1> QED
  BY <1>5, <1>6 DEF RegistrationAnswersAreTrue, Clashes, Normalised

(* A registration is answered 201 only if its user and that user's wallet  *)
(* exist, 409 only if somebody else has the address or the number, and the *)
(* log names no user that does not exist.                                  *)
THEOREM RegistrationAnswersCorrect == Spec => []RegistrationAnswersAreTrue
<1>1. Init => RegistrationAnswersAreTrue
  BY DEF Init, RegistrationInit, WalletDbInit, RegistrationAnswersAreTrue
<1>2. TypeOK /\ UsersInv /\ RegistrationAnswersAreTrue /\ [Next]_vars => RegistrationAnswersAreTrue'
  <2> SUFFICES ASSUME TypeOK, UsersInv, RegistrationAnswersAreTrue, [Next]_vars
               PROVE  RegistrationAnswersAreTrue'
    OBVIOUS
  <2>1. CASE RegistrationService
    BY <2>1, AnswersStep
  <2>2. CASE ~ RegistrationService
    <3>1. \A e \in audit' \union owed' : e \in audit \union owed \/ e[1] \notin UserActions
      BY <2>2, OthersLogOthers
    <3>2. /\ users' = users /\ wallets' = wallets
          /\ \A g \in Signups :
               /\ signup'[g].form = signup[g].form
               /\ signup'[g].pc \in {"created", "conflict"} => signup'[g].pc = signup[g].pc
      <4>1. CASE Crash
        BY <4>1 DEF Crash, SignupsLost, TypeOK, RegistrationOK
      <4>2. CASE UNCHANGED registrationVars
        BY <4>2 DEF registrationVars
      <4> QED
        BY <2>2, <4>1, <4>2, OwnService
    <3>3. \A g \in Signups : UserRow(g)' = UserRow(g)
      BY <3>2 DEF UserRow, Normalised
    <3>4. \A e \in audit' \union owed' :
            e[1] \in {"USER_REGISTERED", "LOGIN_SUCCESS"} => \E u \in users' : u.id = e[2]
      BY <3>1, <3>2 DEF RegistrationAnswersAreTrue, UserActions
    <3> QED
      BY <3>2, <3>3, <3>4 DEF RegistrationAnswersAreTrue, Clashes, Normalised
  <2> QED
    BY <2>1, <2>2
<1> QED
  BY TypeCorrect, UsersAlways, <1>1, <1>2, PTL DEF Spec

(* Whoever was told 201 is found by login, and nobody else, in whatever    *)
(* letters the address is typed: what register stored is what login looks  *)
(* for, whoever has registered since.                                      *)
THEOREM RegisteredLogIn == Spec => []RegisteredCanLogIn
<1>1. TypeOK /\ UsersInv /\ RegistrationAnswersAreTrue => RegisteredCanLogIn
  <2> SUFFICES ASSUME TypeOK, UsersInv, RegistrationAnswersAreTrue,
                      NEW g \in Signups, NEW e \in Emails, signup[g].pc = "created",
                      Lower[e] = Lower[signup[g].form.email]
               PROVE  Found(e) = {UserRow(g)}
    BY DEF RegisteredCanLogIn
  <2>1. UserRow(g) \in users /\ UserRow(g).email = LoginAddress(e)
    <3>1. UserRow(g) \in users
      BY DEF RegistrationAnswersAreTrue
    <3>2. signup[g].pc # "idle"
      OBVIOUS
    <3>3. UserRow(g).email = Lower[signup[g].form.email]
      BY <3>2, RowEmail
    <3> QED
      BY <3>1, <3>3 DEF LoginAddress
  <2>2. ASSUME NEW u \in users, u.email = LoginAddress(e)
        PROVE  u = UserRow(g)
    BY <2>1, <2>2 DEF UsersInv, OneUserPerMailbox
  <2> QED
    BY <2>1, <2>2 DEF Found
<1> QED
  BY TypeCorrect, UsersAlways, RegistrationAnswersCorrect, <1>1, PTL

-----------------------------------------------------------------------------
(* The commit of a registration is the indivisible step of Directory.      *)

LEMMA CommitRegisters ==
  ASSUME TypeOK, UsersInv, NEW g \in Signups, CommitUser(g)
  PROVE  Directory!Next
<1>1. /\ signup[g].pc = "commit"
      /\ users' = users \union {UserRow(g)} /\ wallets' = wallets \union {g}
  BY DEF CommitUser, SignupGoes
<1>2. signup'[g].pc = "created" /\ signup[g].form \in Forms
  BY <1>1, SignupGoesFrame DEF CommitUser, TypeOK, RegistrationOK
<1>3. \A u \in users : u.id # g
  BY <1>1 DEF UsersInv, RowsOfCreated
<1>4. \A u \in users : u.email # Lower[signup[g].form.email] /\ u.phone # signup[g].form.phone
  BY <1>1 DEF UsersInv, SignupsFresh, Taken, Clashes, Normalised
<1>5. Directory!Register(g, Lower[signup[g].form.email], signup[g].form.phone)
  BY <1>1, <1>3, <1>4 DEF Directory!Register, UserRow, Normalised
<1> QED
  BY <1>2, <1>5 DEF Directory!Next, Forms

(* The backend implements Directory: nothing of the look-up, the hash, the *)
(* two inserts and the failures between them shows in the users.           *)
THEOREM DirectoryImplemented == Spec => ImplementsDirectory
<1>1. Init => Directory!Init
  BY DEF Init, RegistrationInit, Directory!Init
<1>2. TypeOK /\ UsersInv /\ [Next]_vars => [Directory!Next]_(Directory!directoryVars)
  <2> SUFFICES ASSUME TypeOK, UsersInv, [Next]_vars
               PROVE  Directory!Next \/ UNCHANGED Directory!directoryVars
    OBVIOUS
  <2>1. CASE RegistrationService
    <3>1. (\E g \in Signups : CommitUser(g)) \/ UNCHANGED <<users, wallets>>
      BY <2>1 DEF RegistrationService, RegistrationNext, LookUpUser, InsertUser, DuplicateUser,
         SignupFails, Login, LoginUnknown, registrationVars
    <3> QED
      BY <3>1, CommitRegisters DEF Directory!directoryVars
  <2>2. CASE Crash \/ UNCHANGED registrationVars
    BY <2>2 DEF Crash, registrationVars, Directory!directoryVars
  <2> QED
    BY <2>1, <2>2, OwnService
<1> QED
  BY TypeCorrect, UsersAlways, <1>1, <1>2, PTL DEF Spec, ImplementsDirectory, Directory!Spec
=============================================================================
