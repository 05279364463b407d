----------------------------- MODULE MCBackend -----------------------------
(***************************************************************************)
(* Small worlds for TLC.  A beneficiary is the triple of its owner, its    *)
(* payee and its account; a channel the triple of its holder, its account  *)
(* number and its bank.  The cfg files choose among the sets below.        *)
(***************************************************************************)
EXTENDS Divergences, TLC

CONSTANTS A, B, C,  \* three merchants
          k1, k2    \* two idempotency keys

\* A cent, a cent and a half, and a cent and three quarters, in quarter-cents.
Cent      == 4
HalfMore  == 6
AlmostTwo == 7

MCOwner   == [b \in Beneficiaries |-> b[1]]
MCPeer    == [b \in Beneficiaries |-> b[2]]
MCAccount == [b \in Beneficiaries |-> b[3]]

MCHolder        == [c \in Channels |-> c[1]]
MCAccountNumber == [c \in Channels |-> c[2]]
MCIfsc          == [c \in Channels |-> c[3]]

AllVerified  == [b \in Beneficiaries |-> "VERIFIED"]
NoneAdded    == [b \in Beneficiaries |-> "none"]
AllPending   == [b \in Beneficiaries |-> "PENDING"]
AllChecked   == [c \in Channels |-> "VERIFIED"]
NoneOpened   == [c \in Channels |-> "none"]
NoneSelected == [m \in Merchants |-> NoChannel]
NoneAsked    == [t \in TopUpIds |-> "none"]
AllAsked     == [t \in TopUpIds |-> "PENDING"]
ACents       == [t \in TopUpIds |-> Cent]

\* Every merchant asks, A for a cent and a half first.
MCRequester == [t \in TopUpIds |-> CASE t = 3 -> B [] t = 4 -> C [] OTHER -> A]
MCAsked     == [t \in TopUpIds |-> IF t = 1 THEN HalfMore ELSE Cent]

OwnSelected ==
  [m \in Merchants |->
     IF \E c \in Channels : c[1] = m THEN CHOOSE c \in Channels : c[1] = m
     ELSE NoChannel]

\* A connects twice, B once.
MCSocketUser == [s \in Sockets |-> IF s = 3 THEN B ELSE A]

\* One mailbox in two spellings, and another.
MCEmails == {"a@x", "A@x", "b@x"}
MCLower  == [e \in Emails |-> IF e = "A@x" THEN "a@x" ELSE e]

TwoCentsEach   == [m \in Merchants |-> 2]
OneAndTwoCents == [m \in Merchants |-> IF m = A THEN 1 ELSE 2]

-----------------------------------------------------------------------------
AtoB  == <<A, B, 1>>
BtoA  == <<B, A, 1>>
AtoX  == <<A, Bank, 1>>
BtoX  == <<B, Bank, 1>>
AtoA  == <<A, A, 1>>
AtoX2 == <<A, Bank, 1, 2>>
AtoC  == <<A, C, 1>>
CtoA  == <<C, A, 1>>

Payees      == {AtoB, BtoA, AtoX}
CrossPayees == {AtoB, BtoA}
ThreePayees == Payees \union {AtoC, CtoA}
OutPayees   == {AtoX, BtoX}
NewPayees   == {AtoB, AtoX, AtoX2, AtoA}

Pay(b, amount, k) ==
  [merchant |-> b[1], beneficiary |-> b, amount |-> amount, key |-> k]

\* Money to and fro between the wallets, and out to a bank in an amount that
\* PostgreSQL rounds; two merchants that use the same key.
PayoutCalls ==
  {Pay(AtoB, 2 * Cent, k1), Pay(BtoA, Cent, k1), Pay(AtoX, HalfMore, NoKey),
   Pay(BtoA, 3 * Cent, NoKey)}

\* The same in more amounts that PostgreSQL rounds, and payouts to and from C.
MixedCalls ==
  {Pay(AtoB, 2 * Cent, k1), Pay(BtoA, Cent, k1), Pay(AtoX, HalfMore, NoKey),
   Pay(BtoA, AlmostTwo, NoKey), Pay(AtoC, Cent, NoKey), Pay(CtoA, Cent, NoKey)}

\* A payee of the caller's own, by wallet and by bank account, and a payee of
\* somebody else.
NewPayeeCalls ==
  {Pay(AtoB, Cent, NoKey), Pay(AtoX2, Cent, NoKey),
   [merchant |-> B, beneficiary |-> AtoX, amount |-> Cent, key |-> NoKey]}

\* Payouts of two merchants that all end up in the list.
ListedCalls == {Pay(AtoX, Cent, NoKey), Pay(BtoX, Cent, NoKey)}

\* Payouts in opposite directions.
CrossCalls == {Pay(AtoB, Cent, NoKey), Pay(BtoA, Cent, NoKey)}

\* A has an account at one bank, B one with the same number at another.
ChA  == <<A, 1, 1>>
ChB  == <<B, 1, 2>>
ChB2 == <<B, 1, 1>>

OneChannel   == {ChA}
SomeChannels == {ChA, ChB}
NewChannels  == {ChA, ChB, ChB2}

\* What the bank sends: its reference, the account number and the amount.
Transfer(ref, number, amount) == [reference |-> ref, account |-> number, amount |-> amount]

TransfersSeen == {Transfer(1, 1, Cent), Transfer(2, 1, 2 * Cent)}

\* Payees, channels and users are kept apart by the code: a world where only
\* one of the three services has been called, and at most one login is logged.
PayeesUntouched   == benStatus = InitialBeneficiary /\ \A p \in PayoutIds : payout[p].pc = "idle"
ReviewsUntouched  == \A v \in Reviews : review[v].pc = "idle"
ChannelsUntouched == \A o \in ChannelCalls : channelCall[o].pc = "idle"
Logins == {e \in audit \union owed : e[1] \in {"LOGIN_SUCCESS", "LOGIN_FAILED"}}
UsersUntouched == Logins = {} /\ \A g \in Signups : signup[g].pc = "idle"

OneServiceAtATime ==
  \/ PayeesUntouched /\ ReviewsUntouched /\ ChannelsUntouched /\ Cardinality(Logins) <= 1
  \/ PayeesUntouched /\ ReviewsUntouched /\ UsersUntouched
  \/ ChannelsUntouched /\ UsersUntouched

\* Approvals do not look at payouts, nor the list of payouts at top-ups: a
\* world with either; and at most two payouts under way, one of which can be
\* inserted first and committed last.
UnderWay == {p \in PayoutIds : payout[p].pc \notin {"idle"} \union Settled}

ApprovalsOrPages ==
  \/ /\ topUpStatus = InitialTopUp /\ \A a \in Approvals : approval[a].pc = "idle"
     /\ Cardinality(UnderWay) <= 2
  \/ /\ \A p \in PayoutIds : payout[p].pc = "idle"
     /\ \A g \in Pagers : pager[g].pc = "idle"

\* Workers look at nothing but jobs, and no call looks at what they do: a world
\* where they begin when all payouts are made and logged, or one with approvals.
WorkersUntouched ==
  /\ running = Workers
  /\ completed = {}
  /\ \A p \in PayoutIds : stalls[p] = 0 /\ claim[p] = Free

ApprovalsOrWorkers ==
  \/ /\ \A p \in PayoutIds : payout[p].pc = "created" /\ <<"PAYOUT_COMPLETED", p>> \in audit
     /\ topUpStatus = InitialTopUp
     /\ \A a \in Approvals : approval[a].pc = "idle"
  \/ WorkersUntouched

\* And the same of money and accounts.
MoneyUntouched ==
  /\ WorkersUntouched
  /\ topUpStatus = InitialTopUp
  /\ \A p \in PayoutIds : payout[p].pc = "idle"
  /\ \A a \in Approvals : approval[a].pc = "idle"

AccountsUntouched == ReviewsUntouched /\ ChannelsUntouched /\ UsersUntouched

OnePartAtATime ==
  \/ AccountsUntouched /\ ApprovalsOrWorkers
  \/ MoneyUntouched /\ OneServiceAtATime

\* The clock moves on only where that matters: a payout to a beneficiary that
\* an earlier one has paid.
ClockWhereItMatters ==
  (\E p \in PayoutIds : payout[p].at > 0) =>
    \E p \in PayoutIds, r \in PayoutRows :
      /\ payout[r.id].at < payout[p].at
      /\ payout[r.id].call.beneficiary = payout[p].call.beneficiary

PayoutSymmetry   == Permutations(PayoutIds)
ApprovalSymmetry == Permutations(Approvals) \union Permutations(PayoutIds)
AccountSymmetry ==
  Permutations(Reviews) \union Permutations(ChannelCalls) \union Permutations(Signups)
=============================================================================
