------------------------------ MODULE Channels ------------------------------
(***************************************************************************)
(* The channel service: the bank accounts from which merchants fund their  *)
(* wallets.  addChannel looks for an equal account before it inserts,      *)
(* selectChannel and verifyChannel read the row before they update; each   *)
(* of the three awaits in between, and only the unique index on            *)
(* (ifscCode, accountNumber) is left to stop what the look-up missed.      *)
(***************************************************************************)
EXTENDS WalletDb

CONSTANTS
  Channels,        \* rows that may come to exist in the Channel table
  Holder,          \* Channel.userId
  AccountNumber,   \* Channel.accountNumber
  Ifsc,            \* Channel.ifscCode
  InitialChannel,  \* the status of each row when the model starts
  InitialSelected, \* User.selectedChannelId when the model starts
  ChannelCalls,    \* calls of addChannel, selectChannel and verifyChannel
  NoChannel,       \* no channel yet
  NoUser           \* no user: the call is not, or not yet, a selection

(* The rows that the unique index of the table keeps apart.                *)
SameAccount(c, d) == Ifsc[c] = Ifsc[d] /\ AccountNumber[c] = AccountNumber[d]

ASSUME ChannelsAssumption ==
  /\ Holder \in [Channels -> Merchants]
  /\ InitialChannel \in [Channels -> {"none", "PENDING", "VERIFIED"}]
  /\ NoChannel \notin Channels
  /\ NoUser \notin Merchants
  /\ InitialSelected \in [Merchants -> Channels \union {NoChannel}]
  /\ \A m \in Merchants :
       InitialSelected[m] # NoChannel =>
         /\ Holder[InitialSelected[m]] = m
         /\ InitialChannel[InitialSelected[m]] = "VERIFIED"
  /\ \A c, d \in Channels :
       (c # d /\ SameAccount(c, d)) =>
         InitialChannel[c] = "none" \/ InitialChannel[d] = "none"

VARIABLES
  chStatus,   \* Channel.status, "none" while there is no row
  selected,   \* User.selectedChannelId
  channelCall \* the calls of the channel service

channelVars == <<chStatus, selected, channelCall>>

ChannelsInit ==
  /\ chStatus = InitialChannel
  /\ selected = InitialSelected
  /\ channelCall = [o \in ChannelCalls |->
       [pc |-> "idle", channel |-> NoChannel, user |-> NoUser]]

\* An account that some row already has.
Known(c) == \E d \in Channels : chStatus[d] # "none" /\ SameAccount(c, d)

-----------------------------------------------------------------------------
\* Call o of user m is about channel c; what it reads sends it to label.
StartChannelCall(o, m, c, label) ==
  /\ channelCall[o].pc = "idle"
  /\ channelCall' = [channelCall EXCEPT ![o] = [pc |-> label, channel |-> c, user |-> m]]
  /\ UNCHANGED <<walletVars, cache, logVars, chStatus, selected>>

\* The last step of call o, whatever it wrote.
EndChannelCall(o, from) ==
  /\ channelCall[o].pc = from
  /\ channelCall' = [channelCall EXCEPT ![o].pc = "done"]
  /\ UNCHANGED <<walletVars, cache, audit>>

LookUpAccount(o, c) ==
  StartChannelCall(o, NoUser, c, IF Known(c) THEN "done" ELSE "insert")

\* Mutated form: the insert relies on the look-up.
InsertLookedUp(o) ==
  LET c == channelCall[o].channel IN
    /\ EndChannelCall(o, "insert")
    /\ chStatus' = [chStatus EXCEPT ![c] = "PENDING"]
    /\ owed' = owed \union {<<"CHANNEL_ADDED", c>>}
    /\ UNCHANGED selected

InsertChannel(o) ==
  LET c == channelCall[o].channel IN
    /\ EndChannelCall(o, "insert")
    /\ ~ Known(c)
    /\ chStatus' = [chStatus EXCEPT ![c] = "PENDING"]
    /\ owed' = owed \union {<<"CHANNEL_ADDED", c>>}
    /\ UNCHANGED selected

(* The unique index refuses the row: 409.                                  *)
DuplicateAccount(o) ==
  /\ EndChannelCall(o, "insert")
  /\ Known(channelCall[o].channel)
  /\ UNCHANGED <<owed, chStatus, selected>>

\* Mutated form: the look-up is by id alone.
ReadAnyToSelect(o, m, c) ==
  /\ chStatus[c] = "VERIFIED"
  /\ StartChannelCall(o, m, c, "select")

ReadToSelect(o, m, c) ==
  /\ chStatus[c] = "VERIFIED"
  /\ Holder[c] = m
  /\ StartChannelCall(o, m, c, "select")

RefuseSelect(o, m, c) ==
  /\ chStatus[c] # "VERIFIED" \/ Holder[c] # m
  /\ StartChannelCall(o, m, c, "done")

(* The selection writes no audit log.                                      *)
WriteSelected(o) ==
  /\ EndChannelCall(o, "select")
  /\ selected' = [selected EXCEPT ![channelCall[o].user] = channelCall[o].channel]
  /\ UNCHANGED <<owed, chStatus>>

ReadToVerifyChannel(o, c) ==
  /\ chStatus[c] \notin {"none", "VERIFIED"}
  /\ StartChannelCall(o, NoUser, c, "verify")

RefuseVerifyChannel(o, c) ==
  /\ chStatus[c] \in {"none", "VERIFIED"}
  /\ StartChannelCall(o, NoUser, c, "done")

WriteChannelVerified(o) ==
  LET c == channelCall[o].channel IN
    /\ EndChannelCall(o, "verify")
    /\ chStatus' = [chStatus EXCEPT ![c] = "VERIFIED"]
    /\ owed' = owed \union {<<"CHANNEL_VERIFIED", c>>}
    /\ UNCHANGED selected

ChannelArrival(o) ==
  \E c \in Channels :
    \/ LookUpAccount(o, c)
    \/ ReadToVerifyChannel(o, c) \/ RefuseVerifyChannel(o, c)
    \/ \E m \in Merchants : ReadToSelect(o, m, c) \/ RefuseSelect(o, m, c)

ChannelStep(o) ==
  \/ InsertChannel(o) \/ DuplicateAccount(o)
  \/ WriteSelected(o) \/ WriteChannelVerified(o)

ChannelsNext == \E o \in ChannelCalls : ChannelArrival(o) \/ ChannelStep(o)

ChannelCallsLost ==
  [o \in ChannelCalls |->
     IF channelCall[o].pc = "idle" THEN channelCall[o]
     ELSE [channelCall[o] EXCEPT !.pc = "done"]]
=============================================================================
