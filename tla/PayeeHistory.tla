---------------------------- MODULE PayeeHistory ----------------------------
(***************************************************************************)
(* The backend with one more variable, which no step of it reads: for      *)
(* which payouts the beneficiary was seen to be verified.  A beneficiary   *)
(* can be blocked without ever having been verified, or while a payout to  *)
(* it is under way, so what its row says after the payout does not tell.   *)
(***************************************************************************)
EXTENDS BackendProperties

VARIABLE vetted \* the payouts whose beneficiary was verified before the commit

historyVars == <<vars, vetted>>

\* A call from the time that its key was looked up to its commit.
BeforeCommit == {"beneficiary", "wallet", "debit"} \union InTransaction

\* The payouts under way whose beneficiary is verified at this moment.
VettedNow ==
  {p \in PayoutIds :
     /\ payout[p].pc \in BeforeCommit
     /\ benStatus[payout[p].call.beneficiary] = "VERIFIED"}

HistoryInit == Init /\ vetted = {}

HistoryNext == Next /\ vetted' = vetted \union VettedNow

HistorySpec == HistoryInit /\ [][HistoryNext]_historyVars

(* Money goes only to a beneficiary of the sender's own, and one that was  *)
(* verified at some moment between the arrival of the call and its commit, *)
(* whatever reviews run beside it.                                         *)
PaidWhileVerified ==
  \A r \in PayoutRows :
    /\ Owner[payout[r.id].call.beneficiary] = r.user
    /\ r.id \in vetted
=============================================================================
