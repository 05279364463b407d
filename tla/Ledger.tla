------------------------------- MODULE Ledger -------------------------------
(***************************************************************************)
(* What the backend promises about money, without calls, versions, locks,  *)
(* caches or failures: a payout is one indivisible transfer that the       *)
(* wallet covers, recorded under a key nobody used before; a top-up is one *)
(* indivisible credit; nothing else changes a wallet, and a row is for     *)
(* good.  What the sender is charged and what the recipient is paid need   *)
(* not be equal: a payment is a pair of the two.                           *)
(***************************************************************************)
EXTENDS Integers

CONSTANTS Merchants, OpeningBalance, Outside, Ids, Payments, Credits, Keys, NoKey

VARIABLES balance, ledger

ledgerVars == <<balance, ledger>>

Init ==
  /\ balance = OpeningBalance
  /\ ledger = {}

\* A row nobody has written: its id is new, and so is its key if it has one.
Fresh(row) ==
  \A r \in ledger : r.id # row.id /\ (row.key = NoKey \/ r.key # row.key)

Pay(i, m, n, charged, paid, k) ==
  LET row == [id |-> i, type |-> "PAYOUT", user |-> m, amount |-> paid, key |-> k] IN
    /\ m # n
    /\ charged <= balance[m]
    /\ Fresh(row)
    /\ balance' = [w \in Merchants |->
                     IF w = m THEN balance[w] - charged
                     ELSE IF w = n THEN balance[w] + paid
                     ELSE balance[w]]
    /\ ledger' = ledger \union {row}

Fund(i, m, a) ==
  LET row == [id |-> i, type |-> "WALLET_TOPUP", user |-> m, amount |-> a, key |-> NoKey] IN
    /\ Fresh(row)
    /\ balance' = [balance EXCEPT ![m] = @ + a]
    /\ ledger' = ledger \union {row}

Next ==
  \E i \in Ids, m \in Merchants :
    \/ \E n \in Merchants \union {Outside}, x \in Payments, k \in Keys \union {NoKey} :
         Pay(i, m, n, x[1], x[2], k)
    \/ \E a \in Credits : Fund(i, m, a)

Spec == Init /\ [][Next]_ledgerVars
=============================================================================
