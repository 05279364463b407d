------------------------------ MODULE WalletDb ------------------------------
(***************************************************************************)
(* The state that several services of the payout backend share:            *)
(*                                                                         *)
(*   - the Wallet and Transaction tables in PostgreSQL, with the row locks *)
(*     that an UPDATE takes and keeps until its transaction ends;          *)
(*   - the wallet:<userId> keys in Redis;                                  *)
(*   - the AuditLog table, and the logAction calls still to be made.       *)
(*                                                                         *)
(* Money.  Balances and stored amounts are in cents, the resolution of     *)
(* Decimal(18,2).  The amount of a request is a JavaScript number with no  *)
(* such limit; it is counted here in quarters of a cent, which tells apart *)
(* fractions below, at and above the half cent where PostgreSQL rounds.    *)
(***************************************************************************)
EXTENDS Integers

CONSTANTS
  Merchants,      \* users of role MERCHANT; each has exactly one wallet
  Frozen,         \* merchants whose wallet has status FROZEN (set by nothing in src/)
  OpeningBalance, \* Wallet.balance of each merchant when the model starts
  Free,           \* a wallet row that no open transaction has locked
  Miss,           \* a wallet:<userId> key that is not in Redis
  NoKey           \* a call or a row without idempotencyKey

ASSUME WalletDbAssumption ==
  /\ Frozen \subseteq Merchants
  /\ OpeningBalance \in [Merchants -> Nat]
  /\ Miss \notin Nat

VARIABLES
  balance,  \* Wallet.balance, committed
  version,  \* Wallet.version, committed
  rowLock,  \* the session whose open transaction has updated the wallet row
  ledger,   \* the committed rows of Transaction
  cache,    \* Redis: the balance under wallet:<userId>
  audit,    \* the rows of AuditLog, as <<action, entity>>
  owed      \* logAction calls of handlers that have done everything else

walletVars == <<balance, version, rowLock, ledger>>
logVars    == <<audit, owed>>

WalletDbInit ==
  /\ balance = OpeningBalance
  /\ version = [m \in Merchants |-> 0]
  /\ rowLock = [m \in Merchants |-> Free]
  /\ ledger = {}
  /\ cache = [m \in Merchants |-> Miss]
  /\ audit = {}
  /\ owed = {}

-----------------------------------------------------------------------------
(* What Decimal(18,2) makes of a request amount a: numeric arithmetic is   *)
(* exact, and the result is rounded half up when it is stored.             *)

\* Mutated form: the fraction is cut off instead of rounded.
CutCredited(b, a) == (4 * b + a) \div 4

Stored(a)      == (a + 2) \div 4
Debited(b, a)  == (4 * b - a + 2) \div 4
Credited(b, a) == (4 * b + a + 2) \div 4

(* Number(wallet.balance) < amount is false.                               *)
Covers(b, a) == 4 * b >= a

\* Rows that session s has locked are free again once its transaction ends.
Unlocked(s) == [m \in Merchants |-> IF rowLock[m] = s THEN Free ELSE rowLock[m]]

Lock(s, m) ==
  /\ rowLock[m] = Free
  /\ rowLock' = [rowLock EXCEPT ![m] = s]

Evicted(m) == [cache EXCEPT ![m] = Miss]

-----------------------------------------------------------------------------
(* logAction awaits one INSERT and swallows its failure, so the caller     *)
(* goes on whether or not the row was written.                             *)
LogAction ==
  \E e \in owed :
    /\ owed' = owed \ {e}
    /\ audit' \in {audit, audit \union {e}}
    /\ UNCHANGED <<walletVars, cache>>

(* The Redis TTL of a wallet key runs out.                                 *)
Expire(m) ==
  /\ cache[m] # Miss
  /\ cache' = Evicted(m)
  /\ UNCHANGED <<walletVars, logVars>>
=============================================================================
