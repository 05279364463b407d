----------------------------- MODULE WalletReads -----------------------------
(***************************************************************************)
(* getMyWallet, the cache-aside read behind GET /wallet and the GraphQL    *)
(* query myWallet: take the cached wallet, or read the row and put it in   *)
(* the cache.  The read and the fill are awaits apart, so the row can      *)
(* change, and the key be deleted, in between.                             *)
(***************************************************************************)
EXTENDS WalletDb

CONSTANTS
  Readers,   \* calls of getMyWallet
  Nowhere    \* the user of a call that has not arrived

ASSUME WalletReadsAssumption == Nowhere \notin Merchants

VARIABLE reader \* the calls of getMyWallet

WalletReadsInit ==
  reader = [r \in Readers |-> [pc |-> "idle", user |-> Nowhere, seen |-> Miss]]

-----------------------------------------------------------------------------
CacheHit(r, m) ==
  /\ reader[r].pc = "idle"
  /\ cache[m] # Miss
  /\ reader' = [reader EXCEPT ![r] = [pc |-> "served", user |-> m, seen |-> cache[m]]]
  /\ UNCHANGED <<walletVars, cache, logVars>>

CacheMiss(r, m) ==
  /\ reader[r].pc = "idle"
  /\ cache[m] = Miss
  /\ reader' = [reader EXCEPT ![r] = [pc |-> "query", user |-> m, seen |-> Miss]]
  /\ UNCHANGED <<walletVars, cache, logVars>>

QueryWallet(r) ==
  /\ reader[r].pc = "query"
  /\ reader' = [reader EXCEPT ![r].pc = "fill", ![r].seen = balance[reader[r].user]]
  /\ UNCHANGED <<walletVars, cache, logVars>>

FillCache(r) ==
  /\ reader[r].pc = "fill"
  /\ cache' = [cache EXCEPT ![reader[r].user] = reader[r].seen]
  /\ reader' = [reader EXCEPT ![r].pc = "served"]
  /\ UNCHANGED <<walletVars, logVars>>

(* The query or the fill rejects: 500, and no wallet in the answer.        *)
ReadFails(r) ==
  /\ reader[r].pc \in {"query", "fill"}
  /\ reader' = [reader EXCEPT ![r].pc = "failed"]
  /\ UNCHANGED <<walletVars, cache, logVars>>

ReaderStep(r) == QueryWallet(r) \/ FillCache(r)

WalletReadsNext ==
  \E r \in Readers :
    (\E m \in Merchants : CacheHit(r, m) \/ CacheMiss(r, m))
      \/ ReaderStep(r) \/ ReadFails(r)

ReadersLost ==
  [r \in Readers |->
     IF reader[r].pc \in {"query", "fill"} THEN [reader[r] EXCEPT !.pc = "failed"]
     ELSE reader[r]]
=============================================================================
