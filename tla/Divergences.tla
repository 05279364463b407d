---------------------------- MODULE Divergences ----------------------------
(***************************************************************************)
(* Sentences of the documentation that the code does not keep.  Each is    *)
(* stated as its words say and quoted; the run that checks it ends in a    *)
(* behaviour of the code that contradicts it.                              *)
(***************************************************************************)
EXTENDS BackendProperties

(* src/routes/topup.routes.js:112 says an approval answers 400 when the    *)
(* topup is "already processed", and src/config/swagger.js:10 "All money   *)
(* movements are atomic and idempotent": one request is credited once.     *)
TopUpCreditedOnce ==
  \A r, s \in FundingRows : approval[r.id].topUp = approval[s.id].topUp => r = s

(* src/config/swagger.js:10, for the webhook: the bank's message about one *)
(* transfer, delivered twice, funds one request.                           *)
TransferCreditedOnce ==
  \A r, s \in FundingRows :
    (approval[r.id].transfer # NoTransfer /\ approval[r.id].transfer = approval[s.id].transfer)
      => r = s

(* README.MD:132 "every write actively deletes the cache key - never       *)
(* serves stale financial data": when no call is under way, what is cached *)
(* is what is stored.                                                      *)
CacheNeverStale ==
  (/\ \A p \in PayoutIds : payout[p].pc \in {"idle"} \union Settled
   /\ \A a \in Approvals : approval[a].pc \in {"idle"} \union Answered
   /\ \A r \in Readers : reader[r].pc \in {"idle", "served", "failed"})
    => \A m \in Merchants : cache[m] \in {Miss, balance[m]}

(* src/routes/beneficiary.routes.js:134 refuses to verify a beneficiary    *)
(* "not in PENDING state": one that is blocked stays blocked.              *)
BlockedStaysBlocked ==
  [][\A b \in Beneficiaries : benStatus[b] = "BLOCKED" => benStatus'[b] = "BLOCKED"]_vars

(* README.MD:118 "Socket.IO emits to merchant's authenticated WebSocket     *)
(* connection": a payout that is completed while the merchant has an open  *)
(* connection is pushed to one.                                            *)
PayoutIsPushed ==
  [][\A p \in PayoutIds :
       (/\ payout[p].pc = "notify" /\ payout'[p].pc = "created"
        /\ \E s \in Sockets : link[s] = "open" /\ SocketUser[s] = Sender(p))
         => \E s \in Sockets : <<p, s>> \in pushed']_vars

(* README.MD:133 "OFFSET degrades on large tables and skips rows under     *)
(* concurrent writes; cursoring on id avoids both": a pager that comes to  *)
(* the end has seen every row that was there when it began.                *)
PagesSkipNothing ==
  \A g \in Pagers :
    pager[g].pc = "ended" => \A p \in pager[g].known : pager[g].listed[p] > 0

-----------------------------------------------------------------------------
(* When the code does keep them: each of these names the overlap that the  *)
(* sentence fails on, and says that nothing else breaks it.                *)

\* No two calls approve one request between the look at its status and the
\* commit.
ApprovalsApart ==
  \A a, b \in Approvals :
    (/\ approval[a].pc \in {"credit", "commit"}
     /\ approval[b].pc \in {"credit", "commit"}
     /\ approval[a].topUp = approval[b].topUp) => a = b

(* If approvals of one request never overlap, one request is credited once,*)
(* whatever fails and dies and however often it is approved again.         *)
CreditedOnceIfApart == []ApprovalsApart => []TopUpCreditedOnce

\* No call is about to commit money to or from a wallet that a reader has read
\* and not yet put into the cache.
FillsApart ==
  \A r \in Readers :
    reader[r].pc = "fill" =>
      /\ \A p \in PayoutIds :
           payout[p].pc = "commit" => reader[r].user \notin {Sender(p), Recipient(p)}
      /\ \A a \in Approvals :
           approval[a].pc = "commit" => reader[r].user # Beneficial(a)

\* Every call that has committed lives to evict.
EvictionsDone ==
  /\ \A p \in PayoutIds :
       payout[p].pc \in {"failed", "lost"} => \A r \in ledger : r.id # p
  /\ \A a \in Approvals :
       approval[a].pc \in {"failed", "lost"} => \A r \in ledger : r.id # a

(* If no call is about to commit to a wallet between the read and the fill *)
(* of one getMyWallet of it, and no call dies before its evictions, no     *)
(* stale balance is cached when no call is under way, in whatever order    *)
(* fills and evictions come.                                               *)
FreshIfApart == [](FillsApart /\ EvictionsDone) => []CacheNeverStale

\* No two administrators review one beneficiary between look and update.
ReviewsApart ==
  \A u, v \in Reviews :
    (/\ review[u].pc \in {"verify", "block"}
     /\ review[v].pc \in {"verify", "block"}
     /\ review[u].beneficiary = review[v].beneficiary) => u = v

(* If reviews of one beneficiary never overlap, a block is for good.       *)
BlockedForGoodIfApart == []ReviewsApart => BlockedStaysBlocked

\* The server has one connection of a user at a time.
ConnectionsApart ==
  \A s, t \in Sockets : (Live(s) /\ Live(t) /\ SocketUser[s] = SocketUser[t]) => s = t

(* If an old connection is always noticed as gone before the next one is   *)
(* made, a merchant that is connected is reached.                          *)
PushedIfApart == []ConnectionsApart => PayoutIsPushed
=============================================================================
