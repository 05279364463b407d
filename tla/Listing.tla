------------------------------- MODULE Listing -------------------------------
(***************************************************************************)
(* getAllPayouts page by page.  Each page is one query: the rows in        *)
(* descending order of createdAt, from the row whose id is the cursor,     *)
(* that one skipped, one row more than the page holds; the extra row only  *)
(* tells that there is a next page, whose cursor is the last row of this   *)
(* one.  Between two pages other calls commit.                             *)
(*                                                                         *)
(* Rows with an equal createdAt have no order among themselves: each query *)
(* may return them in another one.  So a page is a set: the newest rows of *)
(* what follows the cursor, where any of the cursor's ties may follow it.  *)
(***************************************************************************)
EXTENDS Payouts, FiniteSets

CONSTANTS
  Pagers,    \* clients that page through the list
  PageSizes, \* values of limit
  Everyone,  \* no userId in the query
  NoRow      \* no cursor in the query

ASSUME ListingAssumption ==
  /\ PageSizes \subseteq Nat
  /\ Everyone \notin Merchants
  /\ NoRow \notin PayoutIds

VARIABLE pager \* the clients, from their first page to their last

Unlisted == [p \in PayoutIds |-> 0]

ListingInit ==
  pager = [g \in Pagers |->
    [pc |-> "idle", of |-> Everyone, size |-> 0, cursor |-> NoRow,
     known |-> {}, listed |-> Unlisted]]

\* The committed payouts that a query with userId m looks at.
Queried(m) ==
  {r.id : r \in {s \in ledger : s.type = "PAYOUT" /\ m \in {s.user, Everyone}}}

\* The sets of rows of S that can come after the cursor c.
Following(S, c) ==
  IF c = NoRow THEN {S}
  ELSE {{q \in S : payout[q].at < payout[c].at} \union T :
          T \in SUBSET {q \in S \ {c} : payout[q].at = payout[c].at}}

\* The pages of n rows that a query of rest can return.
Newest(rest, n) ==
  {P \in SUBSET rest :
     /\ Cardinality(P) = IF Cardinality(rest) < n THEN Cardinality(rest) ELSE n
     /\ \A p \in P, q \in rest \ P : payout[p].at >= payout[q].at}

\* Mutated form: the cursor is the extra row, which the next page skips.
ExtraRows(P, rest) ==
  {c \in rest \ P : \A q \in rest \ P : payout[q].at <= payout[c].at}

\* The rows that can be the last of page P.
LastRows(P, rest) == {c \in P : \A q \in P : payout[c].at <= payout[q].at}

\* A row that was listed twice is counted as that.
Counted(listed, P) ==
  [p \in PayoutIds |-> IF p \in P /\ listed[p] < 2 THEN listed[p] + 1 ELSE listed[p]]

-----------------------------------------------------------------------------
\* The page of call, a pager about to ask; known is what the first page found.
Fetch(g, call) ==
  \E rest \in Following(Queried(call.of), call.cursor) :
  \E P \in Newest(rest, call.size) :
  LET got == [call EXCEPT !.listed = Counted(call.listed, P)] IN
    \/ /\ Cardinality(rest) <= call.size
       /\ pager' = [pager EXCEPT ![g] = [got EXCEPT !.pc = "ended"]]
    \/ /\ Cardinality(rest) > call.size
       /\ \E c \in LastRows(P, rest) :
            pager' = [pager EXCEPT ![g] = [got EXCEPT !.pc = "paging", !.cursor = c]]
       \* limit=0 leaves no row to take the cursor from: 500.
    \/ /\ Cardinality(rest) > call.size
       /\ P = {}
       /\ pager' = [pager EXCEPT ![g] = [got EXCEPT !.pc = "failed"]]

FirstPage(g, m, n) ==
  /\ pager[g].pc = "idle"
  /\ Fetch(g, [pager[g] EXCEPT !.of = m, !.size = n, !.known = Queried(m)])

NextPage(g) ==
  /\ pager[g].pc = "paging"
  /\ Fetch(g, pager[g])

ListingNext ==
  \E g \in Pagers :
    \/ \E m \in Merchants \union {Everyone}, n \in PageSizes : FirstPage(g, m, n)
    \/ NextPage(g)
=============================================================================
