---------------------------- MODULE ListingProofs ----------------------------
(***************************************************************************)
(* Proofs about getAllPayouts: paging to the end of the list lists each    *)
(* row that has its createdAt for itself exactly once, for every choice of *)
(* the constants of Backend.                                               *)
(***************************************************************************)
EXTENDS BookProofs

LEMMA QueriedRows ==
  ASSUME TypeOK, NEW m
  PROVE  /\ Queried(m) \subseteq PayoutIds
         /\ \A p \in Queried(m) : Paid(p) /\ payout[p].at \in Nat
<1>1. \A p \in Queried(m) : Paid(p)
  BY DEF Queried, Paid, PayoutRows
<1>2. Queried(m) \subseteq PayoutIds
  BY DEF Queried, TypeOK, WalletsOK, Rows
<1> QED
  BY <1>1, <1>2 DEF TypeOK, PayoutsOK

LEMMA QueriedFinite ==
  ASSUME IsFiniteSet(ledger), NEW m
  PROVE  IsFiniteSet(Queried(m))
<1> DEFINE rows == {s \in ledger : s.type = "PAYOUT" /\ m \in {s.user, Everyone}}
           ids == [r \in rows |-> r.id]
<1>1. IsFiniteSet(rows)
  BY FS_Subset
<1>2. Queried(m) = {r.id : r \in rows}
  BY DEF Queried
<1>3. ids \in Surjection(rows, Queried(m))
  BY <1>2 DEF Surjection
<1> QED
  BY <1>1, <1>3, FS_Surjection

LEMMA QueriedGrows ==
  ASSUME TypeOK, [Next]_vars, NEW m
  PROVE  Queried(m) \subseteq Queried(m)'
BY LedgerGrows DEF Queried

-----------------------------------------------------------------------------
(* What a cursor says: rows before it have been listed, and the cursor     *)
(* itself; rows after it have not.  Its ties are on either side.           *)

Untied(m, p) == \A q \in Queried(m) \ {p} : payout[q].at # payout[p].at

Passed(c, p) == c # NoRow /\ payout[p].at >= payout[c].at

AsFar(call) ==
  /\ call.known \subseteq Queried(call.of)
  /\ call.cursor \in Queried(call.of) \union {NoRow}
  /\ \A p \in call.known :
       Untied(call.of, p) => call.listed[p] = IF Passed(call.cursor, p) THEN 1 ELSE 0

AtEnd(call) ==
  /\ call.known \subseteq Queried(call.of)
  /\ \A p \in call.known : Untied(call.of, p) => call.listed[p] = 1

PagesInv ==
  \A g \in Pagers :
    /\ pager[g].pc = "idle" => pager[g].cursor = NoRow /\ pager[g].listed = Unlisted
    /\ pager[g].pc = "paging" => AsFar(pager[g])
    /\ pager[g].pc = "ended" => AtEnd(pager[g])

PagerStates ==
  [pc : {"idle", "paging", "ended", "failed"},
   of : Merchants \union {Everyone},
   size : Nat,
   cursor : PayoutIds \union {NoRow},
   known : SUBSET PayoutIds,
   listed : [PayoutIds -> 0 .. 2]]

\* One row, between the page that ends at cursor c and the one after it.
LEMMA RowOfPage ==
  ASSUME TypeOK, NEW m, NEW c \in Queried(m) \union {NoRow}, NEW n \in Nat,
         NEW rest \in Following(Queried(m), c), NEW P \in Newest(rest, n),
         NEW p \in Queried(m), Untied(m, p)
  PROVE  /\ rest \subseteq Queried(m) /\ P \subseteq rest
         /\ Passed(c, p) <=> p \notin rest
         /\ \A d \in LastRows(P, rest) : Passed(d, p) <=> (p \in P \/ p \notin rest)
<1>1. rest \subseteq Queried(m) /\ P \subseteq rest
  BY DEF Following, Newest
<1>2. \A q \in Queried(m) : payout[q].at \in Nat /\ q # NoRow
  BY QueriedRows, ListingAssumption
<1>3. Passed(c, p) <=> p \notin rest
  <2>1. CASE c = NoRow
    BY <2>1 DEF Following, Passed
  <2>2. CASE c # NoRow
    <3>1. PICK T \in SUBSET {q \in Queried(m) \ {c} : payout[q].at = payout[c].at} :
            rest = {q \in Queried(m) : payout[q].at < payout[c].at} \union T
      BY <2>2 DEF Following
    <3>2. p \notin T
      BY <2>2, <3>1 DEF Untied
    <3>3. p \in rest <=> payout[p].at < payout[c].at
      BY <3>1, <3>2
    <3> QED
      BY <1>2, <2>2, <3>3 DEF Passed
  <2> QED
    BY <2>1, <2>2
<1>4. ASSUME NEW d \in LastRows(P, rest)
      PROVE  Passed(d, p) <=> (p \in P \/ p \notin rest)
  <2>1. /\ d \in P /\ d \in Queried(m) /\ d # NoRow
        /\ \A q \in P : payout[d].at <= payout[q].at
        /\ \A q \in rest \ P : payout[d].at >= payout[q].at
    BY <1>1, <1>2 DEF LastRows, Newest
  <2>2. p # d => payout[p].at # payout[d].at
    BY <2>1 DEF Untied
  <2>3. CASE p \in P
    BY <1>2, <2>1, <2>3 DEF Passed
  <2>4. CASE p \in rest \ P
    BY <1>1, <1>2, <2>1, <2>2, <2>4 DEF Passed
  <2>5. CASE p \notin rest
    <3>1. c # NoRow /\ payout[p].at >= payout[c].at
      BY <1>3, <2>5 DEF Passed
    <3>2. payout[d].at <= payout[c].at
      <4>1. d \in rest
        BY <1>1, <2>1
      <4> QED
        BY <1>2, <3>1, <4>1 DEF Following
    <3> QED
      BY <1>2, <2>1, <2>5, <3>1, <3>2 DEF Passed
  <2> QED
    BY <2>3, <2>4, <2>5
<1> QED
  BY <1>1, <1>3, <1>4

\* A page that holds all the rest.
LEMMA LastPage ==
  ASSUME NEW rest, IsFiniteSet(rest), NEW n \in Nat, NEW P \in Newest(rest, n),
         Cardinality(rest) <= n
  PROVE  P = rest
<1>1. Cardinality(rest) \in Nat
  BY FS_CardinalityType
<1>2. P \in SUBSET rest /\ Cardinality(P) = Cardinality(rest)
  BY <1>1 DEF Newest
<1> QED
  BY <1>2, FS_Subset

LEMMA PageFetched ==
  ASSUME TypeOK, IsFiniteSet(ledger), NEW call \in PagerStates, AsFar(call),
         NEW rest \in Following(Queried(call.of), call.cursor), NEW P \in Newest(rest, call.size),
         NEW got \in PagerStates, got.of = call.of, got.known = call.known,
         got.listed = Counted(call.listed, P)
  PROVE  /\ Cardinality(rest) <= call.size => AtEnd(got)
         /\ got.cursor \in LastRows(P, rest) => AsFar(got)
<1>1. call.size \in Nat /\ call.known \subseteq PayoutIds /\ call.listed \in [PayoutIds -> 0 .. 2]
  BY DEF PagerStates
<1>2. call.known \subseteq Queried(call.of) /\ call.cursor \in Queried(call.of) \union {NoRow}
  BY DEF AsFar
<1>3. rest \subseteq Queried(call.of) /\ P \subseteq rest
  BY DEF Following, Newest
<1>4. ASSUME NEW p \in call.known, Untied(call.of, p)
      PROVE  got.listed[p] = IF p \in P \/ p \notin rest THEN 1 ELSE 0
  <2>1. call.listed[p] = IF p \notin rest THEN 1 ELSE 0
    BY <1>1, <1>2, <1>4, RowOfPage DEF AsFar
  <2> QED
    BY <1>1, <1>3, <1>4, <2>1 DEF Counted
<1>5. ASSUME Cardinality(rest) <= call.size PROVE AtEnd(got)
  <2>1. IsFiniteSet(rest)
    BY <1>3, QueriedFinite, FS_Subset
  <2>2. P = rest
    BY <1>1, <1>5, <2>1, LastPage
  <2> QED
    BY <1>2, <1>4, <2>2 DEF AtEnd
<1>6. ASSUME got.cursor \in LastRows(P, rest) PROVE AsFar(got)
  <2>1. got.cursor \in Queried(call.of)
    BY <1>3, <1>6 DEF LastRows
  <2> QED
    BY <1>1, <1>2, <1>4, <1>6, <2>1, RowOfPage DEF AsFar
<1> QED
  BY <1>5, <1>6

LEMMA PagesFetch ==
  ASSUME TypeOK, IsFiniteSet(ledger), PagesInv, UNCHANGED <<ledger, payout>>,
         NEW g \in Pagers, NEW call \in PagerStates, AsFar(call), Fetch(g, call)
  PROVE  PagesInv'
<1>0. pager \in [Pagers -> PagerStates]
  BY DEF TypeOK, ListingOK, PagerStates
<1> DEFINE got(P) == [call EXCEPT !.listed = Counted(call.listed, P)]
<1>1. PICK rest \in Following(Queried(call.of), call.cursor) : \E P \in Newest(rest, call.size) :
        \/ /\ Cardinality(rest) <= call.size
           /\ pager' = [pager EXCEPT ![g] = [got(P) EXCEPT !.pc = "ended"]]
        \/ \E c \in LastRows(P, rest) :
             pager' = [pager EXCEPT ![g] = [got(P) EXCEPT !.pc = "paging", !.cursor = c]]
        \/ pager' = [pager EXCEPT ![g] = [got(P) EXCEPT !.pc = "failed"]]
  BY DEF Fetch
<1>2. PICK P \in Newest(rest, call.size) :
        \/ /\ Cardinality(rest) <= call.size
           /\ pager' = [pager EXCEPT ![g] = [got(P) EXCEPT !.pc = "ended"]]
        \/ \E c \in LastRows(P, rest) :
             pager' = [pager EXCEPT ![g] = [got(P) EXCEPT !.pc = "paging", !.cursor = c]]
        \/ pager' = [pager EXCEPT ![g] = [got(P) EXCEPT !.pc = "failed"]]
  BY <1>1
<1>3. got(P) \in PagerStates
  BY DEF Counted, PagerStates
<1>4. \A c \in LastRows(P, rest) : c \in PayoutIds
  BY QueriedRows DEF LastRows, Newest, Following
<1>5. /\ got(P).of = call.of /\ got(P).known = call.known
      /\ got(P).listed = Counted(call.listed, P)
  BY DEF PagerStates
<1> HIDE DEF got
<1>6. \A m : Queried(m)' = Queried(m)
  BY DEF Queried
<1>7. /\ \A rec : AsFar(rec)' <=> AsFar(rec)
      /\ \A rec : AtEnd(rec)' <=> AtEnd(rec)
  BY <1>6 DEF AsFar, AtEnd, Untied, Passed
<1>8. ASSUME NEW rec \in PagerStates, pager' = [pager EXCEPT ![g] = rec],
             rec.pc # "idle", rec.pc = "paging" => AsFar(rec), rec.pc = "ended" => AtEnd(rec)
      PROVE  PagesInv'
  <2>1. pager'[g] = rec /\ \A h \in Pagers \ {g} : pager'[h] = pager[h]
    BY <1>0, <1>8
  <2> QED
    BY <1>7, <1>8, <2>1 DEF PagesInv
<1>9. CASE /\ Cardinality(rest) <= call.size
           /\ pager' = [pager EXCEPT ![g] = [got(P) EXCEPT !.pc = "ended"]]
  <2> DEFINE rec == [got(P) EXCEPT !.pc = "ended"]
  <2>1. /\ rec \in PagerStates /\ rec.of = call.of /\ rec.known = call.known
        /\ rec.listed = Counted(call.listed, P) /\ rec.pc = "ended"
    BY <1>3, <1>5 DEF PagerStates
  <2> HIDE DEF rec
  <2>2. AtEnd(rec)
    BY <1>9, <2>1, PageFetched
  <2>3. pager' = [pager EXCEPT ![g] = rec]
    BY <1>9 DEF rec
  <2> QED
    BY <1>8, <2>1, <2>2, <2>3
<1>10. ASSUME NEW c \in LastRows(P, rest),
              pager' = [pager EXCEPT ![g] = [got(P) EXCEPT !.pc = "paging", !.cursor = c]]
       PROVE  PagesInv'
  <2> DEFINE rec == [got(P) EXCEPT !.pc = "paging", !.cursor = c]
  <2>1. /\ rec \in PagerStates /\ rec.of = call.of /\ rec.known = call.known
        /\ rec.listed = Counted(call.listed, P) /\ rec.pc = "paging" /\ rec.cursor = c
    BY <1>3, <1>4, <1>5 DEF PagerStates
  <2> HIDE DEF rec
  <2>2. AsFar(rec)
    BY <2>1, PageFetched
  <2>3. pager' = [pager EXCEPT ![g] = rec]
    BY <1>10 DEF rec
  <2> QED
    BY <1>8, <2>1, <2>2, <2>3
<1>11. CASE pager' = [pager EXCEPT ![g] = [got(P) EXCEPT !.pc = "failed"]]
  <2>1. /\ [got(P) EXCEPT !.pc = "failed"] \in PagerStates
        /\ [got(P) EXCEPT !.pc = "failed"].pc = "failed"
    BY <1>3 DEF PagerStates
  <2> QED
    BY <1>8, <1>11, <2>1
<1> QED
  BY <1>2, <1>9, <1>10, <1>11

LEMMA PagesListing ==
  ASSUME TypeOK, IsFiniteSet(ledger), PagesInv, ListingNext, UNCHANGED <<ledger, payout>>
  PROVE  PagesInv'
<1>0. pager \in [Pagers -> PagerStates]
  BY DEF TypeOK, ListingOK, PagerStates
<1>1. ASSUME NEW g \in Pagers, NEW m \in Merchants \union {Everyone}, NEW n \in PageSizes,
             FirstPage(g, m, n)
      PROVE  PagesInv'
  <2> DEFINE call == [pager[g] EXCEPT !.of = m, !.size = n, !.known = Queried(m)]
  <2>1. pager[g].cursor = NoRow /\ pager[g].listed = Unlisted
    BY <1>1 DEF FirstPage, PagesInv
  <2>2. /\ call \in PagerStates
        /\ call.of = m /\ call.known = Queried(m) /\ call.cursor = NoRow /\ call.listed = Unlisted
    BY <1>0, <2>1, QueriedRows, ListingAssumption DEF PagerStates
  <2>3. Fetch(g, call)
    BY <1>1 DEF FirstPage
  <2> HIDE DEF call
  <2>4. AsFar(call)
    BY <2>2, QueriedRows DEF AsFar, Passed, Unlisted
  <2> QED
    BY <2>2, <2>3, <2>4, PagesFetch
<1>2. ASSUME NEW g \in Pagers, NextPage(g)
      PROVE  PagesInv'
  BY <1>0, <1>2, PagesFetch DEF NextPage, PagesInv
<1> QED
  BY <1>1, <1>2 DEF ListingNext

\* Between two pages rows come, and none of them changes.
LEMMA PagesKept ==
  ASSUME TypeOK, PaidForInv, PagesInv, [Next]_vars, pager' = pager
  PROVE  PagesInv'
<1>1. ASSUME NEW m, NEW p \in Queried(m)
      PROVE  p \in Queried(m)' /\ payout'[p].at = payout[p].at
  BY <1>1, QueriedGrows, QueriedRows, StampsStay
<1>2. ASSUME NEW m, NEW p \in Queried(m), Untied(m, p)'
      PROVE  Untied(m, p)
  BY <1>1, <1>2 DEF Untied
<1>3. ASSUME NEW call, AsFar(call)
      PROVE  AsFar(call)'
  <2>1. /\ call.known \subseteq Queried(call.of)'
        /\ call.cursor \in Queried(call.of)' \union {NoRow}
    BY <1>1, <1>3 DEF AsFar
  <2>2. ASSUME NEW p \in call.known PROVE Passed(call.cursor, p)' <=> Passed(call.cursor, p)
    BY <1>1, <1>3 DEF AsFar, Passed
  <2> QED
    BY <1>2, <1>3, <2>1, <2>2 DEF AsFar
<1>4. ASSUME NEW call, AtEnd(call)
      PROVE  AtEnd(call)'
  BY <1>1, <1>2, <1>4 DEF AtEnd
<1> QED
  BY <1>3, <1>4 DEF PagesInv

LEMMA PagesNext ==
  ASSUME TypeOK, PaidForInv, VersionsInv, PagesInv, [Next]_vars
  PROVE  PagesInv'
<1>1. CASE ListingService
  <2>1. ListingNext /\ UNCHANGED <<ledger, payout>>
    BY <1>1 DEF ListingService, dataVars, walletVars, payoutVars
  <2> QED
    BY <2>1, PagesListing DEF VersionsInv
<1>2. CASE ~ ListingService
  <2>1. pager' = pager
    BY <1>2 DEF Next, Log, Lapse, NotData, PayoutService, NotPayouts, TopUpService, NotTopUps,
       BeneficiaryService, NotReviews, ChannelService, NotChannels, RegistrationService, NotUsers,
       WalletService, NotReads, ConnectionService, WorkerService, NotJobs, Crash, Idle, vars,
       clientVars
  <2> QED
    BY <2>1, PagesKept
<1> QED
  BY <1>1, <1>2

(* A client that pages to the end of the list sees each payout that has    *)
(* its createdAt for itself exactly once, whatever is inserted and         *)
(* committed between its pages, and whatever the size of a page.           *)
THEOREM ListedOnce == Spec => []UntiedListedOnce
<1>1. Init => PagesInv
  BY DEF Init, ListingInit, PagesInv
<1>2. TypeOK /\ PaidForInv /\ VersionsInv /\ PagesInv /\ [Next]_vars => PagesInv'
  BY PagesNext
<1>3. PagesInv => UntiedListedOnce
  BY DEF PagesInv, AtEnd, Untied, UntiedListedOnce
<1> QED
  BY TypeCorrect, PaidForAlways, VersionsAlways, <1>1, <1>2, <1>3, PTL DEF Spec
=============================================================================
