--------------------------- MODULE Beneficiaries ---------------------------
(***************************************************************************)
(* The beneficiary service: a merchant adds a payee, an administrator      *)
(* verifies or blocks it.  Each review reads the row, tests the status it  *)
(* read, and then updates the row by id alone: between the read and the    *)
(* update other requests run.                                              *)
(***************************************************************************)
EXTENDS WalletDb

CONSTANTS
  Beneficiaries,      \* rows that may come to exist in the Beneficiary table
  Owner,              \* Beneficiary.merchantId
  Peer,               \* Beneficiary.linkedUserId, or Bank for the type BANK
  Account,            \* accountNumber and ifscCode of a BANK beneficiary
  InitialBeneficiary, \* the status of each row when the model starts
  Reviews,            \* administrator calls to verify or block
  Bank,
  Nobody              \* no beneficiary yet

Existing == {"PENDING", "VERIFIED", "BLOCKED"}

(* The linked user must be a merchant other than the one who adds it.      *)
Acceptable(b) == Peer[b] = Bank \/ Peer[b] \in Merchants \ {Owner[b]}

(* The rows that the two unique constraints of the table keep apart.       *)
SamePayee(b, c) ==
  /\ Owner[b] = Owner[c]
  /\ Peer[b] = Peer[c]
  /\ Peer[b] = Bank => Account[b] = Account[c]

ASSUME BeneficiariesAssumption ==
  /\ Owner \in [Beneficiaries -> Merchants]
  /\ InitialBeneficiary \in [Beneficiaries -> Existing \union {"none"}]
  /\ \A b \in Beneficiaries : InitialBeneficiary[b] # "none" => Acceptable(b)
  /\ \A b, c \in Beneficiaries :
       (b # c /\ SamePayee(b, c)) =>
         InitialBeneficiary[b] = "none" \/ InitialBeneficiary[c] = "none"
  /\ Bank \notin Merchants

VARIABLES
  benStatus, \* Beneficiary.status, "none" while there is no row
  review     \* the calls of verifyBeneficiary and blockBeneficiary

beneficiaryVars == <<benStatus, review>>

BeneficiariesInit ==
  /\ benStatus = InitialBeneficiary
  /\ review = [v \in Reviews |-> [pc |-> "idle", beneficiary |-> Nobody]]

-----------------------------------------------------------------------------
(* addBeneficiary.  What it reads first (the linked user and its role) no  *)
(* code changes, so reading and inserting are one step; a violated unique  *)
(* constraint answers 409 and changes nothing.                             *)
AddBeneficiary(b) ==
  /\ benStatus[b] = "none"
  /\ Acceptable(b)
  /\ ~ \E c \in Beneficiaries : benStatus[c] \in Existing /\ SamePayee(b, c)
  /\ benStatus' = [benStatus EXCEPT ![b] = "PENDING"]
  /\ owed' = owed \union {<<"BENEFICIARY_ADDED", b>>}
  /\ UNCHANGED <<walletVars, cache, audit, review>>

\* A review call v reads beneficiary b and goes on to label.
StartReview(v, b, label) ==
  /\ review[v].pc = "idle"
  /\ review' = [review EXCEPT ![v] = [pc |-> label, beneficiary |-> b]]
  /\ UNCHANGED <<walletVars, cache, logVars, benStatus>>

ReadToVerify(v, b) ==
  /\ benStatus[b] = "PENDING"
  /\ StartReview(v, b, "verify")

ReadToBlock(v, b) ==
  /\ benStatus[b] \in {"PENDING", "VERIFIED"}
  /\ StartReview(v, b, "block")

(* NotFoundError, or ConflictError on the status that was read.            *)
RefuseReview(v, b) ==
  /\ benStatus[b] # "PENDING"
  /\ StartReview(v, b, "done")

\* The update of a review is by id: it does not look at the status again.
WriteReview(v, label, status, action) ==
  LET b == review[v].beneficiary IN
    /\ review[v].pc = label
    /\ review' = [review EXCEPT ![v].pc = "done"]
    /\ benStatus' = [benStatus EXCEPT ![b] = status]
    /\ owed' = owed \union {<<action, b>>}
    /\ UNCHANGED <<walletVars, cache, audit>>

WriteVerified(v) == WriteReview(v, "verify", "VERIFIED", "BENEFICIARY_VERIFIED")
WriteBlocked(v)  == WriteReview(v, "block", "BLOCKED", "BENEFICIARY_BLOCKED")

ReviewStep(v) == WriteVerified(v) \/ WriteBlocked(v)

BeneficiariesNext ==
  \/ \E b \in Beneficiaries : AddBeneficiary(b)
  \/ \E v \in Reviews, b \in Beneficiaries :
       ReadToVerify(v, b) \/ ReadToBlock(v, b) \/ RefuseReview(v, b)
  \/ \E v \in Reviews : ReviewStep(v)

ReviewsLost ==
  [v \in Reviews |->
     IF review[v].pc = "idle" THEN review[v] ELSE [review[v] EXCEPT !.pc = "done"]]
=============================================================================
