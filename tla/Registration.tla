---------------------------- MODULE Registration ----------------------------
(***************************************************************************)
(* register and login.  A registration looks for a user with its e-mail or *)
(* its phone number, hashes the password, and inserts the user and a       *)
(* wallet in one transaction; between the look-up and the insert others    *)
(* register, and then the unique columns of User decide.  The validator    *)
(* writes e-mails in small letters, for register and for login alike, and  *)
(* leaves phone numbers as they are.                                       *)
(***************************************************************************)
EXTENDS WalletDb

CONSTANTS
  Signups, \* calls of register; the user a call creates has its name
  Emails,  \* e-mail addresses as typed
  Phones,  \* phone numbers as typed
  Lower,   \* toLowerCase and trim
  NoForm,  \* the body of a call that has not arrived
  Unknown  \* the user of a login that found none

ASSUME RegistrationAssumption ==
  /\ Lower \in [Emails -> Emails]
  /\ \A e \in Emails : Lower[Lower[e]] = Lower[e]

Forms == [email : Emails, phone : Phones]

VARIABLES
  users,   \* the rows of User that register made
  wallets, \* the users of the rows of Wallet that register made
  signup   \* the calls of register

registrationVars == <<users, wallets, signup>>

RegistrationInit ==
  /\ users = {}
  /\ wallets = {}
  /\ signup = [g \in Signups |-> [pc |-> "idle", form |-> NoForm]]

\* Mutated form, of either schema: there is no toLowerCase.
AsTyped(e) == e

\* What registerSchema and loginSchema make of an address.
Normalised(e)   == Lower[e]
LoginAddress(e) == Lower[e]

UserRow(g) ==
  [id |-> g, email |-> Normalised(signup[g].form.email), phone |-> signup[g].form.phone]

\* A form cannot become a second row beside u.
Clashes(u, f) == u.email = Normalised(f.email) \/ u.phone = f.phone

Taken(f) == \E u \in users : Clashes(u, f)

\* An open transaction has inserted a row that makes the insert of g wait.
RowBusy(g) ==
  \E h \in Signups \ {g} :
    signup[h].pc = "commit" /\ Clashes(UserRow(h), signup[g].form)

SignupGoes(g, from, to) ==
  /\ signup[g].pc = from
  /\ signup' = [signup EXCEPT ![g].pc = to]

-----------------------------------------------------------------------------
LookUpUser(g, f) ==
  /\ signup[g].pc = "idle"
  /\ signup' = [signup EXCEPT ![g] =
                  [pc |-> IF Taken(f) THEN "conflict" ELSE "insert", form |-> f]]
  /\ UNCHANGED <<users, wallets, owed>>

\* Mutated form: the insert relies on the look-up.
InsertLookedUpUser(g) ==
  /\ SignupGoes(g, "insert", "commit")
  /\ UNCHANGED <<users, wallets, owed>>

InsertUser(g) ==
  /\ SignupGoes(g, "insert", "commit")
  /\ ~ Taken(signup[g].form)
  /\ ~ RowBusy(g)
  /\ UNCHANGED <<users, wallets, owed>>

(* A unique column refuses the row: P2002, 409.                            *)
DuplicateUser(g) ==
  /\ SignupGoes(g, "insert", "conflict")
  /\ Taken(signup[g].form)
  /\ UNCHANGED <<users, wallets, owed>>

\* Mutated form: the wallet is created after the transaction.
CommitUserOnly(g) ==
  /\ SignupGoes(g, "commit", "created")
  /\ users' = users \union {UserRow(g)}
  /\ owed' = owed \union {<<"USER_REGISTERED", g>>}
  /\ UNCHANGED wallets

(* The wallet is inserted in the same transaction.  What is left after the *)
(* commit is the audit entry, which cannot fail the call.                  *)
CommitUser(g) ==
  /\ SignupGoes(g, "commit", "created")
  /\ users' = users \union {UserRow(g)}
  /\ wallets' = wallets \union {g}
  /\ owed' = owed \union {<<"USER_REGISTERED", g>>}

(* The hash or the database rejects; the transaction is rolled back.       *)
SignupFails(g) ==
  /\ \E l \in {"insert", "commit"} : SignupGoes(g, l, "failed")
  /\ UNCHANGED <<users, wallets, owed>>

\* The users that login finds for an address as typed.
Found(e) == {u \in users : u.email = LoginAddress(e)}

(* login reads one row and changes none; it answers with a token, or 401   *)
(* for an unknown address as for a wrong password, and logs either.        *)
Login(e) ==
  \E action \in {"LOGIN_SUCCESS", "LOGIN_FAILED"}, u \in Found(e) :
    /\ owed' = owed \union {<<action, u.id>>}
    /\ UNCHANGED registrationVars

LoginUnknown(e) ==
  /\ Found(e) = {}
  /\ owed' = owed \union {<<"LOGIN_FAILED", Unknown>>}
  /\ UNCHANGED registrationVars

RegistrationNext ==
  /\ \/ \E g \in Signups, f \in Forms : LookUpUser(g, f)
     \/ \E g \in Signups :
          InsertUser(g) \/ DuplicateUser(g) \/ CommitUser(g) \/ SignupFails(g)
     \/ \E e \in Emails : Login(e) \/ LoginUnknown(e)
  /\ UNCHANGED <<walletVars, cache, audit>>

SignupsLost ==
  [g \in Signups |->
     IF signup[g].pc \in {"insert", "commit"} THEN [signup[g] EXCEPT !.pc = "lost"]
     ELSE signup[g]]
=============================================================================
