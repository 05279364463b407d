----------------------------- MODULE Directory -----------------------------
(***************************************************************************)
(* What the backend promises about users, without look-ups, hashes,        *)
(* transactions or failures: to register is one indivisible step, which    *)
(* makes a user together with the user's wallet, out of an address and a   *)
(* number that nobody has; and no user or wallet ever changes or goes.     *)
(***************************************************************************)

CONSTANTS Ids, Mailboxes, Numbers

VARIABLES users, wallets

directoryVars == <<users, wallets>>

Init ==
  /\ users = {}
  /\ wallets = {}

Register(i, e, n) ==
  /\ \A u \in users : u.id # i /\ u.email # e /\ u.phone # n
  /\ users' = users \union {[id |-> i, email |-> e, phone |-> n]}
  /\ wallets' = wallets \union {i}

Next == \E i \in Ids, e \in Mailboxes, n \in Numbers : Register(i, e, n)

Spec == Init /\ [][Next]_directoryVars
=============================================================================
