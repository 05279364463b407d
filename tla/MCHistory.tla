----------------------------- MODULE MCHistory -----------------------------
(***************************************************************************)
(* The small worlds of MCBackend, with the history of the payees.          *)
(***************************************************************************)
EXTENDS MCBackend, PayeeHistory
=============================================================================
