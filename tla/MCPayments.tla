----------------------------- MODULE MCPayments -----------------------------
(***************************************************************************)
(* Payments for TLC.  Invoices, transactions and slots are interchangeable. *)
(***************************************************************************)
EXTENDS Payments, TLC

Symmetry == Permutations(Invoices) \cup Permutations(Txns) \cup Permutations(Requests)
=============================================================================
