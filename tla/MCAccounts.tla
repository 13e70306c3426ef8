---------------------------- MODULE MCAccounts ----------------------------
(***************************************************************************)
(* Accounts for TLC.  Ids, passwords, links and slots are interchangeable; *)
(* of the users, those that are not legacy ones.                           *)
(***************************************************************************)
EXTENDS Accounts, TLC

Symmetry == Permutations(Users \ Legacy) \cup Permutations(Emails) \cup Permutations(Passwords)
            \cup Permutations(Tokens) \cup Permutations(Resets) \cup Permutations(Requests)
=============================================================================
