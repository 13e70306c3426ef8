--------------------------- MODULE MCAdminAccounts ---------------------------
(***************************************************************************)
(* AdminAccounts for TLC.  Super admins are interchangeable, and so are    *)
(* other users, roles and slots.                                           *)
(***************************************************************************)
EXTENDS AdminAccounts, TLC

Symmetry ==
    Permutations(SuperAdmins \ Chosen) \cup Permutations(Users \ SuperAdmins)
        \cup Permutations(RoleIds) \cup Permutations(Requests)
=============================================================================
