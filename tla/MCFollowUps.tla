----------------------------- MODULE MCFollowUps -----------------------------
(***************************************************************************)
(* FollowUps for TLC.  Documents, lawyers and slots are interchangeable.   *)
(***************************************************************************)
EXTENDS FollowUps, TLC

Symmetry == Permutations(Rows) \cup Permutations(Lawyers) \cup Permutations(Requests)
=============================================================================
