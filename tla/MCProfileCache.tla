--------------------------- MODULE MCProfileCache ---------------------------
(***************************************************************************)
(* ProfileCache for TLC.  Request slots are interchangeable.               *)
(***************************************************************************)
EXTENDS ProfileCache, TLC

Symmetry == Permutations(Requests)
=============================================================================
