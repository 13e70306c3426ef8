------------------------------ MODULE MCServer ------------------------------
(***************************************************************************)
(* Server for TLC: two users and two sockets, so that one user can have two *)
(* sockets and one socket can take the id of another user; two signals, so  *)
(* that one can come before and one after the server listens.              *)
(***************************************************************************)
EXTENDS Server
=============================================================================
