------------------------------ MODULE MCAdminAuth ------------------------------
(***************************************************************************)
(* Requests and passwords are interchangeable in AdminAuth.                *)
(***************************************************************************)
EXTENDS AdminAuth, TLC

Interchangeable == Permutations(Requests) \cup Permutations(Passwords)
================================================================================
