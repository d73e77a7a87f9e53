----------------------------- MODULE MCAdminAuth -----------------------------
(***************************************************************************)
(* AdminAuth on a small instance; requests, accounts and passwords are     *)
(* interchangeable.                                                        *)
(***************************************************************************)
EXTENDS AdminAuth, TLC

Interchangeable ==
    Permutations(Requests) \cup Permutations(Accounts) \cup Permutations(Passwords)
=============================================================================
