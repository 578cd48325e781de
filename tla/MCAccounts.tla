----------------------------- MODULE MCAccounts -----------------------------
(* A TLC instance of UserAccounts: a system administrator and an administrator *)
(* with sessions of before, and a manager.                                     *)
EXTENDS UserAccounts

CONSTANTS root, ada, mia, s1, s2

MCRoleOf == (root :> "SystemAdmin") @@ (ada :> "Admin") @@ (mia :> "Manager")
MCBegun == (s1 :> root) @@ (s2 :> ada)
Symmetry == Permutations(Requests)
=============================================================================
