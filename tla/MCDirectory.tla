---------------------------- MODULE MCDirectory ----------------------------
(* A TLC instance of Directory: HR, a manager and its possible report, who may *)
(* write only its own columns.                                                 *)
EXTENDS Directory

CONSTANTS hr, mia, eva, boss, emp

MCRoleOf == (hr :> "HR") @@ (mia :> "Manager") @@ (eva :> "Employee")
MCEmployeeOf == (hr :> None) @@ (mia :> boss) @@ (eva :> emp)
MCLists == {{PermOrgRead}, {PermOrgRead, PermOrgWrite}}
Symmetry == Permutations(Requests)
=============================================================================
