--------------------------- MODULE MCPerformance ---------------------------
(* A TLC instance of Performance: HR, an HR manager, a manager and its report; the *)
(* manager has no manager itself.                                                  *)
EXTENDS Performance, TLC

CONSTANTS hr, hrm, mia, eva, boss, emp

MCRoleOf == (hr :> "HR") @@ (hrm :> "HRManager") @@ (mia :> "Manager") @@ (eva :> "Employee")
MCEmployeeOf == (hr :> None) @@ (hrm :> None) @@ (mia :> boss) @@ (eva :> emp)
MCManager == (boss :> None) @@ (emp :> boss)
MCGiven == {<<"Employee", "review">>}
Symmetry == Permutations(Requests)
=============================================================================
