----------------------------- MODULE MCAccrual -----------------------------
(* A TLC instance of LeaveAccrual: calm has its accruals from the worker only, *)
(* wild also has HR start them by hand and adjust balances.                    *)
EXTENDS LeaveAccrual, TLC

CONSTANTS calm, wild, ann, bob, eve, yearly, monthly

MCRetentionPolicies == {[tenant |-> wild, category |-> "audit"]}
MCTenantOf == (ann :> calm) @@ (bob :> wild) @@ (eve :> wild)
MCStartOf == (ann :> -9) @@ (bob :> -9) @@ (eve :> 0)
MCPolicy ==
  (monthly :> [tenant |-> calm, type |-> "vacation", rate |-> 2, period |-> "monthly", cap |-> None])
  @@ (yearly :> [tenant |-> wild, type |-> "vacation", rate |-> 2, period |-> "yearly", cap |-> 3])
MCBegins == [monthly |-> {-1, 1, 3}, yearly |-> {-1, 3}]
=============================================================================
