------------------------------ MODULE MCLeave ------------------------------
(* TLC instances of LeaveRequest: two calm leaves draw on one account, a third *)
(* one is left to races and failures on another.                               *)
EXTENDS LeaveRequest, TLC

CONSTANTS l1, l2, wild, a1, a2

MCAccountOf == (l1 :> a1) @@ (l2 :> a1) @@ (wild :> a2)
MCDaysOf == (l1 :> 1) @@ (l2 :> 2) @@ (wild :> 1)
MCPolicyAnswers == (a1 :> BOOLEAN) @@ (a2 :> {TRUE})

(* HTTP requests differ in nothing but their names (see UpToRequestNames in MCPayroll), *)
(* and nothing reads what an answered request was.                                      *)
LocalState(r) == IF pc[r] \in Done THEN <<"done">> ELSE <<req[r], pc[r], next[r]>>

UpToRequestNames ==
  <<db, [s \in {LocalState(r) : r \in Requests} |->
           Cardinality({r \in Requests : LocalState(r) = s})]>>
=============================================================================
