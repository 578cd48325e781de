----------------------------- MODULE MCPayroll -----------------------------
(* TLC instances of PayrollPeriod. *)
EXTENDS PayrollPeriod, TLC

AnyOverlap == {{a, b} : a, b \in Ops}

Symmetry == Permutations(Employees) \cup Permutations(Periods) \cup Permutations(Keys)

(* Requests differ in nothing but their names: a state is seen up to a permutation *)
(* of them, as the number of requests in each local state. (A SYMMETRY set of the  *)
(* requests would mean the same; TLC compares n! states for it.)                   *)
LocalState(r) == <<req[r], pc[r], todo[r], cur[r], val[r], {p \in Periods : lock[p] = r}>>

UpToRequestNames ==
  <<status, finalizations, inputs, net, payslips, idem,
    [s \in {LocalState(r) : r \in Requests} |->
       Cardinality({r \in Requests : LocalState(r) = s})]>>
=============================================================================
