-------------------------- MODULE PayrollContract --------------------------
(* What a payroll period promises to the people paid by it: finalization is one *)
(* atomic step that needs a review and at least one result and issues exactly   *)
(* one payslip to each employee with a result; a finalized period's results and *)
(* payslips change only by reopening it.                                        *)
EXTENDS Naturals

CONSTANTS Employees, Periods, Amounts, None

VARIABLES
  status,   \* draft, reviewed or finalized
  result,   \* net amount of an employee in a period, None without one
  issued    \* the payslips of a period; slip.emp is the employee a slip is for

vars == <<status, result, issued>>

Paid(p) == {e \in Employees : result[p][e] # None}

OneEach(slips, employees) ==
  /\ {slip.emp : slip \in slips} = employees
  /\ \A a, b \in slips : a.emp = b.emp => a = b

Init ==
  /\ status = [p \in Periods |-> "draft"]
  /\ result = [p \in Periods |-> [e \in Employees |-> None]]
  /\ issued = [p \in Periods |-> {}]

Compute(p, e) ==
  /\ status[p] # "finalized"
  /\ \E a \in Amounts : result' = [result EXCEPT ![p][e] = a]
  /\ UNCHANGED <<status, issued>>

Review(p) ==
  /\ status[p] # "finalized"
  /\ status' = [status EXCEPT ![p] = "reviewed"]
  /\ UNCHANGED <<result, issued>>

Finalize(p) ==
  /\ status[p] = "reviewed" /\ Paid(p) # {}
  /\ status' = [status EXCEPT ![p] = "finalized"]
  /\ OneEach(issued'[p], Paid(p))
  /\ issued' = [issued EXCEPT ![p] = issued'[p]]
  /\ UNCHANGED result

Reopen(p) ==
  /\ status[p] = "finalized"
  /\ status' = [status EXCEPT ![p] = "draft"]
  /\ UNCHANGED <<result, issued>>

DiscardResults(p) ==
  /\ status[p] = "draft"
  /\ result' = [result EXCEPT ![p] = [e \in Employees |-> None]]
  /\ UNCHANGED <<status, issued>>

DiscardPayslips(p) ==
  /\ status[p] = "draft"
  /\ issued' = [issued EXCEPT ![p] = {}]
  /\ UNCHANGED <<status, result>>

Next == \E p \in Periods :
  \/ \E e \in Employees : Compute(p, e)
  \/ Review(p) \/ Finalize(p) \/ Reopen(p)
  \/ DiscardResults(p) \/ DiscardPayslips(p)

Spec == Init /\ [][Next]_vars
=============================================================================
