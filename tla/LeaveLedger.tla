---------------------------- MODULE LeaveLedger ----------------------------
(* What a leave balance promises: a submitted leave reserves its days, and the *)
(* one decision taken on it turns them into used days or gives them back.      *)
EXTENDS Integers, FiniteSets

CONSTANTS
  Leaves,       \* leave requests
  Accounts,     \* (employee, leave type) pairs: rows of leave_balances
  AccountOf,    \* the account a leave draws on
  DaysOf        \* its length in half days

VARIABLES state, pending, used

vars == <<state, pending, used>>

Init ==
  /\ state = [l \in Leaves |-> "unsubmitted"]
  /\ pending = [a \in Accounts |-> 0]
  /\ used = [a \in Accounts |-> 0]

Submit(l) ==
  /\ state[l] = "unsubmitted"
  /\ state' = [state EXCEPT ![l] = "open"]
  /\ pending' = [pending EXCEPT ![AccountOf[l]] = @ + DaysOf[l]]
  /\ UNCHANGED used

Grant(l) ==
  /\ state[l] = "open"
  /\ state' = [state EXCEPT ![l] = "granted"]
  /\ pending' = [pending EXCEPT ![AccountOf[l]] = @ - DaysOf[l]]
  /\ used' = [used EXCEPT ![AccountOf[l]] = @ + DaysOf[l]]

Close(l) ==
  /\ state[l] = "open"
  /\ state' = [state EXCEPT ![l] = "closed"]
  /\ pending' = [pending EXCEPT ![AccountOf[l]] = @ - DaysOf[l]]
  /\ UNCHANGED used

Next == \E l \in Leaves : Submit(l) \/ Grant(l) \/ Close(l)

Spec == Init /\ [][Next]_vars

(* The half days of the leaves of an account that are in state s. *)
HalfDays(a, s) ==
  UNION {{l} \X (1..DaysOf[l]) : l \in {m \in Leaves : AccountOf[m] = a /\ state[m] = s}}

(* The balance row of every account is what its leaves add up to. *)
Balanced ==
  \A a \in Accounts : /\ pending[a] = Cardinality(HalfDays(a, "open"))
                       /\ used[a] = Cardinality(HalfDays(a, "granted"))
=============================================================================
