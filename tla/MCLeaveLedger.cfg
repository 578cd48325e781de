\* Calm leaves keep the ledger, a wild one on another account races and fails.
SPECIFICATION Spec
CONSTANTS
  Requests = {r1, r2, r3, r4}
  l1 = l1
  l2 = l2
  wild = wild
  a1 = a1
  a2 = a2
  Leaves = {l1, l2, wild}
  Accounts = {a1, a2}
  AccountOf <- MCAccountOf
  DaysOf <- MCDaysOf
  PolicyAnswers <- MCPolicyAnswers
  Calm = {l1, l2}
  None = None
VIEW UpToRequestNames
CHECK_DEADLOCK FALSE
INVARIANTS TypeOK Balanced
PROPERTIES LedgerSpec ApprovedByHR
