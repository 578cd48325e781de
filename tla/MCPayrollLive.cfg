\* Requests of every kind interleaved, failing anywhere: each is answered.
SPECIFICATION FairSpec
CONSTANTS
  Requests = {r1, r2, r3}
  Employees = {e1}
  Periods = {p1}
  Keys = {k1}
  MaxInputs = 0
  MayOverlap <- AnyOverlap
  FaultyOps = {"run", "finalize", "reopen", "payslip"}
  Unused = Unused
  None = None
CHECK_DEADLOCK FALSE
PROPERTY EveryRequestAnswered
