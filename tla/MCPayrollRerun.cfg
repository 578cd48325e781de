\* Requests of every kind interleaved: a finalized period is taken back by a run.
SPECIFICATION Spec
CONSTANTS
  Requests = {r1, r2, r3, r4, r5}
  Employees = {e1}
  Periods = {p1, p2}
  Keys = {k1}
  MaxInputs = 0
  MayOverlap <- AnyOverlap
  FaultyOps = {"run", "finalize", "reopen", "payslip"}
  Unused = Unused
  None = None
SYMMETRY Symmetry
VIEW UpToRequestNames
CHECK_DEADLOCK FALSE
PROPERTY FinalizedLeftByReopenOnly
