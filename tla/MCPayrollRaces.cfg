\* Requests of every kind interleaved, failing anywhere.
SPECIFICATION Spec
CONSTANTS
  Requests = {r1, r2, r3, r4, r5}
  Employees = {e1}
  Periods = {p1, p2}
  Keys = {k1}
  MaxInputs = 0
  MayOverlap <- AnyOverlap
  FaultyOps = {"run", "finalize", "reopen", "payslip"}
  Unused = Unused
  None = None
SYMMETRY Symmetry
VIEW UpToRequestNames
CHECK_DEADLOCK FALSE
INVARIANTS SuccessIsTruthful
PROPERTIES FinalizeOnlyFromReviewed KeyNeverRebound
