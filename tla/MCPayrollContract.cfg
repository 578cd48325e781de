\* Contract discipline: requests of different kinds one after the other.
SPECIFICATION Spec
CONSTANTS
  Requests = {r1, r2, r3, r4, r5, r6}
  Employees = {e1}
  Periods = {p1}
  Keys = {k1}
  MaxInputs = 1
  MayOverlap <- OneKindAtATime
  FaultyOps = {"run", "finalize", "payslip"}
  Unused = Unused
  None = None
SYMMETRY Symmetry
VIEW UpToRequestNames
CHECK_DEADLOCK FALSE
INVARIANTS TypeOK OnePayslipEach FileShowsResult
PROPERTIES ContractSpec
