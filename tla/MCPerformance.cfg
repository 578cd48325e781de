\* Three requests of four users on two employees, with a cycle under way that asks
\* HR; employees have been given the permission to review.
SPECIFICATION Spec
CONSTANTS
  hr = hr
  hrm = hrm
  mia = mia
  eva = eva
  boss = boss
  emp = emp
  Actors = {hr, hrm, mia, eva}
  RoleOf <- MCRoleOf
  EmployeeOf <- MCEmployeeOf
  Staff = {boss, emp}
  FirstManager <- MCManager
  Accounts = {boss, emp}
  Moving = {emp}
  Given <- MCGiven
  Requests = {r1, r2, r3}
  Past = past
  HRRequired = TRUE
  None = None
SYMMETRY Symmetry
CHECK_DEADLOCK FALSE
INVARIANTS TypeOK StagesInOrder  WriterSees
