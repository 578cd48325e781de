\* Three requests of three users on two employees, a hire and two departments.
SPECIFICATION Spec
CONSTANTS
  hr = hr
  mia = mia
  eva = eva
  boss = boss
  emp = emp
  Actors = {hr, mia, eva}
  RoleOf <- MCRoleOf
  EmployeeOf <- MCEmployeeOf
  Staff = {boss, emp}
  Hire = hire
  Departments = {d1, d2}
  Open = {d1}
  Changed = {"HR"}
  Lists <- MCLists
  Requests = {r1, r2, r3}
  None = None
  Seed = Seed
SYMMETRY Symmetry
CHECK_DEADLOCK FALSE
INVARIANTS TypeOK DepartmentsExist LastUpdateStands OneHRUpdate
