SPECIFICATION Spec
CONSTANTS
  None = None
  Actors = {"hr", "eva"}
  RoleOf <- MCRoleOf
  EmployeeOf <- MCEmployeeOf
  Employees = {"eve", "joe"}
  Initial <- MCInitial
  Kept = {"performance", "gdpr"}
  Saved = {"leave", "payroll", "employee_profile", "emergency_contacts"}
  Writable <- MCWritable
  Editable = {11, 14, 31, 33}
  Requests = {1, 2}
  Unreliable = {"feedback", "goal"}
INVARIANTS TypeOK CompletedMeansBlank ExportWhole RunsTell NoDeadlock
PROPERTY RetentionSpares
CHECK_DEADLOCK FALSE
