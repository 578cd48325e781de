\* Three requests of three users and one that may be created.
SPECIFICATION Spec
CONSTANTS
  root = root
  ada = ada
  mia = mia
  s1 = s1
  s2 = s2
  Users = {root, ada, mia}
  RoleOf <- MCRoleOf
  NewUser = new
  Requests = {r1, r2, r3}
  Begun <- MCBegun
  None = None
SYMMETRY Symmetry
CHECK_DEADLOCK FALSE
INVARIANTS TypeOK OneLiveToken LoggedOutStaysOut SystemAdminsStay EnabledMeansConfirmed
