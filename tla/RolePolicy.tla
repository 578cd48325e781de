----------------------------- MODULE RolePolicy -----------------------------
(* Who may do what: the roles, the permissions they are seeded with, which      *)
(* roles an actor may give and whose accounts it may change.                    *)
EXTENDS FiniteSets

Roles == {"Employee", "Manager", "HRManager", "HR", "Admin", "SystemAdmin"}

(* Mutant: an Admin may appoint system administrators. *)
CanCreateRoleWide(actor, role) == role # "Employee" /\ actor \in {"SystemAdmin", "Admin"}

(* canCreateRole: nobody creates a SystemAdmin. *)
CanCreateRole(actor, role) ==
  \/ actor = "SystemAdmin" /\ role \in {"Admin", "HR", "HRManager", "Manager"}
  \/ actor = "Admin" /\ role \in {"HRManager", "HR", "Manager"}
  \/ actor = "HRManager" /\ role \in {"HR", "Employee"}
  \/ actor = "HR" /\ role = "Employee"

(* canManageRole *)
CanManageRole(actor, role) ==
  \/ actor = "SystemAdmin" /\ role # "SystemAdmin"
  \/ actor = "Admin" /\ role \in {"HR", "HRManager", "Manager", "Employee"}
  \/ actor = "HRManager" /\ role \in {"HR", "Employee"}
  \/ actor = "HR" /\ role = "Employee"

PermSystemAdmin == "admin.system"
PermOrgWrite == "core.org.write"
PermOrgRead == "core.org.read"
PermEmployeesRead == "core.employees.read"
PermEmployeesWrite == "core.employees.write"
Permissions == {PermSystemAdmin, PermOrgWrite, PermOrgRead, PermEmployeesRead, PermEmployeesWrite}

(* RequirePermission: the permission itself or the system administrator's. *)
Allowed(permissions, permission) ==
  permission \in permissions \/ PermSystemAdmin \in permissions

(* RolePermissions, of the permissions that guard employees and the organisation. *)
SeededPermissions(role) ==
  CASE role \in {"HR", "Admin"} -> {PermEmployeesRead, PermEmployeesWrite, PermOrgRead, PermOrgWrite}
    [] role = "HRManager" -> {PermEmployeesRead, PermEmployeesWrite, PermOrgRead}
    [] role = "SystemAdmin" -> {PermSystemAdmin}
    [] OTHER -> {PermEmployeesRead, PermOrgRead}
=============================================================================
