------------------------------ MODULE Directory ------------------------------
(* Employees, their managers and emergency contacts, departments, and what the   *)
(* roles permit: the handlers of core, one label per statement or transaction    *)
(* that another request may come before. The columns of an employee that only HR *)
(* writes are its department, its manager and "job", that is all the others,      *)
(* named by what the request that wrote them had sent and by whom; a row of       *)
(* contacts or permissions is named by its request.                               *)
EXTENDS Naturals, FiniteSets, TLC, RolePolicy

CONSTANTS
  Actors, RoleOf, EmployeeOf, \* users with a token, its role, the employee each is or None
  Staff,                      \* employees at the beginning
  Hire,                       \* the employee that may be created
  Departments, Open,          \* departments, those that exist at the beginning
  Changed, Lists,             \* the roles whose permissions change, and to what
  Requests,
  None, Seed

Employees == Staff \cup {Hire}
Things == {"employee", "contacts"} \X Employees \cup {"role"} \X Roles
Sent == [by : Requests, actor : Actors, manager : Employees \cup {None}, department : Departments \cup {None}]
EmployeeRows == [manager : Employees \cup {None}, department : Departments \cup {None},
                 job : Sent \cup {Seed}, phone : Requests \cup {Seed}]

ASSUME DirectoryAssumption ==
  /\ RoleOf \in [Actors -> Roles] /\ EmployeeOf \in [Actors -> Staff \cup {None}]
  /\ Changed \subseteq Roles /\ Lists \subseteq SUBSET Permissions
  /\ Hire \notin Staff /\ Open \subseteq Departments
  /\ None \notin Staff \cup Departments \cup {Hire} \cup EmployeeRows /\ Seed \notin Requests \cup Sent

VARIABLES
  employees,  \* rows of employees: [manager, department, job, phone], None before
  relations,  \* rows of manager_relations: [id, employee, manager, open]
  parent,     \* departments: the parent_id of those that exist
  contacts,   \* employee -> the rows of its emergency contacts
  grants,     \* rows of role_permissions: [role, permission, by]
  pc, req,    \* request -> what it does next, what it knows
  asked,      \* history: thing -> what the last update of it that ended wrote
  disturbed   \* history: things two of whose updates overlapped, or one stopped half way

vars == <<employees, relations, parent, contacts, grants, pc, req, asked, disturbed>>

Existing == {e \in Employees : employees[e] # None}
Labels == {"new", "write", "close", "relate", "delete", "contacts", "grants", "done"}
NoReq == [thing |-> None]

Init ==
  /\ employees = [e \in Employees |-> IF e \in Staff
       THEN [manager |-> None, department |-> None, job |-> Seed, phone |-> Seed] ELSE None]
  /\ relations = {}
  /\ parent = [d \in Open |-> None]
  /\ contacts = [e \in Employees |-> {}]
  /\ grants = UNION {{[role |-> ro, permission |-> p, by |-> Seed] : p \in SeededPermissions(ro)} : ro \in Roles}
  /\ pc = [r \in Requests |-> "new"]
  /\ req = [r \in Requests |-> NoReq]
  /\ asked = [t \in Things |-> CASE t[1] = "role" -> SeededPermissions(t[2])
                                 [] t[1] = "contacts" -> {}
                                 [] OTHER -> Seed]
  /\ disturbed = {}

-----------------------------------------------------------------------------
(* What the handlers have in common *)

Starts(r) == pc[r] = "new"

Goto(r, label, knows) ==
  /\ pc' = [pc EXCEPT ![r] = label]
  /\ req' = [req EXCEPT ![r] = knows]

Finish(r) == Goto(r, "done", NoReq)

Updates(q, thing) == pc[q] \notin {"new", "done"} /\ req[q].thing = thing
Under(r, thing) == \E q \in Requests \ {r} : Updates(q, thing)

(* An update of a thing begins. *)
BeginUpdate(r, label, knows) ==
  /\ Goto(r, label, knows)
  /\ disturbed' = IF Under(r, knows.thing) THEN disturbed \cup {knows.thing} ELSE disturbed

(* HasPermission, by the role in the token. *)
Granted(ro) == {g.permission : g \in {x \in grants : x.role = ro}}
Permitted(a, permission) == Allowed(Granted(RoleOf[a]), permission)

IsHR(a) == RoleOf[a] \in {"HR", "HRManager"}

(* A statement fails or the client leaves: a transaction leaves nothing behind. *)
Fail(r) ==
  /\ pc[r] \notin {"new", "done"}
  /\ disturbed' = IF pc[r] \in {"close", "relate"} THEN disturbed \cup {req[r].thing} ELSE disturbed
  /\ Finish(r)
  /\ UNCHANGED <<employees, relations, parent, contacts, grants, asked>>

-----------------------------------------------------------------------------
(* Employees and their managers *)

(* The foreign keys of employees. *)
Refers(row) ==
  /\ row.manager \in Existing \cup {None}
  /\ row.department \in DOMAIN parent \cup {None}

(* What a request has sent of an employee. *)
Payload(r, a, m, d) ==
  [manager |-> m, department |-> d, job |-> [by |-> r, actor |-> a, manager |-> m, department |-> d], phone |-> r]

(* createEmployee, with an account of role Employee: no relation is written. *)
CreateEmployee(r, a, m, d) ==
  /\ Starts(r)
  /\ CanCreateRole(RoleOf[a], "Employee")
  /\ employees[Hire] = None
  /\ LET row == Payload(r, a, m, d)
     IN /\ Refers(row)
        /\ employees' = [employees EXCEPT ![Hire] = row]
        /\ asked' = [asked EXCEPT ![<<"employee", Hire>>] = row.job]
  /\ Finish(r)
  /\ UNCHANGED <<relations, parent, contacts, grants, disturbed>>

(* Mutant: the columns that were there are taken over, but for the manager. *)
OwnColumnsAndManager(existing, payload) == [existing EXCEPT !.phone = payload.phone, !.manager = payload.manager]

(* Of an employee who is not HR the payload's own columns are taken. *)
OwnColumns(existing, payload) == [existing EXCEPT !.phone = payload.phone]

(* GetEmployee *)
GetEmployee(e) == employees[e]

(* handleUpdateEmployee: whose columns are written. *)
UpdateEmployee(r, a, e, m, d) ==
  /\ Starts(r)
  /\ e \in Existing
  /\ IsHR(a) \/ EmployeeOf[a] = e
  /\ LET existing == GetEmployee(e)
         payload == Payload(r, a, m, d)
     IN BeginUpdate(r, "write",
          [thing |-> <<"employee", e>>, previous |-> existing.manager, hr |-> IsHR(a),
           row |-> IF IsHR(a) THEN payload ELSE OwnColumns(existing, payload)])
  /\ UNCHANGED <<employees, relations, parent, contacts, grants, asked>>

(* The UPDATE of every column; a foreign key that fails ends the request. *)
WriteEmployee(r) ==
  /\ pc[r] = "write"
  /\ LET row == req[r].row
     IN IF Refers(row)
          THEN /\ employees' = [employees EXCEPT ![req[r].thing[2]] = row]
               /\ asked' = IF req[r].hr THEN [asked EXCEPT ![req[r].thing] = row.job] ELSE asked
               /\ IF req[r].hr /\ req[r].previous # row.manager
                    THEN Goto(r, "close", req[r])
                    ELSE Finish(r)
          ELSE Finish(r) /\ UNCHANGED <<employees, asked>>
  /\ UNCHANGED <<relations, parent, contacts, grants, disturbed>>

(* Mutant: a relation is written of an employee with no manager too. *)
RelatedAlways(row) == TRUE

(* A relation is written of an employee that has a manager. *)
Related(row) == row.manager # None

(* Mutant: the relation of the manager before stays open. *)
CloseNone(rows, e) == rows

(* CloseManagerRelations *)
Close(rows, e) == {IF row.employee = e THEN [row EXCEPT !.open = FALSE] ELSE row : row \in rows}

CloseManagerRelations(r) ==
  /\ pc[r] = "close"
  /\ relations' = Close(relations, req[r].thing[2])
  /\ IF Related(req[r].row) THEN Goto(r, "relate", req[r]) ELSE Finish(r)
  /\ UNCHANGED <<employees, parent, contacts, grants, asked, disturbed>>

(* An error of the first is logged, and the second is tried. *)
CloseFails(r) ==
  /\ pc[r] = "close" /\ Related(req[r].row)
  /\ Goto(r, "relate", req[r])
  /\ disturbed' = disturbed \cup {req[r].thing}
  /\ UNCHANGED <<employees, relations, parent, contacts, grants, asked>>

CreateManagerRelation(r) ==
  /\ pc[r] = "relate"
  /\ relations' = relations \cup
       {[id |-> r, employee |-> req[r].thing[2], manager |-> req[r].row.manager, open |-> TRUE]}
  /\ Finish(r)
  /\ UNCHANGED <<employees, parent, contacts, grants, asked, disturbed>>

-----------------------------------------------------------------------------
(* Emergency contacts and permissions: replaced in a transaction, whose DELETE *)
(* sees what had been committed when it began                                  *)

(* handleReplaceSelfEmergencyContacts, of the employee the user is. *)
ReplaceOwn(a, e) == EmployeeOf[a] = e

(* handleReplaceEmployeeEmergencyContacts *)
ReplaceAny(a, e) == Permitted(a, PermEmployeesWrite) /\ IsHR(a) /\ e \in Existing

(* ReplaceEmergencyContacts to the commit; no row is written of an empty list. *)
ReplaceContacts(r, a, e, rows) ==
  /\ Starts(r)
  /\ ReplaceOwn(a, e) \/ ReplaceAny(a, e)
  /\ BeginUpdate(r, "contacts", [thing |-> <<"contacts", e>>, deleted |-> contacts[e], rows |-> rows])
  /\ UNCHANGED <<employees, relations, parent, contacts, grants, asked>>

Replaced(rows, deleted, new) == (rows \ deleted) \cup new

CommitContacts(r) ==
  /\ pc[r] = "contacts"
  /\ LET e == req[r].thing[2]
     IN contacts' = [contacts EXCEPT ![e] = Replaced(@, req[r].deleted, req[r].rows)]
  /\ asked' = [asked EXCEPT ![req[r].thing] = req[r].rows]
  /\ Finish(r)
  /\ UNCHANGED <<employees, relations, parent, grants, disturbed>>

(* handleUpdateRolePermissions *)
UpdateRole(r, a, ro, list) ==
  /\ Starts(r)
  /\ Permitted(a, PermOrgWrite) /\ RoleOf[a] \in {"HR", "SystemAdmin"}
  /\ BeginUpdate(r, "grants",
       [thing |-> <<"role", ro>>, deleted |-> {g \in grants : g.role = ro},
        rows |-> {[role |-> ro, permission |-> p, by |-> r] : p \in list}])
  /\ UNCHANGED <<employees, relations, parent, contacts, grants, asked>>

(* UpdateRolePermissions: a permission someone else has given meanwhile breaks the *)
(* primary key and nothing is replaced.                                            *)
CommitGrants(r) ==
  /\ pc[r] = "grants"
  /\ LET left == grants \ req[r].deleted
     IN IF \E g \in left, n \in req[r].rows : g.role = n.role /\ g.permission = n.permission
          THEN UNCHANGED <<grants, asked>>
          ELSE /\ grants' = Replaced(grants, req[r].deleted, req[r].rows)
               /\ asked' = [asked EXCEPT ![req[r].thing] = {n.permission : n \in req[r].rows}]
  /\ Finish(r)
  /\ UNCHANGED <<employees, relations, parent, contacts, disturbed>>

-----------------------------------------------------------------------------
(* Departments *)

MaySetUp(a) == Permitted(a, PermOrgWrite) /\ RoleOf[a] = "HR"

(* CreateDepartment and UpdateDepartment of the store. *)
WithDepartment(d, p) == [x \in DOMAIN parent \cup {d} |-> IF x = d THEN p ELSE parent[x]]
WithParent(d, p) == [parent EXCEPT ![d] = p]

(* handleCreateDepartment *)
CreateDepartment(r, a, d, p) ==
  /\ Starts(r)
  /\ MaySetUp(a)
  /\ d \notin DOMAIN parent /\ p \in DOMAIN parent \cup {None}
  /\ parent' = WithDepartment(d, p)
  /\ Finish(r)
  /\ UNCHANGED <<employees, relations, contacts, grants, asked, disturbed>>

(* handleUpdateDepartment: any department may be the parent, also the row itself. *)
UpdateDepartment(r, a, d, p) ==
  /\ Starts(r)
  /\ MaySetUp(a)
  /\ d \in DOMAIN parent /\ p \in DOMAIN parent \cup {None}
  /\ parent' = WithParent(d, p)
  /\ Finish(r)
  /\ UNCHANGED <<employees, relations, contacts, grants, asked, disturbed>>

(* DepartmentHasEmployees *)
HasEmployees(d) == \E e \in Existing : employees[e].department = d

(* handleDeleteDepartment: an error of the question counts as no. *)
CheckDepartment(r, a, d, error) ==
  /\ Starts(r)
  /\ MaySetUp(a)
  /\ error \/ ~HasEmployees(d)
  /\ Goto(r, "delete", [thing |-> d])
  /\ UNCHANGED <<employees, relations, parent, contacts, grants, asked, disturbed>>

(* Mutant: no foreign key, the question asked before has to do. *)
NothingRefers(d) == d \in DOMAIN parent

(* The foreign keys of employees and departments on departments. *)
Unreferred(d) == ~HasEmployees(d) /\ \A x \in DOMAIN parent \ {d} : parent[x] # d

DeleteDepartment(r) ==
  /\ pc[r] = "delete"
  /\ LET d == req[r].thing
     IN parent' = IF Unreferred(d) THEN [x \in DOMAIN parent \ {d} |-> parent[x]] ELSE parent
  /\ Finish(r)
  /\ UNCHANGED <<employees, relations, contacts, grants, asked, disturbed>>

-----------------------------------------------------------------------------

Begin(r, a) ==
  \/ \E m \in Staff \cup {None}, d \in Departments \cup {None} :
       \/ CreateEmployee(r, a, m, d)
       \/ \E e \in Employees : UpdateEmployee(r, a, e, m, d)
  \/ \E e \in Employees, rows \in {{}, {r}} : ReplaceContacts(r, a, e, rows)
  \/ \E ro \in Changed, list \in Lists : UpdateRole(r, a, ro, list)
  \/ \E d \in Departments, p \in Departments \cup {None} : CreateDepartment(r, a, d, p) \/ UpdateDepartment(r, a, d, p)
  \/ \E d \in Departments, error \in BOOLEAN : CheckDepartment(r, a, d, error)

Continue(r) ==
  \/ WriteEmployee(r) \/ CloseManagerRelations(r) \/ CloseFails(r) \/ CreateManagerRelation(r)
  \/ CommitContacts(r) \/ CommitGrants(r) \/ DeleteDepartment(r)

Next == \E r \in Requests : (\E a \in Actors : Begin(r, a)) \/ Continue(r) \/ Fail(r)

Spec == Init /\ [][Next]_vars

-----------------------------------------------------------------------------
(* Properties *)

(* Rows, and what requests know, keep their types. *)
TypeOK ==
  /\ \A e \in Existing : employees[e] \in EmployeeRows
  /\ relations \subseteq [id : Requests, employee : Employees, manager : Employees, open : BOOLEAN]
  /\ DOMAIN parent \subseteq Departments
  /\ contacts \in [Employees -> SUBSET Requests]
  /\ grants \subseteq [role : Roles, permission : Permissions, by : Requests \cup {Seed}]
  /\ pc \in [Requests -> Labels]
  /\ \A r \in Requests : req[r].thing \in Things \cup Departments \cup {None}
  /\ disturbed \subseteq Things

(* The department of an employee and the parent of a department exist, although a *)
(* deletion asks first and deletes later, and an update writes what it was sent.  *)
DepartmentsExist ==
  /\ \A e \in Existing : employees[e].department \in DOMAIN parent \cup {None}
  /\ \A d \in DOMAIN parent : parent[d] \in DOMAIN parent \cup {None}

Settled(thing) == thing \notin disturbed /\ \A r \in Requests : ~Updates(r, thing)

(* The manager history of an employee says who its manager is: one relation is    *)
(* open, with the manager of the row, and none when it has none; before a first   *)
(* change there is none.                                                          *)
HistoryAgrees(e) ==
  LET rows == {x \in relations : x.employee = e}
      open == {x \in rows : x.open}
  IN rows # {} => {x.manager : x \in open} = {employees[e].manager} \ {None} /\ Cardinality(open) <= 1

(* Where no two updates of a thing overlapped and none stopped half way, the last *)
(* one stands whole: what HR wrote of an employee, with its manager history,      *)
(* whatever the employee has saved since, the contacts of one list, the           *)
(* permissions of one list.                                                       *)
LastUpdateStands ==
  \A t \in Things : Settled(t) =>
    CASE t[1] = "employee" -> t[2] \in Existing => employees[t[2]].job = asked[t] /\ HistoryAgrees(t[2])
      [] t[1] = "contacts" -> contacts[t[2]] = asked[t]
      [] OTHER -> Granted(t[2]) = asked[t]

(* Whatever overlaps, the columns that only HR writes come from one request of    *)
(* HR, all of them: an employee who saves its own columns writes back those it    *)
(* had read, and may bring back an older update, but mixes no two of them and     *)
(* adds nothing of what it has sent (handleUpdateEmployee).                       *)
OneHRUpdate ==
  \A e \in Existing :
    LET row == employees[e]
    IN /\ row.job = Seed => row.manager = None /\ row.department = None
       /\ row.job # Seed => /\ row.manager = row.job.manager /\ row.department = row.job.department
                            /\ IsHR(row.job.actor)

=============================================================================
