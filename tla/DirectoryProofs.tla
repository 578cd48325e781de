-------------------------- MODULE DirectoryProofs --------------------------
(* Proofs about Directory for any users, employees, departments and requests. *)
EXTENDS Directory, FiniteSetTheorems, TLAPS

(* The tables are functions, which a statement changes in one place.              *)
RowsInv ==
  /\ employees = [e \in Employees |-> employees[e]]
  /\ parent = [d \in DOMAIN parent |-> parent[d]]

IInv == RowsInv /\ DepartmentsExist

references == <<employees, parent>>
-----------------------------------------------------------------------------
LEMMA InitIInv == Init => IInv
<1> SUFFICES ASSUME Init PROVE IInv
  OBVIOUS
<1>1. /\ employees = [e \in Employees |-> IF e \in Staff
           THEN [manager |-> None, department |-> None, job |-> Seed, phone |-> Seed] ELSE None]
      /\ parent = [d \in Open |-> None]
  BY DEF Init
<1>2. \A e \in Existing : employees[e].department = None
  BY <1>1 DEF Existing
<1>3. QED
  BY <1>1, <1>2 DEF IInv, RowsInv, DepartmentsExist

LEMMA ReferencesStay == ASSUME IInv, UNCHANGED references PROVE IInv'
BY DEF IInv, RowsInv, DepartmentsExist, Existing, references

(* An employee's row is written whose references were looked up by the statement. *)
LEMMA RowKeeps ==
  ASSUME IInv, NEW e, NEW row, Refers(row),
         employees' = [employees EXCEPT ![e] = row], UNCHANGED parent
  PROVE  IInv'
<1>1. row.department \in DOMAIN parent \cup {None}
  BY DEF Refers
<1>2. \A x \in Employees : employees'[x] = IF x = e THEN row ELSE employees[x]
  BY DEF IInv, RowsInv
<1>3. RowsInv'
  BY DEF IInv, RowsInv
<1>4. \A x \in Existing' : employees'[x].department \in DOMAIN parent \cup {None}
  BY <1>1, <1>2 DEF IInv, DepartmentsExist, Existing
<1>5. QED
  BY <1>3, <1>4 DEF IInv, DepartmentsExist

(* A department is added, or gets another parent. *)
LEMMA DepartmentKeeps ==
  ASSUME IInv, NEW d, NEW p \in DOMAIN parent \cup {None}, UNCHANGED employees,
         DOMAIN parent' = DOMAIN parent \cup {d}, parent' = [x \in DOMAIN parent' |-> parent'[x]],
         \A x \in DOMAIN parent' : parent'[x] = IF x = d THEN p ELSE parent[x]
  PROVE  IInv'
BY DEF IInv, RowsInv, DepartmentsExist, Existing

(* A department goes away that nobody refers to. *)
LEMMA DeletionKeeps ==
  ASSUME IInv, NEW d, Unreferred(d), UNCHANGED employees,
         parent' = [x \in DOMAIN parent \ {d} |-> parent[x]]
  PROVE  IInv'
<1>1. \A e \in Existing : employees[e].department # d
  BY DEF Unreferred, HasEmployees
<1>2. \A x \in DOMAIN parent \ {d} : parent[x] # d
  BY DEF Unreferred
<1>3. Existing' = Existing /\ DOMAIN parent' = DOMAIN parent \ {d}
  BY DEF Existing
<1>4. DepartmentsExist'
  BY <1>1, <1>2, <1>3 DEF IInv, DepartmentsExist
<1>5. QED
  BY <1>3, <1>4 DEF IInv, RowsInv

LEMMA BeginKeeps ==
  ASSUME IInv, NEW r, NEW a, Begin(r, a)
  PROVE  IInv'
<1>1. ASSUME NEW m, NEW d, CreateEmployee(r, a, m, d) PROVE IInv'
  <2> DEFINE row == Payload(r, a, m, d)
  <2>1. Refers(row) /\ employees' = [employees EXCEPT ![Hire] = row] /\ UNCHANGED parent
    BY <1>1 DEF CreateEmployee
  <2> HIDE DEF row
  <2>2. QED
    BY <2>1, RowKeeps
<1>2. ASSUME NEW d, NEW p \in Departments \cup {None}, CreateDepartment(r, a, d, p) PROVE IInv'
  <2>1. p \in DOMAIN parent \cup {None} /\ parent' = WithDepartment(d, p) /\ UNCHANGED employees
    BY <1>2 DEF CreateDepartment
  <2>2. /\ DOMAIN parent' = DOMAIN parent \cup {d} /\ parent' = [x \in DOMAIN parent' |-> parent'[x]]
        /\ \A x \in DOMAIN parent' : parent'[x] = IF x = d THEN p ELSE parent[x]
    BY <2>1 DEF WithDepartment
  <2>3. QED
    BY <2>1, <2>2, DepartmentKeeps
<1>3. ASSUME NEW d, NEW p \in Departments \cup {None}, UpdateDepartment(r, a, d, p) PROVE IInv'
  <2>1. /\ d \in DOMAIN parent /\ p \in DOMAIN parent \cup {None}
        /\ parent' = [parent EXCEPT ![d] = p] /\ UNCHANGED employees
    BY <1>3 DEF UpdateDepartment, WithParent
  <2>2. /\ DOMAIN parent' = DOMAIN parent \cup {d} /\ parent' = [x \in DOMAIN parent' |-> parent'[x]]
        /\ \A x \in DOMAIN parent' : parent'[x] = IF x = d THEN p ELSE parent[x]
    BY <2>1 DEF IInv, RowsInv
  <2>3. QED
    BY <2>1, <2>2, DepartmentKeeps
<1>4. ASSUME UNCHANGED references PROVE IInv'
  BY <1>4, ReferencesStay
<1>5. QED
  BY <1>1, <1>2, <1>3, <1>4
  DEF Begin, UpdateEmployee, ReplaceContacts, UpdateRole, CheckDepartment, references

LEMMA ContinueKeeps ==
  ASSUME IInv, NEW r, Continue(r) \/ Fail(r)
  PROVE  IInv'
<1>1. CASE WriteEmployee(r)
  <2>1. CASE Refers(req[r].row)
    BY <1>1, <2>1, RowKeeps DEF WriteEmployee
  <2>2. CASE ~Refers(req[r].row)
    BY <1>1, <2>2, ReferencesStay DEF WriteEmployee, references
  <2>3. QED
    BY <2>1, <2>2
<1>2. CASE DeleteDepartment(r)
  <2>1. CASE Unreferred(req[r].thing)
    BY <1>2, <2>1, DeletionKeeps DEF DeleteDepartment
  <2>2. CASE ~Unreferred(req[r].thing)
    BY <1>2, <2>2, ReferencesStay DEF DeleteDepartment, references
  <2>3. QED
    BY <2>1, <2>2
<1>3. CASE \/ CloseManagerRelations(r) \/ CloseFails(r) \/ CreateManagerRelation(r)
           \/ CommitContacts(r) \/ CommitGrants(r) \/ Fail(r)
  <2>1. UNCHANGED references
    BY <1>3 DEF CloseManagerRelations, CloseFails, CreateManagerRelation, CommitContacts, CommitGrants, Fail, references
  <2>2. QED
    BY <2>1, ReferencesStay
<1>4. QED
  BY <1>1, <1>2, <1>3 DEF Continue

LEMMA Inductive == IInv /\ [Next]_vars => IInv'
<1>1. ASSUME IInv, UNCHANGED vars PROVE IInv'
  BY <1>1, ReferencesStay DEF vars, references
<1>2. QED
  BY <1>1, BeginKeeps, ContinueKeeps DEF Next
-----------------------------------------------------------------------------
(* CreateEmployee, UpdateEmployee, CreateDepartment, UpdateDepartment and         *)
(* DeleteDepartment: whatever was asked before a statement and has changed since, *)
(* every department that a row refers to exists.                                  *)
THEOREM DepartmentsLast == Spec => []DepartmentsExist
<1>1. IInv => DepartmentsExist
  BY DEF IInv
<1>2. QED
  BY <1>1, InitIInv, Inductive, PTL DEF Spec

-----------------------------------------------------------------------------
(* Types, and what a request knows at the labels that use it *)

GrantRows == [role : Roles, permission : Permissions, by : Requests \cup {Seed}]
RelationRows == [id : Requests, employee : Employees, manager : Employees, open : BOOLEAN]

KnowsRow(r) ==
  /\ (\E e \in Existing : req[r].thing = <<"employee", e>>) /\ req[r].row \in EmployeeRows

KnowOK(r) ==
  /\ pc[r] \in {"write", "close", "relate"} => KnowsRow(r)
  /\ pc[r] \in {"close", "relate"} => req[r].hr
  /\ pc[r] = "relate" => req[r].row.manager \in Employees
  /\ pc[r] = "contacts" => (\E e \in Employees : req[r].thing = <<"contacts", e>>) /\ req[r].rows \subseteq Requests
  /\ pc[r] = "grants" =>
       \E ro \in Roles : /\ req[r].thing = <<"role", ro>>
                         /\ req[r].rows \subseteq GrantRows /\ \A n \in req[r].rows : n.role = ro
                         /\ \A g \in req[r].deleted : g.role = ro
  /\ pc[r] = "delete" => req[r].thing \in Departments

KnowInv == /\ DOMAIN req = Requests /\ DOMAIN asked = Things
           /\ \A r \in Requests : KnowOK(r)
           /\ \A x \in relations : x.employee \in Existing

KInv == TypeOK /\ KnowInv

LEMMA SeededKnown == \A ro \in Roles : SeededPermissions(ro) \subseteq Permissions
BY DEF SeededPermissions, Permissions

LEMMA InitKInv == Init => KInv
<1> SUFFICES ASSUME Init PROVE KInv
  OBVIOUS
<1>1. \A e \in Existing : employees[e] \in EmployeeRows
  BY DEF Init, Existing, EmployeeRows
<1>2. grants \subseteq GrantRows
  <2> DEFINE Row(ro, p) == [role |-> ro, permission |-> p, by |-> Seed]
  <2>1. \A ro \in Roles : \A p \in SeededPermissions(ro) : Row(ro, p) \in GrantRows
    BY SeededKnown DEF GrantRows
  <2>2. grants = UNION {{Row(ro, p) : p \in SeededPermissions(ro)} : ro \in Roles}
    BY DEF Init
  <2> HIDE DEF Row
  <2>3. QED
    BY <2>1, <2>2
<1>3. /\ relations = {} /\ DOMAIN parent = Open /\ contacts \in [Employees -> SUBSET Requests]
      /\ pc \in [Requests -> Labels] /\ \A r \in Requests : pc[r] = "new"
      /\ req = [r \in Requests |-> NoReq] /\ disturbed = {} /\ DOMAIN asked = Things
  BY DEF Init, Labels
<1>4. TypeOK
  BY <1>1, <1>2, <1>3, DirectoryAssumption DEF TypeOK, GrantRows, NoReq
<1>5. KnowInv
  BY <1>3 DEF KnowInv, KnowOK
<1>6. QED
  BY <1>4, <1>5 DEF KInv

(* Goto moves one request only. *)
LEMMA GotoMoves ==
  ASSUME KInv, NEW r \in Requests, NEW label, NEW knows, Goto(r, label, knows)
  PROVE  /\ pc'[r] = label /\ req'[r] = knows
         /\ \A q \in Requests \ {r} : pc'[q] = pc[q] /\ req'[q] = req[q]
         /\ DOMAIN req' = Requests /\ (label \in Labels => pc' \in [Requests -> Labels])
BY DEF Goto, KInv, TypeOK, KnowInv

(* No employee goes away, so what a request knows stays right. *)
LEMMA GotoKeeps ==
  ASSUME KInv, NEW r \in Requests, NEW label \in Labels, NEW knows, Goto(r, label, knows),
         knows.thing \in Things \cup Departments \cup {None}, Existing \subseteq Existing', KnowOK(r)'
  PROVE  /\ pc' \in [Requests -> Labels]
         /\ \A q \in Requests : req'[q].thing \in Things \cup Departments \cup {None}
         /\ DOMAIN req' = Requests /\ \A q \in Requests : KnowOK(q)'
<1>1. /\ pc'[r] = label /\ req'[r] = knows /\ pc' \in [Requests -> Labels] /\ DOMAIN req' = Requests
      /\ \A q \in Requests \ {r} : pc'[q] = pc[q] /\ req'[q] = req[q]
  BY GotoMoves
<1>2. \A q \in Requests : req'[q].thing \in Things \cup Departments \cup {None}
  BY <1>1 DEF KInv, TypeOK
<1>3. ASSUME NEW q \in Requests \ {r} PROVE KnowOK(q)'
  <2>1. KnowOK(q) /\ pc'[q] = pc[q] /\ req'[q] = req[q]
    BY <1>1 DEF KInv, KnowInv
  <2>2. KnowsRow(q) => KnowsRow(q)'
    BY <2>1 DEF KnowsRow
  <2>3. QED
    BY <2>1, <2>2 DEF KnowOK
<1>4. QED
  BY <1>1, <1>2, <1>3

(* Finishing is always in order. *)
LEMMA FinishKeeps ==
  ASSUME KInv, NEW r \in Requests, Finish(r), Existing \subseteq Existing'
  PROVE  /\ pc' \in [Requests -> Labels]
         /\ \A q \in Requests : req'[q].thing \in Things \cup Departments \cup {None}
         /\ DOMAIN req' = Requests /\ \A q \in Requests : KnowOK(q)'
<1>1. Goto(r, "done", NoReq)
  BY DEF Finish
<1>2. pc'[r] = "done"
  BY <1>1, GotoMoves
<1>3. KnowOK(r)'
  BY <1>2 DEF KnowOK
<1>4. NoReq.thing \in Things \cup Departments \cup {None} /\ "done" \in Labels
  BY DEF NoReq, Labels
<1>5. QED
  BY <1>1, <1>3, <1>4, GotoKeeps

(* An update that begins is of a thing. *)
LEMMA BeginUpdateKeeps ==
  ASSUME KInv, NEW r \in Requests, NEW label \in Labels, NEW knows, BeginUpdate(r, label, knows),
         knows.thing \in Things, KnowOK(r)', UNCHANGED <<employees, relations, parent, contacts, grants, asked>>
  PROVE  KInv'
<1>1. Goto(r, label, knows) /\ disturbed' \subseteq Things
  BY DEF BeginUpdate, KInv, TypeOK
<1>2. Existing' = Existing
  BY DEF Existing
<1>3. /\ pc' \in [Requests -> Labels]
      /\ \A q \in Requests : req'[q].thing \in Things \cup Departments \cup {None}
      /\ DOMAIN req' = Requests /\ \A q \in Requests : KnowOK(q)'
  BY <1>1, <1>2, GotoKeeps
<1>4. QED
  BY <1>1, <1>2, <1>3 DEF KInv, TypeOK, KnowInv

(* A statement that ends its request, with what it writes of the right type. *)
LEMMA LastStatementKeeps ==
  ASSUME KInv, NEW r \in Requests, Finish(r), Existing \subseteq Existing',
         \A e \in Existing' : employees'[e] \in EmployeeRows,
         relations' \subseteq RelationRows, \A x \in relations' : x.employee \in Existing',
         DOMAIN parent' \subseteq Departments, contacts' \in [Employees -> SUBSET Requests],
         grants' \subseteq GrantRows, DOMAIN asked' = Things, disturbed' \subseteq Things
  PROVE  KInv'
BY FinishKeeps DEF KInv, TypeOK, KnowInv, GrantRows, RelationRows

(* What KInv says of the tables. *)
LEMMA Tables ==
  ASSUME KInv
  PROVE  /\ \A e \in Existing : employees[e] \in EmployeeRows
         /\ relations \subseteq RelationRows /\ \A x \in relations : x.employee \in Existing
         /\ DOMAIN parent \subseteq Departments /\ contacts \in [Employees -> SUBSET Requests]
         /\ grants \subseteq GrantRows /\ DOMAIN asked = Things /\ disturbed \subseteq Things
BY DEF KInv, TypeOK, KnowInv, GrantRows, RelationRows

LEMMA PayloadTypes ==
  ASSUME NEW r \in Requests, NEW a \in Actors, NEW m \in Staff \cup {None}, NEW d \in Departments \cup {None}
  PROVE  Payload(r, a, m, d) \in EmployeeRows
BY DEF Payload, EmployeeRows, Sent, Employees

LEMMA CreateEmployeeTypes ==
  ASSUME IInv, KInv, NEW r \in Requests, NEW a \in Actors, NEW m \in Staff \cup {None},
         NEW d \in Departments \cup {None}, CreateEmployee(r, a, m, d)
  PROVE  KInv'
<1> DEFINE row == Payload(r, a, m, d)
<1>1. row \in EmployeeRows /\ row # None
  BY PayloadTypes, DirectoryAssumption
<1>2. employees' = [employees EXCEPT ![Hire] = row] /\ asked' = [asked EXCEPT ![<<"employee", Hire>>] = row.job]
  BY DEF CreateEmployee
<1> HIDE DEF row
<1>3. UNCHANGED <<relations, parent, contacts, grants, disturbed>> /\ Finish(r) /\ DOMAIN asked' = Things
  BY <1>2, Tables DEF CreateEmployee
<1>4. \A x \in Employees : employees'[x] = IF x = Hire THEN row ELSE employees[x]
  BY <1>2 DEF IInv, RowsInv
<1>5. Existing' = Existing \cup {Hire} /\ \A e \in Existing' : employees'[e] \in EmployeeRows
  BY <1>1, <1>4, Tables DEF Existing, Employees
<1>6. QED
  BY <1>3, <1>5, Tables, LastStatementKeeps

LEMMA UpdateEmployeeTypes ==
  ASSUME KInv, NEW r \in Requests, NEW a \in Actors, NEW e \in Employees, NEW m \in Staff \cup {None},
         NEW d \in Departments \cup {None}, UpdateEmployee(r, a, e, m, d)
  PROVE  KInv'
<1> DEFINE payload == Payload(r, a, m, d)
           row == IF IsHR(a) THEN payload ELSE OwnColumns(employees[e], payload)
           knows == [thing |-> <<"employee", e>>, previous |-> employees[e].manager, hr |-> IsHR(a), row |-> row]
<1>1. e \in Existing /\ employees[e] \in EmployeeRows
  BY Tables DEF UpdateEmployee
<1>2. row \in EmployeeRows
  <2>1. payload \in EmployeeRows
    BY PayloadTypes
  <2> HIDE DEF payload
  <2>2. QED
    BY <1>1, <2>1 DEF EmployeeRows, OwnColumns
<1> HIDE DEF payload
<1>3. /\ BeginUpdate(r, "write", knows) /\ UNCHANGED <<employees, relations, parent, contacts, grants, asked>>
  BY DEF UpdateEmployee, GetEmployee, payload
<1> HIDE DEF row
<1>4. /\ knows.thing = <<"employee", e>> /\ knows.row = row /\ (knows.hr => IsHR(a))
      /\ knows.thing \in Things
  BY DEF Things
<1> HIDE DEF knows
<1>5. pc'[r] = "write" /\ req'[r] = knows /\ Existing' = Existing
  BY <1>3, GotoMoves DEF BeginUpdate, Existing
<1>6. KnowOK(r)'
  BY <1>1, <1>2, <1>4, <1>5 DEF KnowOK, KnowsRow
<1>7. QED
  BY <1>3, <1>4, <1>6, BeginUpdateKeeps DEF Labels

LEMMA ReplaceContactsTypes ==
  ASSUME KInv, NEW r \in Requests, NEW a \in Actors, NEW e \in Employees, NEW rows \in {{}, {r}},
         ReplaceContacts(r, a, e, rows)
  PROVE  KInv'
<1> DEFINE knows == [thing |-> <<"contacts", e>>, deleted |-> contacts[e], rows |-> rows]
<1>1. BeginUpdate(r, "contacts", knows) /\ UNCHANGED <<employees, relations, parent, contacts, grants, asked>>
  BY DEF ReplaceContacts
<1>2. knows.thing = <<"contacts", e>> /\ knows.rows \subseteq Requests /\ knows.thing \in Things
  BY DEF Things
<1> HIDE DEF knows
<1>3. pc'[r] = "contacts" /\ req'[r] = knows
  BY <1>1, GotoMoves DEF BeginUpdate
<1>4. KnowOK(r)'
  BY <1>2, <1>3 DEF KnowOK
<1>5. QED
  BY <1>1, <1>2, <1>4, BeginUpdateKeeps DEF Labels

LEMMA UpdateRoleTypes ==
  ASSUME KInv, NEW r \in Requests, NEW a \in Actors, NEW ro \in Changed, NEW list \in Lists,
         UpdateRole(r, a, ro, list)
  PROVE  KInv'
<1> DEFINE Row(p) == [role |-> ro, permission |-> p, by |-> r]
           rows == {Row(p) : p \in list}
           knows == [thing |-> <<"role", ro>>, deleted |-> {g \in grants : g.role = ro}, rows |-> rows]
<1>1. BeginUpdate(r, "grants", knows) /\ UNCHANGED <<employees, relations, parent, contacts, grants, asked>>
  BY DEF UpdateRole
<1>2. ro \in Roles /\ list \subseteq Permissions
  BY DirectoryAssumption
<1>3. \A n \in rows : n \in GrantRows /\ n.role = ro
  BY <1>2 DEF GrantRows
<1> HIDE DEF rows
<1>4. /\ knows.thing = <<"role", ro>> /\ knows.rows = rows /\ \A g \in knows.deleted : g.role = ro
      /\ knows.thing \in Things
  BY <1>2 DEF Things
<1> HIDE DEF knows
<1>5. pc'[r] = "grants" /\ req'[r] = knows
  BY <1>1, GotoMoves DEF BeginUpdate
<1>6. KnowOK(r)'
  BY <1>2, <1>3, <1>4, <1>5 DEF KnowOK
<1>7. QED
  BY <1>1, <1>4, <1>6, BeginUpdateKeeps DEF Labels

LEMMA DepartmentTypes ==
  ASSUME KInv, NEW r \in Requests, NEW a \in Actors, NEW d \in Departments
  PROVE  /\ \A p : CreateDepartment(r, a, d, p) => KInv'
         /\ \A p : UpdateDepartment(r, a, d, p) => KInv'
         /\ \A error : CheckDepartment(r, a, d, error) => KInv'
<1> USE Tables
<1>1. ASSUME NEW p, CreateDepartment(r, a, d, p) \/ UpdateDepartment(r, a, d, p) PROVE KInv'
  <2>1. Finish(r) /\ DOMAIN parent' \subseteq Departments /\ UNCHANGED <<employees, relations, contacts, grants, asked, disturbed>>
    BY <1>1 DEF CreateDepartment, UpdateDepartment, WithDepartment, WithParent
  <2>2. Existing' = Existing
    BY <2>1 DEF Existing
  <2>3. QED
    BY <2>1, <2>2, LastStatementKeeps
<1>2. ASSUME NEW error, CheckDepartment(r, a, d, error) PROVE KInv'
  <2> DEFINE knows == [thing |-> d]
  <2>1. Goto(r, "delete", knows) /\ UNCHANGED <<employees, relations, parent, contacts, grants, asked, disturbed>>
    BY <1>2 DEF CheckDepartment
  <2>2. knows.thing = d
    OBVIOUS
  <2> HIDE DEF knows
  <2>3. pc'[r] = "delete" /\ req'[r] = knows /\ Existing' = Existing
    BY <2>1, GotoMoves DEF Existing
  <2>4. KnowOK(r)'
    BY <2>2, <2>3 DEF KnowOK
  <2>5. /\ pc' \in [Requests -> Labels]
        /\ \A q \in Requests : req'[q].thing \in Things \cup Departments \cup {None}
        /\ DOMAIN req' = Requests /\ \A q \in Requests : KnowOK(q)'
    BY <2>1, <2>2, <2>3, <2>4, GotoKeeps DEF Labels
  <2>6. QED
    BY <2>1, <2>3, <2>5 DEF KInv, TypeOK, KnowInv
<1>3. QED
  BY <1>1, <1>2

(* A statement after which the request goes on with what it knows. *)
LEMMA StatementKeeps ==
  ASSUME KInv, NEW r \in Requests, NEW label \in {"close", "relate"}, Goto(r, label, req[r]), KnowOK(r)',
         Existing \subseteq Existing', \A e \in Existing' : employees'[e] \in EmployeeRows,
         relations' \subseteq RelationRows, \A x \in relations' : x.employee \in Existing',
         UNCHANGED <<parent, contacts, grants>>, DOMAIN asked' = Things, disturbed' \subseteq Things
  PROVE  KInv'
<1>1. req[r].thing \in Things \cup Departments \cup {None} /\ label \in Labels
  BY DEF KInv, TypeOK, Labels
<1>2. /\ pc' \in [Requests -> Labels]
      /\ \A q \in Requests : req'[q].thing \in Things \cup Departments \cup {None}
      /\ DOMAIN req' = Requests /\ \A q \in Requests : KnowOK(q)'
  BY <1>1, GotoKeeps
<1>3. QED
  BY <1>2 DEF KInv, TypeOK, KnowInv, RelationRows

LEMMA WriteEmployeeTypes ==
  ASSUME IInv, KInv, NEW r \in Requests, WriteEmployee(r)
  PROVE  KInv'
<1>1. pc[r] = "write" /\ KnowsRow(r)
  BY DEF WriteEmployee, KInv, KnowInv, KnowOK
<1>2. PICK e \in Existing : req[r].thing = <<"employee", e>>
  BY <1>1 DEF KnowsRow
<1>3. UNCHANGED <<relations, parent, contacts, grants, disturbed>>
  BY DEF WriteEmployee
<1>4. CASE Refers(req[r].row)
  <2>1. employees' = [employees EXCEPT ![e] = req[r].row] /\ DOMAIN asked' = Things
    BY <1>2, <1>4, Tables DEF WriteEmployee
  <2>2. \A x \in Employees : employees'[x] = IF x = e THEN req[r].row ELSE employees[x]
    BY <2>1 DEF IInv, RowsInv
  <2>3. req[r].row \in EmployeeRows /\ req[r].row # None
    BY <1>1, DirectoryAssumption DEF KnowsRow
  <2>4. Existing' = Existing /\ \A x \in Existing' : employees'[x] \in EmployeeRows
    BY <2>2, <2>3, Tables DEF Existing
  <2>5. CASE Finish(r)
    BY <1>3, <2>1, <2>4, <2>5, Tables, LastStatementKeeps
  <2>6. CASE req[r].hr /\ Goto(r, "close", req[r])
    <3>1. pc'[r] = "close" /\ req'[r] = req[r]
      BY <2>6, GotoMoves
    <3>2. KnowOK(r)'
      BY <1>1, <2>4, <2>6, <3>1 DEF KnowOK, KnowsRow
    <3>3. QED
      BY <1>3, <2>1, <2>4, <2>6, <3>2, Tables, StatementKeeps
  <2>7. QED
    BY <1>4, <2>5, <2>6 DEF WriteEmployee
<1>5. CASE ~Refers(req[r].row)
  <2>1. Finish(r) /\ UNCHANGED <<employees, asked>>
    BY <1>5 DEF WriteEmployee
  <2>2. Existing' = Existing
    BY <2>1 DEF Existing
  <2>3. QED
    BY <1>3, <2>1, <2>2, Tables, LastStatementKeeps
<1>6. QED
  BY <1>4, <1>5

LEMMA CloseTypes ==
  ASSUME KInv, NEW r \in Requests, CloseManagerRelations(r) \/ CloseFails(r)
  PROVE  KInv'
<1>1. /\ pc[r] = "close" /\ KnowsRow(r) /\ req[r].hr
      /\ UNCHANGED <<employees, parent, contacts, grants, asked>> /\ Existing' = Existing
  BY DEF CloseManagerRelations, CloseFails, KInv, KnowInv, KnowOK, Existing
<1>2. PICK e \in Existing : req[r].thing = <<"employee", e>>
  BY <1>1 DEF KnowsRow
<1>3. relations' \subseteq RelationRows /\ \A x \in relations' : x.employee \in Existing
  <2>1. \A x \in RelationRows : [x EXCEPT !.open = FALSE] \in RelationRows /\ [x EXCEPT !.open = FALSE].employee = x.employee
    BY DEF RelationRows
  <2>2. relations' = relations \/ relations' = Close(relations, e)
    BY <1>2 DEF CloseManagerRelations, CloseFails
  <2>3. \A y \in Close(relations, e) : \E x \in relations : y = x \/ y = [x EXCEPT !.open = FALSE]
    BY DEF Close
  <2>4. QED
    BY <2>1, <2>2, <2>3, Tables
<1>4. disturbed' \subseteq Things
  <2>1. req[r].thing \in Things
    BY <1>2 DEF Things, Existing
  <2>2. QED
    BY <2>1, Tables DEF CloseManagerRelations, CloseFails
<1>5. CASE Finish(r)
  BY <1>1, <1>3, <1>4, <1>5, Tables, LastStatementKeeps
<1>6. CASE Related(req[r].row) /\ Goto(r, "relate", req[r])
  <2>1. pc'[r] = "relate" /\ req'[r] = req[r]
    BY <1>6, GotoMoves
  <2>2. req[r].row.manager \in Employees
    BY <1>1, <1>6 DEF KnowsRow, EmployeeRows, Related
  <2>3. KnowOK(r)'
    BY <1>1, <2>1, <2>2 DEF KnowOK, KnowsRow
  <2>4. QED
    BY <1>1, <1>3, <1>4, <1>6, <2>3, Tables, StatementKeeps
<1>7. QED
  BY <1>5, <1>6 DEF CloseManagerRelations, CloseFails

LEMMA RelateTypes ==
  ASSUME KInv, NEW r \in Requests, CreateManagerRelation(r)
  PROVE  KInv'
<1>1. pc[r] = "relate" /\ KnowsRow(r) /\ req[r].row.manager \in Employees
  BY DEF CreateManagerRelation, KInv, KnowInv, KnowOK
<1>2. PICK e \in Existing : req[r].thing = <<"employee", e>>
  BY <1>1 DEF KnowsRow
<1> DEFINE row == [id |-> r, employee |-> e, manager |-> req[r].row.manager, open |-> TRUE]
<1>3. row \in RelationRows /\ row.employee = e
  BY <1>1 DEF RelationRows, Existing
<1>4. relations' = relations \cup {row}
  BY <1>2 DEF CreateManagerRelation
<1> HIDE DEF row
<1>5. Finish(r) /\ UNCHANGED <<employees, parent, contacts, grants, asked, disturbed>> /\ Existing' = Existing
  BY DEF CreateManagerRelation, Existing
<1>6. QED
  BY <1>3, <1>4, <1>5, Tables, LastStatementKeeps

LEMMA CommitTypes ==
  ASSUME KInv, NEW r \in Requests, CommitContacts(r) \/ CommitGrants(r) \/ DeleteDepartment(r) \/ Fail(r)
  PROVE  KInv'
<1>1. Finish(r) /\ UNCHANGED <<employees, relations>> /\ Existing' = Existing
  BY DEF CommitContacts, CommitGrants, DeleteDepartment, Fail, Existing
<1>2. DOMAIN asked' = Things
  BY Tables DEF CommitContacts, CommitGrants, DeleteDepartment, Fail
<1>3. DOMAIN parent' \subseteq Departments
  BY Tables DEF CommitContacts, CommitGrants, DeleteDepartment, Fail
<1>4. contacts' \in [Employees -> SUBSET Requests]
  <2>1. CASE CommitContacts(r)
    <3>1. req[r].rows \subseteq Requests
      BY <2>1 DEF CommitContacts, KInv, KnowInv, KnowOK
    <3>2. QED
      BY <2>1, <3>1, Tables DEF CommitContacts, Replaced
  <2>2. QED
    BY <2>1, Tables DEF CommitGrants, DeleteDepartment, Fail
<1>5. grants' \subseteq GrantRows
  <2>1. CASE CommitGrants(r)
    <3>1. req[r].rows \subseteq GrantRows
      BY <2>1 DEF CommitGrants, KInv, KnowInv, KnowOK
    <3>2. QED
      BY <2>1, <3>1, Tables DEF CommitGrants, Replaced
  <2>2. QED
    BY <2>1, Tables DEF CommitContacts, DeleteDepartment, Fail
<1>6. disturbed' \subseteq Things
  <2>1. CASE Fail(r) /\ pc[r] \in {"close", "relate"}
    <3>1. PICK e \in Existing : req[r].thing = <<"employee", e>>
      BY <2>1 DEF KInv, KnowInv, KnowOK, KnowsRow
    <3>2. QED
      BY <2>1, <3>1, Tables DEF Fail, Things, Existing
  <2>2. QED
    BY <2>1, Tables DEF CommitContacts, CommitGrants, DeleteDepartment, Fail
<1>7. QED
  BY <1>1, <1>2, <1>3, <1>4, <1>5, <1>6, Tables, LastStatementKeeps

LEMMA KInvStep == IInv /\ KInv /\ [Next]_vars => KInv'
<1> SUFFICES ASSUME IInv, KInv, [Next]_vars PROVE KInv'
  OBVIOUS
<1>1. ASSUME NEW r \in Requests, NEW a \in Actors, Begin(r, a) PROVE KInv'
  BY <1>1, CreateEmployeeTypes, UpdateEmployeeTypes, ReplaceContactsTypes, UpdateRoleTypes, DepartmentTypes DEF Begin
<1>2. ASSUME NEW r \in Requests, Continue(r) \/ Fail(r) PROVE KInv'
  BY <1>2, WriteEmployeeTypes, CloseTypes, RelateTypes, CommitTypes DEF Continue
<1>3. CASE UNCHANGED vars
  BY <1>3 DEF vars, KInv, TypeOK, KnowInv, KnowOK, KnowsRow, Existing
<1>4. QED
  BY <1>1, <1>2, <1>3 DEF Next

LEMMA Invariance == Spec => []IInv
BY InitIInv, Inductive, PTL DEF Spec

LEMMA KInvariance == Spec => []KInv
BY Invariance, InitKInv, KInvStep, PTL DEF Spec

(* Rows, and what a request still knows when it gets to write it, keep their types. *)
THEOREM TypeCorrect == Spec => []TypeOK
<1>1. KInv => TypeOK
  BY DEF KInv
<1>2. QED
  BY <1>1, KInvariance, PTL

-----------------------------------------------------------------------------
(* The last update of a thing stands *)

Updating == {"write", "close", "relate", "contacts", "grants"}
By(q, t) == pc[q] \in Updating /\ req[q].thing = t

(* Of what is not disturbed one update is under way at a time. *)
AloneInv == \A t \in Things \ disturbed : \A q, r \in Requests : By(q, t) /\ By(r, t) => q = r

(* What an update of an employee has read is still so, and what it is going to    *)
(* write of the manager history is all that the history lacks.                    *)
WriterKnows(q, e) ==
  /\ pc[q] = "write" => /\ req[q].previous = employees[e].manager
                        /\ req[q].hr \/ (req[q].row.manager = employees[e].manager /\ req[q].row.job = employees[e].job)
  /\ pc[q] \in {"close", "relate"} => req[q].row.manager = employees[e].manager
  /\ pc[q] = "relate" => \A x \in relations : x.employee = e => ~x.open

EmployeeStands(e) ==
  <<"employee", e>> \notin disturbed /\ e \in Existing =>
    /\ employees[e].job = asked[<<"employee", e>>]
    /\ \A q \in Requests : By(q, <<"employee", e>>) => WriterKnows(q, e)
    /\ (\A q \in Requests : By(q, <<"employee", e>>) => pc[q] = "write") => HistoryAgrees(e)

(* A replacement deletes all there is: nothing has come since it began. *)
ContactsStand(e) ==
  <<"contacts", e>> \notin disturbed =>
    /\ contacts[e] = asked[<<"contacts", e>>]
    /\ \A q \in Requests : By(q, <<"contacts", e>>) => req[q].deleted = contacts[e]

GrantsOf(ro) == {g \in grants : g.role = ro}

RoleStands(ro) ==
  <<"role", ro>> \notin disturbed =>
    /\ Granted(ro) = asked[<<"role", ro>>]
    /\ \A q \in Requests : By(q, <<"role", ro>>) => req[q].deleted = GrantsOf(ro)

StandInv == /\ AloneInv
            /\ \A e \in Employees : EmployeeStands(e) /\ ContactsStand(e)
            /\ \A ro \in Roles : RoleStands(ro)

LEMMA ThingTypes ==
  /\ \A e \in Employees : <<"employee", e>> \in Things /\ <<"contacts", e>> \in Things
  /\ \A ro \in Roles : <<"role", ro>> \in Things
  /\ \A t \in Things : \/ \E e \in Employees : t = <<"employee", e>> \/ t = <<"contacts", e>>
                       \/ \E ro \in Roles : t = <<"role", ro>>
BY DEF Things

LEMMA InitStandInv == Init => StandInv
<1> SUFFICES ASSUME Init PROVE StandInv
  OBVIOUS
<1>1. \A q \in Requests : \A t : ~By(q, t)
  BY DEF Init, By, Updating
<1>2. /\ \A e \in Employees : asked[<<"employee", e>>] = Seed /\ asked[<<"contacts", e>>] = {}
      /\ \A ro \in Roles : asked[<<"role", ro>>] = SeededPermissions(ro)
  BY ThingTypes DEF Init
<1>3. AloneInv
  BY <1>1 DEF AloneInv
<1>4. ASSUME NEW e \in Employees PROVE EmployeeStands(e) /\ ContactsStand(e)
  <2>1. e \in Existing => employees[e].job = Seed
    BY DEF Init, Existing
  <2>2. HistoryAgrees(e) /\ contacts[e] = {}
    BY DEF Init, HistoryAgrees
  <2>3. QED
    BY <1>1, <1>2, <2>1, <2>2 DEF EmployeeStands, ContactsStand
<1>5. ASSUME NEW ro \in Roles PROVE RoleStands(ro)
  <2> DEFINE Row(s, p) == [role |-> s, permission |-> p, by |-> Seed]
  <2>1. grants = UNION {{Row(s, p) : p \in SeededPermissions(s)} : s \in Roles}
    BY DEF Init
  <2>2. \A s, p : Row(s, p).role = s /\ Row(s, p).permission = p
    OBVIOUS
  <2> HIDE DEF Row
  <2>3. {x \in grants : x.role = ro} = {Row(ro, p) : p \in SeededPermissions(ro)}
    BY <2>1, <2>2
  <2>4. {g.permission : g \in {Row(ro, p) : p \in SeededPermissions(ro)}} = SeededPermissions(ro)
    BY <2>2
  <2>5. Granted(ro) = SeededPermissions(ro)
    BY <2>3, <2>4 DEF Granted
  <2>6. QED
    BY <1>1, <1>2, <2>5 DEF RoleStands
<1>6. QED
  BY <1>3, <1>4, <1>5 DEF StandInv

(* A step of request r. *)
Step(r) == (\E a \in Actors : Begin(r, a)) \/ Continue(r) \/ Fail(r)

LEMMA OthersStay ==
  ASSUME KInv, NEW r \in Requests, Step(r)
  PROVE  /\ \A q \in Requests \ {r} : pc'[q] = pc[q] /\ req'[q] = req[q]
         /\ disturbed \subseteq disturbed'
<1>1. ASSUME NEW a \in Actors, Begin(r, a)
      PROVE  (\A q \in Requests \ {r} : pc'[q] = pc[q] /\ req'[q] = req[q]) /\ disturbed \subseteq disturbed'
  <2>1. CASE \/ \E m \in Staff \cup {None}, d \in Departments \cup {None} : CreateEmployee(r, a, m, d)
             \/ \E d \in Departments, p \in Departments \cup {None} : CreateDepartment(r, a, d, p) \/ UpdateDepartment(r, a, d, p)
             \/ \E d \in Departments, error \in BOOLEAN : CheckDepartment(r, a, d, error)
    BY <2>1, GotoMoves DEF CreateEmployee, CreateDepartment, UpdateDepartment, CheckDepartment, Finish
  <2>2. ASSUME NEW label, NEW knows, BeginUpdate(r, label, knows)
        PROVE  (\A q \in Requests \ {r} : pc'[q] = pc[q] /\ req'[q] = req[q]) /\ disturbed \subseteq disturbed'
    BY <2>2, GotoMoves DEF BeginUpdate
  <2>3. CASE \/ \E e \in Employees, m \in Staff \cup {None}, d \in Departments \cup {None} : UpdateEmployee(r, a, e, m, d)
             \/ \E e \in Employees, rows \in {{}, {r}} : ReplaceContacts(r, a, e, rows)
             \/ \E ro \in Changed, list \in Lists : UpdateRole(r, a, ro, list)
    BY <2>2, <2>3 DEF UpdateEmployee, ReplaceContacts, UpdateRole
  <2>4. QED
    BY <1>1, <2>1, <2>3 DEF Begin
<1>2. CASE Continue(r) \/ Fail(r)
  BY <1>2, GotoMoves DEF Continue, WriteEmployee, CloseManagerRelations, CloseFails, CreateManagerRelation,
    CommitContacts, CommitGrants, DeleteDepartment, Fail, Finish
<1>3. QED
  BY <1>1, <1>2 DEF Step

(* How a request comes to update a thing. *)
LEMMA Enters ==
  ASSUME KInv, NEW r \in Requests, Step(r), NEW t \in Things, By(r, t)', t \notin disturbed'
  PROVE  By(r, t) \/ \A q \in Requests \ {r} : ~By(q, t)
<1>1. ASSUME NEW label, NEW knows, BeginUpdate(r, label, knows), NEW q \in Requests \ {r} PROVE ~By(q, t)
  <2>1. knows.thing = t
    BY <1>1, GotoMoves DEF BeginUpdate, By
  <2>2. ~Updates(q, t)
    BY <1>1, <2>1 DEF BeginUpdate, Under
  <2>3. QED
    BY <2>2 DEF By, Updates, Updating
<1>2. ASSUME NEW a \in Actors, Begin(r, a) PROVE \A q \in Requests \ {r} : ~By(q, t)
  <2>1. CASE \/ \E m \in Staff \cup {None}, d \in Departments \cup {None} : CreateEmployee(r, a, m, d)
             \/ \E d \in Departments, p \in Departments \cup {None} : CreateDepartment(r, a, d, p) \/ UpdateDepartment(r, a, d, p)
             \/ \E d \in Departments, error \in BOOLEAN : CheckDepartment(r, a, d, error)
    <3>1. pc'[r] \in {"done", "delete"}
      BY <2>1, GotoMoves DEF CreateEmployee, CreateDepartment, UpdateDepartment, CheckDepartment, Finish
    <3>2. QED
      BY <3>1 DEF By, Updating
  <2>2. CASE \/ \E e \in Employees, m \in Staff \cup {None}, d \in Departments \cup {None} : UpdateEmployee(r, a, e, m, d)
             \/ \E e \in Employees, rows \in {{}, {r}} : ReplaceContacts(r, a, e, rows)
             \/ \E ro \in Changed, list \in Lists : UpdateRole(r, a, ro, list)
    BY <1>1, <2>2 DEF UpdateEmployee, ReplaceContacts, UpdateRole
  <2>3. QED
    BY <1>2, <2>1, <2>2 DEF Begin
<1>3. CASE Continue(r) \/ Fail(r)
  <2>1. pc'[r] = "done" \/ (pc[r] \in Updating /\ req'[r] = req[r])
    BY <1>3, GotoMoves DEF Continue, WriteEmployee, CloseManagerRelations, CloseFails, CreateManagerRelation,
      CommitContacts, CommitGrants, DeleteDepartment, Fail, Finish, Updating
  <2>2. QED
    BY <2>1 DEF By, Updating
<1>4. QED
  BY <1>2, <1>3 DEF Step

LEMMA AloneStep ==
  ASSUME KInv, AloneInv, NEW r \in Requests, Step(r)
  PROVE  AloneInv'
<1> SUFFICES ASSUME NEW t \in Things, t \notin disturbed', NEW q \in Requests \ {r}, By(q, t)', By(r, t)'
             PROVE  FALSE
  <2>1. ASSUME NEW t \in Things, t \notin disturbed', NEW q \in Requests, NEW s \in Requests,
               By(q, t)', By(s, t)', q # r, s # r
        PROVE  q = s
    BY <2>1, OthersStay DEF AloneInv, By
  <2>2. QED
    BY <2>1 DEF AloneInv
<1>1. By(q, t) /\ t \notin disturbed
  BY OthersStay DEF By
<1>2. ~By(r, t)
  BY <1>1 DEF AloneInv
<1>3. QED
  BY <1>1, <1>2, Enters

(* What the requests other than r know of thing t stays. *)
LEMMA ByOthers ==
  ASSUME KInv, AloneInv, NEW r \in Requests, Step(r), NEW t \in Things, t \notin disturbed'
  PROVE  /\ t \notin disturbed
         /\ \A q \in Requests \ {r} : (By(q, t)' <=> By(q, t)) /\ pc'[q] = pc[q] /\ req'[q] = req[q]
         /\ By(r, t) => \A q \in Requests \ {r} : ~By(q, t) /\ ~By(q, t)'
<1>1. t \notin disturbed /\ \A q \in Requests \ {r} : pc'[q] = pc[q] /\ req'[q] = req[q]
  BY OthersStay
<1>2. \A q \in Requests \ {r} : By(q, t)' <=> By(q, t)
  BY <1>1 DEF By
<1>3. QED
  BY <1>1, <1>2 DEF AloneInv

(* The history of an employee whose relations and manager stay. *)
LEMMA HistoryStays ==
  ASSUME NEW e, {x \in relations' : x.employee = e} = {x \in relations : x.employee = e},
         employees'[e].manager = employees[e].manager, HistoryAgrees(e)
  PROVE  HistoryAgrees(e)'
BY DEF HistoryAgrees

(* The history of an employee of which at most one relation is open. *)
LEMMA HistoryRewritten ==
  ASSUME NEW e, NEW open, open = {x \in {y \in relations' : y.employee = e} : x.open},
         {x.manager : x \in open} = {employees'[e].manager} \ {None}, Cardinality(open) <= 1
  PROVE  HistoryAgrees(e)'
BY DEF HistoryAgrees

(* A step that leaves an employee's row and relations and what was asked alone, *)
(* by a request that is not about it, or is no longer.                          *)
LEMMA EmployeeFrame ==
  ASSUME KInv, AloneInv, NEW r \in Requests, Step(r), NEW e \in Employees, EmployeeStands(e),
         employees'[e] = employees[e], {x \in relations' : x.employee = e} = {x \in relations : x.employee = e},
         <<"employee", e>> \notin disturbed' => asked'[<<"employee", e>>] = asked[<<"employee", e>>],
         ~By(r, <<"employee", e>>)',
         <<"employee", e>> \notin disturbed' /\ By(r, <<"employee", e>>) => pc[r] = "write"
  PROVE  EmployeeStands(e)'
<1> DEFINE t == <<"employee", e>>
<1>1. t \in Things
  BY ThingTypes
<1> SUFFICES ASSUME t \notin disturbed', e \in Existing'
             PROVE  /\ employees'[e].job = asked'[t]
                    /\ \A q \in Requests : By(q, t)' => WriterKnows(q, e)'
                    /\ (\A q \in Requests : By(q, t)' => pc'[q] = "write") => HistoryAgrees(e)'
  BY DEF EmployeeStands
<1> HIDE DEF t
<1>2. t \notin disturbed /\ e \in Existing
  BY <1>1, ByOthers DEF Existing
<1>3. /\ employees[e].job = asked[t]
      /\ \A q \in Requests : By(q, t) => WriterKnows(q, e)
      /\ (\A q \in Requests : By(q, t) => pc[q] = "write") => HistoryAgrees(e)
  BY <1>2 DEF EmployeeStands, t
<1>4. ASSUME NEW q \in Requests, By(q, t)' PROVE WriterKnows(q, e)'
  <2>1. q # r /\ By(q, t) /\ pc'[q] = pc[q] /\ req'[q] = req[q]
    BY <1>1, <1>4, ByOthers DEF t
  <2>2. WriterKnows(q, e)
    BY <1>3, <2>1
  <2>3. (\A x \in relations : x.employee = e => ~x.open) => \A x \in relations' : x.employee = e => ~x.open
    OBVIOUS
  <2>4. QED
    BY <2>1, <2>2, <2>3 DEF WriterKnows
<1>5. ASSUME \A q \in Requests : By(q, t)' => pc'[q] = "write" PROVE HistoryAgrees(e)'
  <2>1. \A q \in Requests : By(q, t) => pc[q] = "write"
    BY <1>1, <1>5, ByOthers DEF t
  <2>2. QED
    BY <1>3, <2>1, HistoryStays
<1>6. QED
  BY <1>3, <1>4, <1>5 DEF t

(* What a step does to the tables of employee e. *)
Untouched(e) ==
  /\ employees'[e] = employees[e]
  /\ {x \in relations' : x.employee = e} = {x \in relations : x.employee = e}
  /\ asked'[<<"employee", e>>] = asked[<<"employee", e>>]

LEMMA NewHireStands ==
  ASSUME IInv, KInv, StandInv, NEW r \in Requests, NEW a \in Actors, NEW m \in Staff \cup {None},
         NEW d \in Departments \cup {None}, CreateEmployee(r, a, m, d), NEW e \in Employees
  PROVE  EmployeeStands(e)'
<1> DEFINE row == Payload(r, a, m, d)
           t == <<"employee", e>>
<1>1. /\ employees[Hire] = None /\ employees' = [employees EXCEPT ![Hire] = row]
      /\ asked' = [asked EXCEPT ![<<"employee", Hire>>] = row.job] /\ Finish(r)
      /\ UNCHANGED <<relations, disturbed>> /\ Starts(r)
  BY DEF CreateEmployee
<1>2. Step(r) /\ t \in Things
  BY ThingTypes DEF Step, Begin
<1>3. ~By(r, t)' /\ ~By(r, t)
  BY <1>1, GotoMoves DEF By, Updating, Finish, Starts
<1>4. CASE e # Hire
  <2>1. Untouched(e)
    BY <1>1, <1>4 DEF Untouched, IInv, RowsInv, KInv, KnowInv
  <2>2. QED
    BY <1>2, <1>3, <2>1, EmployeeFrame DEF StandInv, Untouched
<1>5. CASE e = Hire
  <2> HIDE DEF row
  <2>2. employees'[e].job = asked'[t]
    BY <1>1, <1>2, <1>5 DEF IInv, RowsInv, KInv, KnowInv
  <2>3. \A x \in relations' : x.employee # e
    BY <1>1, <1>5 DEF KInv, KnowInv, Existing
  <2>4. HistoryAgrees(e)'
    BY <2>3 DEF HistoryAgrees
  <2>5. \A q \in Requests : ~By(q, t)
    <3>1. ASSUME NEW q \in Requests, By(q, t) PROVE FALSE
      <4>1. KnowOK(q) /\ e \notin Existing
        BY <1>1, <1>5 DEF KInv, KnowInv, Existing
      <4>2. QED
        BY <3>1, <4>1 DEF KnowOK, KnowsRow, By, Updating
    <3>2. QED
      BY <3>1
  <2>6. \A q \in Requests : ~By(q, t)'
    BY <1>2, <1>3, <2>5, OthersStay DEF By
  <2>7. QED
    BY <2>2, <2>4, <2>6 DEF EmployeeStands
<1>6. QED
  BY <1>4, <1>5

LEMMA UpdaterStands ==
  ASSUME IInv, KInv, StandInv, NEW r \in Requests, NEW a \in Actors, NEW f \in Employees, NEW m \in Staff \cup {None},
         NEW d \in Departments \cup {None}, UpdateEmployee(r, a, f, m, d), NEW e \in Employees
  PROVE  EmployeeStands(e)'
<1> DEFINE t == <<"employee", e>>
           payload == Payload(r, a, m, d)
           row == IF IsHR(a) THEN payload ELSE OwnColumns(employees[f], payload)
           knows == [thing |-> <<"employee", f>>, previous |-> employees[f].manager, hr |-> IsHR(a), row |-> row]
<1>1. /\ Starts(r) /\ f \in Existing
      /\ BeginUpdate(r, "write", knows) /\ UNCHANGED <<employees, relations, parent, contacts, grants, asked>>
  BY DEF UpdateEmployee, GetEmployee
<1>2. ~IsHR(a) => row.manager = employees[f].manager /\ row.job = employees[f].job
  <2>1. employees[f] \in EmployeeRows
    BY <1>1, Tables
  <2>2. QED
    BY <2>1 DEF OwnColumns, EmployeeRows
<1> HIDE DEF row
<1>3. knows.thing = <<"employee", f>> /\ knows.previous = employees[f].manager /\ knows.hr = IsHR(a) /\ knows.row = row
  OBVIOUS
<1> HIDE DEF knows
<1>4. pc'[r] = "write" /\ req'[r] = knows /\ Step(r) /\ t \in Things
  BY <1>1, GotoMoves, ThingTypes DEF BeginUpdate, Step, Begin
<1>5. ~By(r, t)
  BY <1>1 DEF By, Starts, Updating
<1>6. CASE e # f
  <2>1. ~By(r, t)'
    BY <1>3, <1>4, <1>6 DEF By
  <2>2. QED
    BY <1>1, <1>4, <1>5, <2>1, EmployeeFrame DEF StandInv
<1>7. CASE e = f
  <2> SUFFICES ASSUME t \notin disturbed'
               PROVE  /\ employees'[e].job = asked'[t]
                      /\ \A q \in Requests : By(q, t)' => WriterKnows(q, e)'
                      /\ (\A q \in Requests : By(q, t)' => pc'[q] = "write") => HistoryAgrees(e)'
    BY DEF EmployeeStands
  <2>1. /\ employees[e].job = asked[t]
        /\ \A q \in Requests : By(q, t) => WriterKnows(q, e)
        /\ (\A q \in Requests : By(q, t) => pc[q] = "write") => HistoryAgrees(e)
    BY <1>1, <1>4, <1>7, ByOthers DEF EmployeeStands, StandInv
  <2>2. WriterKnows(r, e)'
    BY <1>1, <1>2, <1>3, <1>4, <1>7 DEF WriterKnows
  <2>3. \A q \in Requests \ {r} : By(q, t)' => WriterKnows(q, e)'
    BY <1>1, <1>4, <2>1, ByOthers DEF WriterKnows, StandInv
  <2>4. (\A q \in Requests : By(q, t)' => pc'[q] = "write") => \A q \in Requests : By(q, t) => pc[q] = "write"
    BY <1>4, <1>5, ByOthers DEF StandInv
  <2>5. HistoryAgrees(e) => HistoryAgrees(e)'
    BY <1>1 DEF HistoryAgrees
  <2>6. QED
    BY <1>1, <2>1, <2>2, <2>3, <2>4, <2>5
<1>8. QED
  BY <1>6, <1>7

(* A request that is about one employee leaves the others alone. *)
LEMMA AboutAnother ==
  ASSUME KInv, StandInv, NEW r \in Requests, Step(r), NEW e \in Employees, NEW f \in Existing, e # f,
         req[r].thing = <<"employee", f>>, req'[r] = req[r] \/ pc'[r] = "done", Untouched(e)
  PROVE  EmployeeStands(e)'
<1>1. ~By(r, <<"employee", e>>)
  BY DEF By
<1>2. ~By(r, <<"employee", e>>)'
  BY DEF By, Updating
<1>3. QED
  BY <1>1, <1>2, EmployeeFrame DEF StandInv, Untouched

LEMMA WriterStands ==
  ASSUME IInv, KInv, StandInv, NEW r \in Requests, WriteEmployee(r), NEW e \in Employees
  PROVE  EmployeeStands(e)'
<1> DEFINE t == <<"employee", e>>
<1>1. pc[r] = "write" /\ KnowsRow(r) /\ UNCHANGED <<relations, disturbed>>
  BY DEF WriteEmployee, KInv, KnowInv, KnowOK
<1>2. PICK f \in Existing : req[r].thing = <<"employee", f>>
  BY <1>1 DEF KnowsRow
<1>3. Step(r) /\ t \in Things /\ <<"employee", f>> \in Things
  BY ThingTypes DEF Step, Continue, Existing
<1>4. Goto(r, "close", req[r]) \/ Finish(r)
  BY DEF WriteEmployee
<1>5. req'[r] = req[r] \/ pc'[r] = "done"
  BY <1>4, GotoMoves DEF Finish
<1>6. CASE ~Refers(req[r].row)
  <2>1. UNCHANGED <<employees, asked>> /\ Finish(r)
    BY <1>6 DEF WriteEmployee
  <2>2. ~By(r, t)'
    BY <2>1, GotoMoves DEF By, Updating, Finish
  <2>3. QED
    BY <1>1, <1>3, <2>1, <2>2, EmployeeFrame DEF StandInv
<1>7. CASE Refers(req[r].row)
  <2> DEFINE row == req[r].row
  <2>1. /\ employees' = [employees EXCEPT ![f] = row]
        /\ asked' = IF req[r].hr THEN [asked EXCEPT ![<<"employee", f>>] = row.job] ELSE asked
        /\ IF req[r].hr /\ req[r].previous # row.manager THEN Goto(r, "close", req[r]) ELSE Finish(r)
    BY <1>2, <1>7 DEF WriteEmployee
  <2> HIDE DEF row
  <2>2. CASE e # f
    <3>1. Untouched(e)
      BY <1>1, <1>3, <2>1, <2>2 DEF Untouched, IInv, RowsInv, KInv, KnowInv
    <3>2. QED
      BY <1>2, <1>3, <1>5, <2>2, <3>1, AboutAnother
  <2>3. CASE e = f
    <3> SUFFICES ASSUME t \notin disturbed'
                 PROVE  /\ employees'[e].job = asked'[t]
                        /\ \A q \in Requests : By(q, t)' => WriterKnows(q, e)'
                        /\ (\A q \in Requests : By(q, t)' => pc'[q] = "write") => HistoryAgrees(e)'
      BY DEF EmployeeStands
    <3>1. By(r, t) /\ e \in Existing /\ t \notin disturbed
      BY <1>1, <1>2, <2>3 DEF By, Updating
    <3>2. \A q \in Requests \ {r} : ~By(q, t) /\ ~By(q, t)'
      BY <1>3, <3>1, ByOthers DEF StandInv
    <3>3. employees[e].job = asked[t] /\ WriterKnows(r, e)
      BY <3>1 DEF StandInv, EmployeeStands
    <3>4. HistoryAgrees(e)
      BY <1>1, <3>1, <3>2 DEF StandInv, EmployeeStands
    <3>5. employees'[e] = row /\ asked'[t] = IF req[r].hr THEN row.job ELSE asked[t]
      BY <1>3, <2>1, <2>3 DEF IInv, RowsInv, KInv, KnowInv
    <3>6. employees'[e].job = asked'[t]
      BY <1>1, <3>3, <3>5 DEF WriterKnows, KnowsRow, row
    <3>7. CASE req[r].hr /\ req[r].previous # row.manager
      <4>1. pc'[r] = "close" /\ req'[r] = req[r]
        BY <2>1, <3>7, GotoMoves
      <4>2. WriterKnows(r, e)' /\ By(r, t)'
        BY <1>2, <2>3, <3>5, <4>1 DEF WriterKnows, By, Updating, row
      <4>3. QED
        BY <3>2, <3>6, <4>1, <4>2
    <3>8. CASE ~(req[r].hr /\ req[r].previous # row.manager)
      <4>1. pc'[r] = "done"
        BY <2>1, <3>8, GotoMoves DEF Finish
      <4>2. ~By(r, t)'
        BY <4>1 DEF By, Updating
      <4>3. employees'[e].manager = employees[e].manager
        BY <1>1, <3>3, <3>5, <3>8 DEF WriterKnows, row
      <4>4. HistoryAgrees(e)'
        BY <1>1, <3>4, <4>3, HistoryStays
      <4>5. QED
        BY <3>2, <3>6, <4>2, <4>4
    <3>9. QED
      BY <3>7, <3>8
  <2>4. QED
    BY <2>2, <2>3
<1>8. QED
  BY <1>6, <1>7

LEMMA CloserStands ==
  ASSUME KInv, StandInv, NEW r \in Requests, CloseManagerRelations(r), NEW e \in Employees
  PROVE  EmployeeStands(e)'
<1> DEFINE t == <<"employee", e>>
<1>1. pc[r] = "close" /\ KnowsRow(r) /\ UNCHANGED <<employees, asked, disturbed>>
  BY DEF CloseManagerRelations, KInv, KnowInv, KnowOK
<1>2. PICK f \in Existing : req[r].thing = <<"employee", f>>
  BY <1>1 DEF KnowsRow
<1>3. Step(r) /\ t \in Things
  BY ThingTypes DEF Step, Continue
<1>4. /\ relations' = {IF x.employee = f THEN [x EXCEPT !.open = FALSE] ELSE x : x \in relations}
      /\ IF Related(req[r].row) THEN Goto(r, "relate", req[r]) ELSE Finish(r)
  BY <1>2 DEF CloseManagerRelations, Close
<1>5. \A x \in relations : /\ [x EXCEPT !.open = FALSE].employee = x.employee
                           /\ ~[x EXCEPT !.open = FALSE].open
  BY Tables DEF RelationRows
<1>6. req'[r] = req[r] \/ pc'[r] = "done"
  BY <1>4, GotoMoves DEF Finish
<1>7. CASE e # f
  <2>1. {x \in relations' : x.employee = e} = {x \in relations : x.employee = e}
    BY <1>4, <1>5, <1>7
  <2>2. QED
    BY <1>1, <1>2, <1>3, <1>6, <1>7, <2>1, AboutAnother DEF Untouched
<1>8. CASE e = f
  <2> SUFFICES ASSUME t \notin disturbed'
               PROVE  /\ employees'[e].job = asked'[t]
                      /\ \A q \in Requests : By(q, t)' => WriterKnows(q, e)'
                      /\ (\A q \in Requests : By(q, t)' => pc'[q] = "write") => HistoryAgrees(e)'
    BY DEF EmployeeStands
  <2>1. By(r, t) /\ t \notin disturbed /\ e \in Existing
    BY <1>1, <1>2, <1>8 DEF By, Updating
  <2>2. \A q \in Requests \ {r} : ~By(q, t) /\ ~By(q, t)'
    BY <1>3, <2>1, ByOthers DEF StandInv
  <2>3. employees[e].job = asked[t] /\ req[r].row.manager = employees[e].manager
    BY <1>1, <2>1 DEF StandInv, EmployeeStands, WriterKnows
  <2>4. \A x \in relations' : x.employee = e => ~x.open
    BY <1>4, <1>5, <1>8
  <2>5. CASE Related(req[r].row)
    <3>1. pc'[r] = "relate" /\ req'[r] = req[r]
      BY <1>4, <2>5, GotoMoves
    <3>2. WriterKnows(r, e)' /\ By(r, t)'
      BY <1>1, <1>2, <1>8, <2>3, <2>4, <3>1 DEF WriterKnows, By, Updating
    <3>3. QED
      BY <1>1, <2>2, <2>3, <3>1, <3>2
  <2>6. CASE ~Related(req[r].row)
    <3>1. ~By(r, t)'
      BY <1>4, <2>6, GotoMoves DEF By, Updating, Finish
    <3>2. employees'[e].manager = None
      BY <1>1, <2>3, <2>6 DEF Related
    <3>3. {x \in {y \in relations' : y.employee = e} : x.open} = {}
      BY <2>4
    <3>4. HistoryAgrees(e)'
      <4>1. {x.manager : x \in {}} = {employees'[e].manager} \ {None}
        BY <3>2
      <4>2. Cardinality({}) <= 1
        BY FS_EmptySet
      <4>3. QED
        BY <3>3, <4>1, <4>2, HistoryRewritten
    <3>5. QED
      BY <1>1, <2>2, <2>3, <3>1, <3>4
  <2>7. QED
    BY <2>5, <2>6
<1>9. QED
  BY <1>7, <1>8

LEMMA RelaterStands ==
  ASSUME KInv, StandInv, NEW r \in Requests, CreateManagerRelation(r), NEW e \in Employees
  PROVE  EmployeeStands(e)'
<1> DEFINE t == <<"employee", e>>
<1>1. pc[r] = "relate" /\ KnowsRow(r) /\ UNCHANGED <<employees, asked, disturbed>> /\ req[r].row.manager \in Employees
  BY DEF CreateManagerRelation, KInv, KnowInv, KnowOK
<1>2. PICK f \in Existing : req[r].thing = <<"employee", f>>
  BY <1>1 DEF KnowsRow
<1>3. Step(r) /\ t \in Things
  BY ThingTypes DEF Step, Continue
<1> DEFINE row == [id |-> r, employee |-> f, manager |-> req[r].row.manager, open |-> TRUE]
<1>4. relations' = relations \cup {row} /\ Finish(r)
  BY <1>2 DEF CreateManagerRelation
<1>5. row.employee = f /\ row.open /\ row.manager = req[r].row.manager
  OBVIOUS
<1> HIDE DEF row
<1>6. pc'[r] = "done"
  BY <1>4, GotoMoves DEF Finish
<1>7. CASE e # f
  <2>1. {x \in relations' : x.employee = e} = {x \in relations : x.employee = e}
    BY <1>4, <1>5, <1>7
  <2>2. QED
    BY <1>1, <1>2, <1>3, <1>6, <1>7, <2>1, AboutAnother DEF Untouched
<1>8. CASE e = f
  <2> SUFFICES ASSUME t \notin disturbed'
               PROVE  /\ employees'[e].job = asked'[t]
                      /\ \A q \in Requests : By(q, t)' => WriterKnows(q, e)'
                      /\ (\A q \in Requests : By(q, t)' => pc'[q] = "write") => HistoryAgrees(e)'
    BY DEF EmployeeStands
  <2>1. By(r, t) /\ t \notin disturbed /\ e \in Existing
    BY <1>1, <1>2, <1>8 DEF By, Updating
  <2>2. \A q \in Requests \ {r} : ~By(q, t) /\ ~By(q, t)'
    BY <1>3, <2>1, ByOthers DEF StandInv
  <2>3. /\ employees[e].job = asked[t] /\ req[r].row.manager = employees[e].manager
        /\ \A x \in relations : x.employee = e => ~x.open
    BY <1>1, <2>1 DEF StandInv, EmployeeStands, WriterKnows
  <2>4. {x \in {y \in relations' : y.employee = e} : x.open} = {row}
    BY <1>4, <1>5, <1>8, <2>3
  <2>5. employees'[e].manager = row.manager /\ row.manager # None
    BY <1>1, <1>5, <2>3, DirectoryAssumption DEF Employees
  <2>6. Cardinality({row}) = 1
    BY FS_Singleton
  <2>7. HistoryAgrees(e)'
    <3>1. {x.manager : x \in {row}} = {employees'[e].manager} \ {None}
      BY <2>5
    <3>2. QED
      BY <2>4, <2>6, <3>1, HistoryRewritten
  <2>8. ~By(r, t)'
    BY <1>6 DEF By, Updating
  <2>9. QED
    BY <1>1, <2>2, <2>3, <2>7, <2>8
<1>9. QED
  BY <1>7, <1>8

(* Every other step. *)
LEMMA OthersStand ==
  ASSUME KInv, KInv', StandInv, NEW r \in Requests, Step(r), UNCHANGED <<employees, relations>>,
         \A f \in Employees : asked'[<<"employee", f>>] = asked[<<"employee", f>>],
         pc'[r] \in {"done", "delete", "contacts", "grants"} \/ CloseFails(r),
         Fail(r) \/ CloseFails(r) \/ pc[r] \notin {"write", "close", "relate"}, NEW e \in Employees
  PROVE  EmployeeStands(e)'
<1> DEFINE t == <<"employee", e>>
<1>1. t \in Things
  BY ThingTypes
<1> SUFFICES ASSUME t \notin disturbed' PROVE EmployeeStands(e)'
  BY DEF EmployeeStands
<1>2. ASSUME By(r, t), CloseFails(r) \/ Fail(r) PROVE pc[r] = "write" \/ pc[r] \in {"contacts", "grants"}
  BY <1>2 DEF CloseFails, Fail, By, Updating
<1>3. \A q \in Requests, f \in Employees : By(q, <<"employee", f>>) => pc[q] \in {"write", "close", "relate"}
  BY DEF By, Updating, KInv, KnowInv, KnowOK
<1>4. By(r, t) => pc[r] = "write"
  BY <1>2, <1>3
<1>5. ~By(r, t)'
  <2>1. CASE CloseFails(r)
    <3>1. req'[r] = req[r] /\ pc[r] = "close" /\ req[r].thing \in disturbed'
      BY <2>1, GotoMoves DEF CloseFails
    <3>2. QED
      BY <3>1 DEF By
  <2>2. CASE pc'[r] \in {"done", "delete", "contacts", "grants"}
    <3>1. KnowOK(r)' => ~By(r, t)'
      BY <2>2 DEF By, Updating, KnowOK
    <3>2. QED
      BY <3>1 DEF KInv, KnowInv
  <2>3. QED
    BY <2>1, <2>2
<1>6. QED
  BY <1>1, <1>4, <1>5, EmployeeFrame DEF StandInv

(* The history says anew what was asked of one thing, or of none. *)
LEMMA AskedElsewhere ==
  ASSUME KInv, NEW t \in Things, NEW u, t # u, NEW x, asked' = asked \/ asked' = [asked EXCEPT ![u] = x]
  PROVE  asked'[t] = asked[t]
BY Tables

LEMMA EmployeeStep ==
  ASSUME IInv, KInv, KInv', StandInv, NEW r \in Requests, Step(r), NEW e \in Employees
  PROVE  EmployeeStands(e)'
<1>1. ASSUME NEW a \in Actors, Begin(r, a) PROVE EmployeeStands(e)'
  <2>1. CASE \E m \in Staff \cup {None}, d \in Departments \cup {None} :
               CreateEmployee(r, a, m, d) \/ \E f \in Employees : UpdateEmployee(r, a, f, m, d)
    BY <2>1, NewHireStands, UpdaterStands
  <2>2. CASE \/ \E f \in Employees, rows \in {{}, {r}} : ReplaceContacts(r, a, f, rows)
             \/ \E ro \in Changed, list \in Lists : UpdateRole(r, a, ro, list)
             \/ \E d \in Departments, p \in Departments \cup {None} : CreateDepartment(r, a, d, p) \/ UpdateDepartment(r, a, d, p)
             \/ \E d \in Departments, error \in BOOLEAN : CheckDepartment(r, a, d, error)
    <3>1. pc[r] = "new" /\ UNCHANGED <<employees, relations, asked>>
      BY <2>2 DEF ReplaceContacts, UpdateRole, CreateDepartment, UpdateDepartment, CheckDepartment, Starts
    <3>2. pc'[r] \in {"done", "delete", "contacts", "grants"}
      BY <2>2, GotoMoves DEF ReplaceContacts, UpdateRole, CreateDepartment, UpdateDepartment, CheckDepartment, BeginUpdate, Finish
    <3>3. QED
      BY <3>1, <3>2, OthersStand
  <2>3. QED
    BY <1>1, <2>1, <2>2 DEF Begin
<1>2. CASE WriteEmployee(r) \/ CloseManagerRelations(r) \/ CreateManagerRelation(r)
  BY <1>2, WriterStands, CloserStands, RelaterStands
<1>3. CASE CommitContacts(r) \/ CommitGrants(r) \/ DeleteDepartment(r) \/ Fail(r) \/ CloseFails(r)
  <2>1. UNCHANGED <<employees, relations>>
    BY <1>3 DEF CommitContacts, CommitGrants, DeleteDepartment, Fail, CloseFails
  <2>2. \A f \in Employees : asked'[<<"employee", f>>] = asked[<<"employee", f>>]
    <3>1. CASE CommitContacts(r)
      <4>1. PICK f \in Employees : req[r].thing = <<"contacts", f>>
        BY <3>1 DEF CommitContacts, KInv, KnowInv, KnowOK
      <4>2. asked' = [asked EXCEPT ![<<"contacts", f>>] = req[r].rows]
        BY <3>1, <4>1 DEF CommitContacts
      <4>3. QED
        BY <4>2, ThingTypes, AskedElsewhere
    <3>2. CASE CommitGrants(r)
      <4>1. PICK ro \in Roles : req[r].thing = <<"role", ro>>
        BY <3>2 DEF CommitGrants, KInv, KnowInv, KnowOK
      <4>2. asked' = asked \/ asked' = [asked EXCEPT ![<<"role", ro>>] = {n.permission : n \in req[r].rows}]
        BY <3>2, <4>1 DEF CommitGrants
      <4>3. QED
        BY <4>2, ThingTypes, AskedElsewhere
    <3>3. QED
      BY <1>3, <3>1, <3>2 DEF DeleteDepartment, Fail, CloseFails
  <2>3. pc'[r] = "done" \/ CloseFails(r)
    BY <1>3, GotoMoves DEF CommitContacts, CommitGrants, DeleteDepartment, Fail, Finish
  <2>4. Fail(r) \/ CloseFails(r) \/ pc[r] \notin {"write", "close", "relate"}
    BY <1>3 DEF CommitContacts, CommitGrants, DeleteDepartment
  <2>5. QED
    BY <2>1, <2>2, <2>3, <2>4, OthersStand
<1>4. QED
  BY <1>1, <1>2, <1>3 DEF Step, Continue

(* The contacts are written by their own replacement only. *)
LEMMA ContactsWritten ==
  ASSUME KInv, NEW r \in Requests, Step(r)
  PROVE  \/ \E a \in Actors, f \in Employees, rows \in {{}, {r}} : ReplaceContacts(r, a, f, rows)
         \/ CommitContacts(r)
         \/ /\ UNCHANGED contacts /\ pc'[r] # "contacts"
            /\ \A e \in Employees : asked'[<<"contacts", e>>] = asked[<<"contacts", e>>]
<1> DEFINE Else == /\ UNCHANGED contacts /\ pc'[r] # "contacts"
                   /\ \A e \in Employees : asked'[<<"contacts", e>>] = asked[<<"contacts", e>>]
<1>1. ASSUME NEW a \in Actors, Begin(r, a), ~\E f \in Employees, rows \in {{}, {r}} : ReplaceContacts(r, a, f, rows)
      PROVE  Else
  <2>1. ASSUME NEW m \in Staff \cup {None}, NEW d \in Departments \cup {None}, CreateEmployee(r, a, m, d) PROVE Else
    <3>1. asked' = [asked EXCEPT ![<<"employee", Hire>>] = Payload(r, a, m, d).job] /\ UNCHANGED contacts /\ pc'[r] = "done"
      BY <2>1, GotoMoves DEF CreateEmployee, Finish
    <3>2. QED
      BY <3>1, ThingTypes, AskedElsewhere
  <2>2. CASE \/ \E m \in Staff \cup {None}, d \in Departments \cup {None}, f \in Employees : UpdateEmployee(r, a, f, m, d)
             \/ \E ro \in Changed, list \in Lists : UpdateRole(r, a, ro, list)
    <3>1. UNCHANGED <<contacts, asked>>
      BY <2>2 DEF UpdateEmployee, UpdateRole
    <3>2. ASSUME NEW label, NEW knows, BeginUpdate(r, label, knows) PROVE pc'[r] = label
      BY <3>2, GotoMoves DEF BeginUpdate
    <3>3. pc'[r] = "write" \/ pc'[r] = "grants"
      BY <2>2, <3>2 DEF UpdateEmployee, UpdateRole
    <3>4. QED
      BY <3>1, <3>3
  <2>3. CASE \/ \E d \in Departments, p \in Departments \cup {None} : CreateDepartment(r, a, d, p) \/ UpdateDepartment(r, a, d, p)
             \/ \E d \in Departments, error \in BOOLEAN : CheckDepartment(r, a, d, error)
    <3>1. UNCHANGED <<contacts, asked>>
      BY <2>3 DEF CreateDepartment, UpdateDepartment, CheckDepartment
    <3>2. pc'[r] = "done" \/ pc'[r] = "delete"
      BY <2>3, GotoMoves DEF CreateDepartment, UpdateDepartment, CheckDepartment, Finish
    <3>3. QED
      BY <3>1, <3>2
  <2>4. QED
    BY <1>1, <2>1, <2>2, <2>3 DEF Begin
<1>2. CASE WriteEmployee(r)
  <2>1. PICK f \in Existing : req[r].thing = <<"employee", f>>
    BY <1>2 DEF WriteEmployee, KInv, KnowInv, KnowOK, KnowsRow
  <2>2. \A e \in Employees : asked'[<<"contacts", e>>] = asked[<<"contacts", e>>]
    <3>1. asked' = asked \/ asked' = [asked EXCEPT ![<<"employee", f>>] = req[r].row.job]
      BY <1>2, <2>1 DEF WriteEmployee
    <3>2. QED
      BY <3>1, ThingTypes, AskedElsewhere
  <2>3. UNCHANGED contacts /\ pc'[r] # "contacts"
    <3>1. UNCHANGED contacts /\ (Goto(r, "close", req[r]) \/ Goto(r, "done", NoReq))
      BY <1>2 DEF WriteEmployee, Finish
    <3>2. QED
      BY <3>1, GotoMoves
  <2>4. QED
    BY <2>2, <2>3
<1>3. CASE CommitGrants(r)
  <2>1. PICK ro \in Roles : req[r].thing = <<"role", ro>>
    BY <1>3 DEF CommitGrants, KInv, KnowInv, KnowOK
  <2>2. \A e \in Employees : asked'[<<"contacts", e>>] = asked[<<"contacts", e>>]
    <3>1. asked' = asked \/ asked' = [asked EXCEPT ![<<"role", ro>>] = {n.permission : n \in req[r].rows}]
      BY <1>3, <2>1 DEF CommitGrants
    <3>2. QED
      BY <3>1, ThingTypes, AskedElsewhere
  <2>3. UNCHANGED contacts /\ pc'[r] # "contacts"
    BY <1>3, GotoMoves DEF CommitGrants, Finish
  <2>4. QED
    BY <2>2, <2>3
<1>4. CASE CloseManagerRelations(r) \/ CloseFails(r) \/ CreateManagerRelation(r) \/ DeleteDepartment(r) \/ Fail(r)
  BY <1>4, GotoMoves DEF CloseManagerRelations, CloseFails, CreateManagerRelation, DeleteDepartment, Fail, Finish
<1>5. QED
  BY <1>1, <1>2, <1>3, <1>4 DEF Step, Continue

LEMMA ContactsStep ==
  ASSUME KInv, KInv', StandInv, NEW r \in Requests, Step(r), NEW e \in Employees
  PROVE  ContactsStand(e)'
<1> DEFINE t == <<"contacts", e>>
<1>1. t \in Things
  BY ThingTypes
<1> SUFFICES ASSUME t \notin disturbed'
             PROVE  contacts'[e] = asked'[t] /\ \A q \in Requests : By(q, t)' => req'[q].deleted = contacts'[e]
  BY DEF ContactsStand
<1>2. /\ t \notin disturbed
      /\ \A q \in Requests \ {r} : (By(q, t)' <=> By(q, t)) /\ req'[q] = req[q]
      /\ By(r, t) => \A q \in Requests \ {r} : ~By(q, t)'
  BY <1>1, ByOthers DEF StandInv
<1>3. contacts[e] = asked[t] /\ \A q \in Requests : By(q, t) => req[q].deleted = contacts[e]
  BY <1>2 DEF StandInv, ContactsStand
<1>4. ASSUME NEW a \in Actors, NEW f \in Employees, NEW rows \in {{}, {r}}, ReplaceContacts(r, a, f, rows)
      PROVE  contacts'[e] = asked'[t] /\ \A q \in Requests : By(q, t)' => req'[q].deleted = contacts'[e]
  <2> DEFINE knows == [thing |-> <<"contacts", f>>, deleted |-> contacts[f], rows |-> rows]
  <2>1. Goto(r, "contacts", knows) /\ UNCHANGED <<contacts, asked>>
    BY <1>4 DEF ReplaceContacts, BeginUpdate
  <2>2. knows.thing = <<"contacts", f>> /\ knows.deleted = contacts[f]
    OBVIOUS
  <2> HIDE DEF knows
  <2>3. By(r, t)' => req'[r].deleted = contacts'[e]
    BY <2>1, <2>2, GotoMoves DEF By
  <2>4. QED
    BY <1>2, <1>3, <2>1, <2>3
<1>5. CASE CommitContacts(r)
  <2>1. PICK f \in Employees : req[r].thing = <<"contacts", f>>
    BY <1>5 DEF CommitContacts, KInv, KnowInv, KnowOK
  <2>2. /\ contacts' = [contacts EXCEPT ![f] = Replaced(contacts[f], req[r].deleted, req[r].rows)]
        /\ asked' = [asked EXCEPT ![<<"contacts", f>>] = req[r].rows] /\ Finish(r) /\ pc[r] = "contacts"
    BY <1>5, <2>1 DEF CommitContacts
  <2>3. ~By(r, t)'
    BY <2>2, GotoMoves DEF Finish, By, Updating
  <2>4. CASE e # f
    <3>1. contacts'[e] = contacts[e] /\ asked'[t] = asked[t]
      BY <1>1, <2>2, <2>4, Tables
    <3>2. QED
      BY <1>2, <1>3, <2>3, <3>1
  <2>5. CASE e = f
    <3>1. By(r, t)
      BY <2>1, <2>2, <2>5 DEF By, Updating
    <3>2. contacts'[e] = req[r].rows
      BY <1>3, <2>2, <2>5, <3>1, Tables DEF Replaced
    <3>3. asked'[t] = req[r].rows
      BY <1>1, <2>2, <2>5, Tables
    <3>4. QED
      BY <1>2, <2>3, <3>1, <3>2, <3>3
  <2>6. QED
    BY <2>4, <2>5
<1>6. CASE UNCHANGED contacts /\ pc'[r] # "contacts" /\ asked'[t] = asked[t]
  <2>1. ~By(r, t)'
    BY <1>6 DEF By, Updating, KInv, KnowInv, KnowOK, KnowsRow
  <2>2. QED
    BY <1>2, <1>3, <1>6, <2>1
<1>7. QED
  BY <1>4, <1>5, <1>6, ContactsWritten

(* The permissions of roles are written by their own replacement only. *)
LEMMA GrantsWritten ==
  ASSUME KInv, NEW r \in Requests, Step(r)
  PROVE  \/ \E a \in Actors, ro \in Changed, list \in Lists : UpdateRole(r, a, ro, list)
         \/ CommitGrants(r)
         \/ /\ UNCHANGED grants /\ pc'[r] # "grants"
            /\ \A ro \in Roles : asked'[<<"role", ro>>] = asked[<<"role", ro>>]
<1> DEFINE Else == /\ UNCHANGED grants /\ pc'[r] # "grants"
                   /\ \A ro \in Roles : asked'[<<"role", ro>>] = asked[<<"role", ro>>]
<1>1. ASSUME NEW a \in Actors, Begin(r, a), ~\E ro \in Changed, list \in Lists : UpdateRole(r, a, ro, list)
      PROVE  Else
  <2>1. ASSUME NEW m \in Staff \cup {None}, NEW d \in Departments \cup {None}, CreateEmployee(r, a, m, d) PROVE Else
    <3>1. asked' = [asked EXCEPT ![<<"employee", Hire>>] = Payload(r, a, m, d).job] /\ UNCHANGED grants /\ pc'[r] = "done"
      BY <2>1, GotoMoves DEF CreateEmployee, Finish
    <3>2. QED
      BY <3>1, ThingTypes, AskedElsewhere
  <2>2. CASE \/ \E m \in Staff \cup {None}, d \in Departments \cup {None}, f \in Employees : UpdateEmployee(r, a, f, m, d)
             \/ \E f \in Employees, rows \in {{}, {r}} : ReplaceContacts(r, a, f, rows)
    <3>1. UNCHANGED <<grants, asked>>
      BY <2>2 DEF UpdateEmployee, ReplaceContacts
    <3>2. ASSUME NEW label, NEW knows, BeginUpdate(r, label, knows) PROVE pc'[r] = label
      BY <3>2, GotoMoves DEF BeginUpdate
    <3>3. pc'[r] = "write" \/ pc'[r] = "contacts"
      BY <2>2, <3>2 DEF UpdateEmployee, ReplaceContacts
    <3>4. QED
      BY <3>1, <3>3
  <2>3. CASE \/ \E d \in Departments, p \in Departments \cup {None} : CreateDepartment(r, a, d, p) \/ UpdateDepartment(r, a, d, p)
             \/ \E d \in Departments, error \in BOOLEAN : CheckDepartment(r, a, d, error)
    <3>1. UNCHANGED <<grants, asked>>
      BY <2>3 DEF CreateDepartment, UpdateDepartment, CheckDepartment
    <3>2. pc'[r] = "done" \/ pc'[r] = "delete"
      BY <2>3, GotoMoves DEF CreateDepartment, UpdateDepartment, CheckDepartment, Finish
    <3>3. QED
      BY <3>1, <3>2
  <2>4. QED
    BY <1>1, <2>1, <2>2, <2>3 DEF Begin
<1>2. CASE WriteEmployee(r)
  <2>1. PICK f \in Existing : req[r].thing = <<"employee", f>>
    BY <1>2 DEF WriteEmployee, KInv, KnowInv, KnowOK, KnowsRow
  <2>2. asked' = asked \/ asked' = [asked EXCEPT ![<<"employee", f>>] = req[r].row.job]
    BY <1>2, <2>1 DEF WriteEmployee
  <2>3. UNCHANGED grants /\ (Goto(r, "close", req[r]) \/ Goto(r, "done", NoReq))
    BY <1>2 DEF WriteEmployee, Finish
  <2>4. pc'[r] # "grants"
    BY <2>3, GotoMoves
  <2>5. QED
    BY <2>2, <2>3, <2>4, ThingTypes, AskedElsewhere
<1>3. CASE CommitContacts(r)
  <2>1. PICK f \in Employees : req[r].thing = <<"contacts", f>>
    BY <1>3 DEF CommitContacts, KInv, KnowInv, KnowOK
  <2>2. asked' = [asked EXCEPT ![<<"contacts", f>>] = req[r].rows]
    BY <1>3, <2>1 DEF CommitContacts
  <2>3. UNCHANGED grants /\ pc'[r] # "grants"
    BY <1>3, GotoMoves DEF CommitContacts, Finish
  <2>4. QED
    BY <2>2, <2>3, ThingTypes, AskedElsewhere
<1>4. CASE CloseManagerRelations(r) \/ CloseFails(r) \/ CreateManagerRelation(r) \/ DeleteDepartment(r) \/ Fail(r)
  BY <1>4, GotoMoves DEF CloseManagerRelations, CloseFails, CreateManagerRelation, DeleteDepartment, Fail, Finish
<1>5. QED
  BY <1>1, <1>2, <1>3, <1>4 DEF Step, Continue

LEMMA RoleStep ==
  ASSUME KInv, KInv', StandInv, NEW r \in Requests, Step(r), NEW ro \in Roles
  PROVE  RoleStands(ro)'
<1> DEFINE t == <<"role", ro>>
<1>1. t \in Things
  BY ThingTypes
<1> SUFFICES ASSUME t \notin disturbed'
             PROVE  Granted(ro)' = asked'[t] /\ \A q \in Requests : By(q, t)' => req'[q].deleted = GrantsOf(ro)'
  BY DEF RoleStands
<1>2. /\ t \notin disturbed
      /\ \A q \in Requests \ {r} : (By(q, t)' <=> By(q, t)) /\ req'[q] = req[q]
      /\ By(r, t) => \A q \in Requests \ {r} : ~By(q, t)'
  BY <1>1, ByOthers DEF StandInv
<1>3. Granted(ro) = asked[t] /\ \A q \in Requests : By(q, t) => req[q].deleted = GrantsOf(ro)
  BY <1>2 DEF StandInv, RoleStands
<1>4. Granted(ro) = {g.permission : g \in GrantsOf(ro)} /\ Granted(ro)' = {g.permission : g \in GrantsOf(ro)'}
  BY DEF Granted, GrantsOf
<1>5. ASSUME NEW a \in Actors, NEW s \in Changed, NEW list \in Lists, UpdateRole(r, a, s, list)
      PROVE  Granted(ro)' = asked'[t] /\ \A q \in Requests : By(q, t)' => req'[q].deleted = GrantsOf(ro)'
  <2> DEFINE knows == [thing |-> <<"role", s>>, deleted |-> {g \in grants : g.role = s},
                       rows |-> {[role |-> s, permission |-> p, by |-> r] : p \in list}]
  <2>1. Goto(r, "grants", knows) /\ UNCHANGED <<grants, asked>>
    BY <1>5 DEF UpdateRole, BeginUpdate
  <2>2. knows.thing = <<"role", s>> /\ knows.deleted = GrantsOf(s)
    BY DEF GrantsOf
  <2> HIDE DEF knows
  <2>3. GrantsOf(ro)' = GrantsOf(ro)
    BY <2>1 DEF GrantsOf
  <2>4. By(r, t)' => req'[r].deleted = GrantsOf(ro)
    BY <2>1, <2>2, GotoMoves DEF By
  <2>5. QED
    BY <1>2, <1>3, <1>4, <2>1, <2>3, <2>4
<1>6. CASE CommitGrants(r)
  <2>1. PICK s \in Roles : /\ req[r].thing = <<"role", s>>
                           /\ \A n \in req[r].rows : n.role = s
                           /\ \A g \in req[r].deleted : g.role = s
    BY <1>6 DEF CommitGrants, KInv, KnowInv, KnowOK
  <2> DEFINE left == grants \ req[r].deleted
             taken == \E g \in left, n \in req[r].rows : g.role = n.role /\ g.permission = n.permission
  <2>2. /\ IF taken THEN UNCHANGED <<grants, asked>>
           ELSE /\ grants' = left \cup req[r].rows
                /\ asked' = [asked EXCEPT ![<<"role", s>>] = {n.permission : n \in req[r].rows}]
        /\ Finish(r) /\ pc[r] = "grants"
    BY <1>6, <2>1 DEF CommitGrants, Replaced
  <2>3. ~By(r, t)'
    BY <2>2, GotoMoves DEF Finish, By, Updating
  <2>4. CASE ro # s
    <3>1. asked'[t] = asked[t]
      <4>1. asked' = asked \/ asked' = [asked EXCEPT ![<<"role", s>>] = {n.permission : n \in req[r].rows}]
        BY <2>2
      <4>2. t # <<"role", s>>
        BY <2>4
      <4>3. QED
        BY <1>1, <4>1, <4>2, AskedElsewhere
    <3>2. GrantsOf(ro)' = GrantsOf(ro)
      BY <2>1, <2>2, <2>4 DEF GrantsOf
    <3>3. QED
      BY <1>2, <1>3, <1>4, <2>3, <3>1, <3>2
  <2>5. CASE ro = s
    <3>1. By(r, t)
      BY <2>1, <2>2, <2>5 DEF By, Updating
    <3>2. req[r].deleted = GrantsOf(ro)
      BY <1>3, <3>1
    <3>3. \A g \in left : g.role # s
      BY <2>5, <3>2 DEF GrantsOf
    <3>4. ~taken
      BY <2>1, <3>3
    <3>5. GrantsOf(ro)' = req[r].rows
      BY <2>1, <2>2, <2>5, <3>3, <3>4 DEF GrantsOf
    <3>6. asked'[t] = {n.permission : n \in req[r].rows}
      BY <1>1, <2>2, <2>5, <3>4, Tables
    <3>7. QED
      BY <1>2, <1>4, <2>3, <3>1, <3>5, <3>6
  <2>6. QED
    BY <2>4, <2>5
<1>7. CASE UNCHANGED grants /\ pc'[r] # "grants" /\ asked'[t] = asked[t]
  <2>1. ~By(r, t)'
    BY <1>7 DEF By, Updating, KInv, KnowInv, KnowOK, KnowsRow
  <2>2. GrantsOf(ro)' = GrantsOf(ro)
    BY <1>7 DEF GrantsOf
  <2>3. QED
    BY <1>2, <1>3, <1>4, <1>7, <2>1, <2>2
<1>8. QED
  BY <1>5, <1>6, <1>7, GrantsWritten

LEMMA StandInvStep == IInv /\ KInv /\ KInv' /\ StandInv /\ [Next]_vars => StandInv'
<1> SUFFICES ASSUME IInv, KInv, KInv', StandInv, [Next]_vars PROVE StandInv'
  OBVIOUS
<1>1. ASSUME NEW r \in Requests, Step(r) PROVE StandInv'
  <2>1. AloneInv'
    BY <1>1, AloneStep DEF StandInv
  <2>2. QED
    BY <1>1, <2>1, EmployeeStep, ContactsStep, RoleStep DEF StandInv
<1>2. CASE UNCHANGED vars
  <2>1. AloneInv'
    BY <1>2 DEF vars, StandInv, AloneInv, By
  <2>2. ASSUME NEW e \in Employees PROVE EmployeeStands(e)' /\ ContactsStand(e)'
    BY <1>2 DEF vars, StandInv, EmployeeStands, ContactsStand, By, WriterKnows, HistoryAgrees, Existing
  <2>3. ASSUME NEW ro \in Roles PROVE RoleStands(ro)'
    BY <1>2 DEF vars, StandInv, RoleStands, By, Granted, GrantsOf
  <2>4. QED
    BY <2>1, <2>2, <2>3 DEF StandInv
<1>3. QED
  BY <1>1, <1>2 DEF Next, Step

(* LastUpdateStands: UpdateEmployee with its manager history, the replacements of *)
(* emergency contacts and of a role's permissions. Where no two updates of one    *)
(* thing overlapped and none stopped half way, what the last of them wrote is     *)
(* what the tables say, whoever else has updated what else meanwhile.             *)
THEOREM LastUpdateLasts == Spec => []LastUpdateStands
<1>1. StandInv => LastUpdateStands
  <2> SUFFICES ASSUME StandInv, NEW t \in Things, Settled(t)
               PROVE  CASE t[1] = "employee" -> t[2] \in Existing => employees[t[2]].job = asked[t] /\ HistoryAgrees(t[2])
                        [] t[1] = "contacts" -> contacts[t[2]] = asked[t]
                        [] OTHER -> Granted(t[2]) = asked[t]
    BY DEF LastUpdateStands
  <2>1. t \notin disturbed /\ \A q \in Requests : ~By(q, t)
    BY DEF Settled, Updates, By, Updating
  <2>2. ASSUME NEW e \in Employees, t = <<"employee", e>>
        PROVE  t[1] = "employee" /\ t[2] = e /\ (e \in Existing => employees[e].job = asked[t] /\ HistoryAgrees(e))
    BY <2>1, <2>2 DEF StandInv, EmployeeStands
  <2>3. ASSUME NEW e \in Employees, t = <<"contacts", e>>
        PROVE  t[1] = "contacts" /\ t[2] = e /\ contacts[e] = asked[t]
    BY <2>1, <2>3 DEF StandInv, ContactsStand
  <2>4. ASSUME NEW ro \in Roles, t = <<"role", ro>>
        PROVE  t[1] = "role" /\ t[2] = ro /\ Granted(ro) = asked[t]
    BY <2>1, <2>4 DEF StandInv, RoleStands
  <2>5. QED
    BY <2>2, <2>3, <2>4, ThingTypes
<1>2. QED
  BY <1>1, InitStandInv, StandInvStep, Invariance, KInvariance, PTL DEF Spec
-----------------------------------------------------------------------------
(* Whose columns a row has *)

(* The columns that only HR writes are those of one request of HR. *)
Genuine(row) ==
  /\ row.job = Seed => row.manager = None /\ row.department = None
  /\ row.job # Seed => row.manager = row.job.manager /\ row.department = row.job.department /\ IsHR(row.job.actor)

(* So are those of a row that is about to be written. *)
GenuineInv ==
  /\ \A e \in Existing : Genuine(employees[e])
  /\ \A r \in Requests : pc[r] = "write" => Genuine(req[r].row)

LEMMA PayloadGenuine ==
  ASSUME NEW r \in Requests, NEW a \in Actors, IsHR(a), NEW m \in Staff \cup {None}, NEW d \in Departments \cup {None}
  PROVE  Genuine(Payload(r, a, m, d))
<1>1. Payload(r, a, m, d).job \in Sent
  BY DEF Payload, Sent, Employees
<1>2. QED
  BY <1>1, DirectoryAssumption DEF Genuine, Payload

LEMMA OwnColumnsGenuine ==
  ASSUME NEW existing \in EmployeeRows, Genuine(existing), NEW payload
  PROVE  Genuine(OwnColumns(existing, payload))
BY DEF Genuine, OwnColumns, EmployeeRows

(* A request that comes to its UPDATE has just read the row. *)
LEMMA ReaderGenuine ==
  ASSUME KInv, GenuineInv, NEW r \in Requests, NEW a \in Actors, NEW e \in Employees, NEW m \in Staff \cup {None},
         NEW d \in Departments \cup {None}, UpdateEmployee(r, a, e, m, d)
  PROVE  pc'[r] = "write" /\ Genuine(req'[r].row) /\ UNCHANGED employees
<1> DEFINE payload == Payload(r, a, m, d)
           row == IF IsHR(a) THEN payload ELSE OwnColumns(employees[e], payload)
           knows == [thing |-> <<"employee", e>>, previous |-> employees[e].manager, hr |-> IsHR(a), row |-> row]
<1>1. BeginUpdate(r, "write", knows) /\ UNCHANGED employees /\ e \in Existing
  BY DEF UpdateEmployee, GetEmployee
<1>2. Genuine(row)
  <2>1. CASE IsHR(a)
    BY <2>1, PayloadGenuine
  <2>2. CASE ~IsHR(a)
    BY <1>1, <2>2, Tables, OwnColumnsGenuine DEF GenuineInv
  <2>3. QED
    BY <2>1, <2>2
<1> HIDE DEF row
<1>3. knows.row = row
  OBVIOUS
<1> HIDE DEF knows
<1>4. pc'[r] = "write" /\ req'[r] = knows
  BY <1>1, GotoMoves DEF BeginUpdate
<1>5. QED
  BY <1>1, <1>2, <1>3, <1>4

LEMMA GenuineStep == IInv /\ KInv /\ GenuineInv /\ [Next]_vars => GenuineInv'
<1>1. ASSUME IInv, KInv, GenuineInv, NEW r \in Requests, (\E a \in Actors : Begin(r, a)) \/ Continue(r) \/ Fail(r)
      PROVE  GenuineInv'
  <2>1. \A q \in Requests \ {r} : pc'[q] = pc[q] /\ req'[q] = req[q]
    BY <1>1, OthersStay DEF Step
  <2>2. ASSUME UNCHANGED employees, pc'[r] = "write" => Genuine(req'[r].row) PROVE GenuineInv'
    BY <1>1, <2>1, <2>2 DEF GenuineInv, Existing, Genuine
  <2>3. ASSUME NEW e \in Employees, NEW row, Genuine(row), employees' = [employees EXCEPT ![e] = row], pc'[r] # "write"
        PROVE  GenuineInv'
    <3>1. \A x \in Employees : employees'[x] = IF x = e THEN row ELSE employees[x]
      BY <1>1, <2>3 DEF IInv, RowsInv
    <3>2. \A x \in Existing' : x \in Employees /\ (x # e => x \in Existing)
      BY <3>1 DEF Existing
    <3>3. QED
      BY <1>1, <2>1, <2>3, <3>1, <3>2 DEF GenuineInv, Genuine
  <2>4. ASSUME NEW a \in Actors, Begin(r, a) PROVE GenuineInv'
    <3>1. ASSUME NEW m \in Staff \cup {None}, NEW d \in Departments \cup {None}, CreateEmployee(r, a, m, d)
          PROVE  GenuineInv'
      <4>1. employees' = [employees EXCEPT ![Hire] = Payload(r, a, m, d)] /\ Finish(r)
        BY <3>1 DEF CreateEmployee
      <4>2. IsHR(a)
        BY <3>1 DEF CreateEmployee, CanCreateRole, IsHR
      <4>3. Genuine(Payload(r, a, m, d)) /\ pc'[r] = "done" /\ Hire \in Employees
        BY <1>1, <4>1, <4>2, PayloadGenuine, GotoMoves DEF Finish, Employees
      <4>4. QED
        BY <2>3, <4>1, <4>3
    <3>2. ASSUME NEW m \in Staff \cup {None}, NEW d \in Departments \cup {None}, NEW e \in Employees,
                 UpdateEmployee(r, a, e, m, d)
          PROVE  GenuineInv'
      BY <1>1, <2>2, <3>2, ReaderGenuine
    <3>3. CASE \/ \E e \in Employees, rows \in {{}, {r}} : ReplaceContacts(r, a, e, rows)
               \/ \E ro \in Changed, list \in Lists : UpdateRole(r, a, ro, list)
      <4>1. UNCHANGED employees
        BY <3>3 DEF ReplaceContacts, UpdateRole
      <4>2. ASSUME NEW label, NEW knows, BeginUpdate(r, label, knows) PROVE pc'[r] = label
        BY <1>1, <4>2, GotoMoves DEF BeginUpdate
      <4>3. pc'[r] = "contacts" \/ pc'[r] = "grants"
        BY <3>3, <4>2 DEF ReplaceContacts, UpdateRole
      <4>4. QED
        BY <2>2, <4>1, <4>3
    <3>4. CASE \/ \E d \in Departments, p \in Departments \cup {None} : CreateDepartment(r, a, d, p) \/ UpdateDepartment(r, a, d, p)
               \/ \E d \in Departments, error \in BOOLEAN : CheckDepartment(r, a, d, error)
      <4>1. UNCHANGED employees
        BY <3>4 DEF CreateDepartment, UpdateDepartment, CheckDepartment
      <4>2. pc'[r] = "done" \/ pc'[r] = "delete"
        BY <1>1, <3>4, GotoMoves DEF CreateDepartment, UpdateDepartment, CheckDepartment, Finish
      <4>3. QED
        BY <2>2, <4>1, <4>2
    <3>5. QED
      BY <2>4, <3>1, <3>2, <3>3, <3>4 DEF Begin
  <2>5. CASE WriteEmployee(r)
    <3>1. pc[r] = "write" /\ (Goto(r, "close", req[r]) \/ Finish(r))
      BY <2>5 DEF WriteEmployee
    <3>2. pc'[r] # "write"
      BY <1>1, <3>1, GotoMoves DEF Finish
    <3>3. PICK e \in Existing : req[r].thing = <<"employee", e>>
      BY <1>1, <3>1 DEF KInv, KnowInv, KnowOK, KnowsRow
    <3>4. employees' = [employees EXCEPT ![e] = req[r].row] \/ UNCHANGED employees
      BY <2>5, <3>3 DEF WriteEmployee
    <3>5. Genuine(req[r].row) /\ e \in Employees
      BY <1>1, <3>1 DEF GenuineInv, Existing
    <3>6. QED
      BY <2>2, <2>3, <3>2, <3>4, <3>5
  <2>6. CASE (Continue(r) /\ ~WriteEmployee(r)) \/ Fail(r)
    <3>1. UNCHANGED employees
      BY <2>6 DEF Continue, CloseManagerRelations, CloseFails, CreateManagerRelation, CommitContacts, CommitGrants,
                  DeleteDepartment, Fail
    <3>2. Goto(r, "relate", req[r]) \/ Finish(r)
      BY <2>6 DEF Continue, CloseManagerRelations, CloseFails, CreateManagerRelation, CommitContacts, CommitGrants,
                  DeleteDepartment, Fail
    <3>3. pc'[r] # "write"
      BY <1>1, <3>2, GotoMoves DEF Finish
    <3>4. QED
      BY <2>2, <3>1, <3>3
  <2>7. QED
    BY <1>1, <2>4, <2>5, <2>6
<1>2. GenuineInv /\ UNCHANGED vars => GenuineInv'
  BY DEF GenuineInv, Existing, Genuine, vars
<1>3. QED
  BY <1>1, <1>2 DEF Next

(* OneHRUpdate, for any users, employees and requests: whatever updates of an       *)
(* employee overlap, the columns that only HR writes are those of one of HR's.     *)
THEOREM ColumnsOfOne == Spec => []OneHRUpdate
<1>1. Init => GenuineInv
  BY DEF Init, GenuineInv, Existing, Genuine
<1>2. GenuineInv => OneHRUpdate
  BY DEF GenuineInv, Genuine, OneHRUpdate
<1>3. QED
  BY <1>1, <1>2, GenuineStep, Invariance, KInvariance, PTL DEF Spec
=============================================================================
