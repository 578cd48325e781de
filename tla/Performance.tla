----------------------------- MODULE Performance -----------------------------
(* Goals, review cycles with their tasks and responses, feedback, check-ins and  *)
(* improvement plans (PIPs): the handlers of performance, one label per          *)
(* statement that another request may come before. A row is named by the request *)
(* that inserts it; the columns and answers of a payload by the request too.     *)
EXTENDS Naturals, FiniteSets, RolePolicy

CONSTANTS
  Actors, RoleOf, EmployeeOf, \* users with a token, its role, the employee each is or None
  Staff,                      \* the active employees
  FirstManager,               \* their managers at the beginning, or None
  Accounts,                   \* employees that have a user
  Moving,                     \* employees that get another manager meanwhile
  Given,                      \* pairs of a role and a permission HR has added to the seeded ones
  Requests,
  Past, HRRequired,           \* a cycle of before, and whether it asks HR
  None

ASSUME PerformanceAssumption ==
  /\ RoleOf \in [Actors -> Roles] /\ EmployeeOf \in [Actors -> Accounts \cup {None}]
  /\ FirstManager \in [Staff -> Staff \cup {None}] /\ Accounts \subseteq Staff /\ Moving \subseteq Staff
  /\ None \notin Staff \cup Requests /\ Past \notin Requests \cup {None} /\ HRRequired \in BOOLEAN

Ids == Requests \cup {Past}
Stages == <<"self", "manager", "hr">>
Statuses == {"self_pending", "manager_pending", "hr_pending", "completed"}

VARIABLES
  manager,    \* employees: manager_id
  goals,      \* id -> [employee, manager, title, progress, dated, by]
  pips,       \* id -> [employee, manager, status, by]
  feedback,   \* rows [id, from, to]
  checkins,   \* rows [id, employee, manager]
  cycles,     \* id -> [status, hr]
  tasks,      \* <<cycle, employee>> -> [manager, status]
  responses,  \* rows [id, task, role]
  pc, req,    \* request -> what it does next, what it knows
  selected,   \* history: cycle -> employees its list has had
  asked,      \* history: goal -> the title and progress last sent by one who may
  claimed,    \* history: tasks answered in another role than one has, or by one of no stage
  disturbed   \* history: rows two of whose requests overlapped, or one stopped half way

rows == <<manager, goals, pips, feedback, checkins, cycles, tasks, responses>>
history == <<selected, asked, claimed>>
vars == <<rows, pc, req, history, disturbed>>

Labels == {"new", "goal", "select", "task", "close", "complete", "respond", "advance", "done"}
NoReq == [thing |-> None]

Init ==
  /\ manager = FirstManager
  /\ goals = <<>> /\ pips = <<>> /\ feedback = {} /\ checkins = {}
  /\ cycles = [c \in {Past} |-> [status |-> "active", hr |-> HRRequired]]
  /\ selected = [c \in {Past} |-> {e \in Accounts : manager[e] # None}]
  /\ tasks = [t \in {Past} \X selected[Past] |-> [manager |-> manager[t[2]], status |-> "self_pending"]]
  /\ responses = {}
  /\ pc = [r \in Requests |-> "new"]
  /\ req = [r \in Requests |-> NoReq]
  /\ asked = <<>> /\ claimed = {} /\ disturbed = {}

-----------------------------------------------------------------------------
(* What the handlers have in common *)

(* INSERT: the table with another row. *)
Inserted(table, id, row) == [i \in DOMAIN table \cup {id} |-> IF i = id THEN row ELSE table[i]]

(* RolePermissions, of performance. *)
Seeded(ro) ==
  CASE ro = "HR" -> {"read", "write", "review", "finalize"}
    [] ro \in {"Manager", "HRManager"} -> {"read", "write", "review"}
    [] ro = "Employee" -> {"read", "write"}
    [] OTHER -> {}

Permitted(a, permission) ==
  RoleOf[a] = "SystemAdmin" \/ permission \in Seeded(RoleOf[a]) \/ <<RoleOf[a], permission>> \in Given

(* EmployeeIDByUserID *)
Self(a) == EmployeeOf[a]

(* ManagerIDByEmployeeID; a NULL cannot be read, and leaves the payload's "". *)
ManagerIDByEmployeeID(e) == manager[e]

IsManagerOfEmployee(e, m) == e \in Staff /\ manager[e] = m

Starts(r) == pc[r] = "new"

Goto(r, label, knows) ==
  /\ pc' = [pc EXCEPT ![r] = label]
  /\ req' = [req EXCEPT ![r] = knows]

Finish(r) == Goto(r, "done", NoReq)

Under(r, thing) == \E q \in Requests \ {r} : pc[q] \notin {"new", "done"} /\ req[q].thing = thing

(* A request begins on a thing, which it knows. *)
BeginOn(r, thing, label, knows) ==
  /\ Goto(r, label, knows)
  /\ disturbed' = IF Under(r, thing) THEN disturbed \cup {thing} ELSE disturbed

(* A statement fails or the client leaves: what has been written stays. *)
Fail(r) ==
  /\ pc[r] \notin {"new", "done"}
  /\ disturbed' = disturbed \cup {req[r].thing}
  /\ Finish(r)
  /\ UNCHANGED <<rows, history>>

(* UpdateEmployee of core: an employee gets another manager, or none. *)
Reassign(e, m) ==
  /\ manager[e] # m /\ e # m
  /\ manager' = [manager EXCEPT ![e] = m]
  /\ UNCHANGED <<goals, pips, feedback, checkins, cycles, tasks, responses, pc, req, history, disturbed>>

-----------------------------------------------------------------------------
(* Goals and plans *)

(* Mutant: a goal without a manager is stored. *)
StorableUnmanaged(m) == m \in Staff \cup {None}

(* What the UUID column manager_id takes: "" is an error. *)
Storable(m) == m \in Staff

(* Which manager the row gets: the payload's, the user itself, or the employee's. *)
GoalManager(a, e, m) ==
  CASE RoleOf[a] = "Manager" /\ e # Self(a) -> Self(a)
    [] RoleOf[a] = "Manager" /\ e = Self(a) -> ManagerIDByEmployeeID(e)
    [] OTHER -> IF m = None THEN ManagerIDByEmployeeID(e) ELSE m

GoalRow(r, a, e, m, dated) ==
  [employee |-> e, manager |-> m, title |-> r, progress |-> r, dated |-> dated, by |-> a]

(* handleCreateGoal: the due date is optional. *)
CreateGoal(r, a, e, m, dated) ==
  /\ Starts(r)
  /\ Permitted(a, "write")
  /\ RoleOf[a] = "Employee" => e = Self(a)
  /\ RoleOf[a] = "Manager" => Self(a) # None /\ (e = Self(a) \/ IsManagerOfEmployee(e, Self(a)))
  /\ Storable(GoalManager(a, e, m))
  /\ goals' = Inserted(goals, r, GoalRow(r, a, e, GoalManager(a, e, m), dated))
  /\ asked' = Inserted(asked, r, [title |-> r, progress |-> r])
  /\ Finish(r)
  /\ UNCHANGED <<manager, pips, feedback, checkins, cycles, tasks, responses, selected, claimed, disturbed>>

(* GetGoal: a row without a manager cannot be read. *)
GetGoal(g) == IF goals[g].manager = None THEN {} ELSE {goals[g]}

MayUpdateGoal(a, row) ==
  /\ Permitted(a, "write")
  /\ RoleOf[a] = "Employee" => Self(a) = row.employee
  /\ RoleOf[a] = "Manager" => Self(a) \in {row.manager, row.employee}

(* Mutant: every column of the payload is written, sent or not. *)
MergedWhole(row, a, sent, r) == [row EXCEPT !.title = r, !.progress = r]

Takes(a, sent) == IF RoleOf[a] \in {"HR", "Manager"} THEN sent ELSE sent \cap {"progress"}

(* The columns sent; title and due date from HR and managers only. *)
Merged(row, a, sent, r) ==
  [row EXCEPT !.title = IF "title" \in Takes(a, sent) THEN r ELSE @,
              !.progress = IF "progress" \in sent THEN r ELSE @,
              !.dated = @ \/ "due" \in Takes(a, sent)]

(* handleUpdateGoal *)
UpdateGoal(r, a, g, sent) ==
  /\ Starts(r)
  /\ \E row \in GetGoal(g) :
       /\ MayUpdateGoal(a, row)
       /\ BeginOn(r, g, "goal", [thing |-> g, row |-> Merged(row, a, sent, r), takes |-> Takes(a, sent)])
  /\ UNCHANGED <<rows, history>>

(* UpdateGoal of the store: all the columns. *)
WriteGoal(r) ==
  /\ pc[r] = "goal"
  /\ LET g == req[r].thing
     IN /\ goals' = [goals EXCEPT ![g] = req[r].row]
        /\ asked' = [asked EXCEPT ![g] = [title |-> IF "title" \in req[r].takes THEN r ELSE @.title,
                                          progress |-> IF "progress" \in req[r].takes THEN r ELSE @.progress]]
  /\ Finish(r)
  /\ UNCHANGED <<manager, pips, feedback, checkins, cycles, tasks, responses, selected, claimed, disturbed>>

(* CreatePIP of the store: the manager may be none. *)
PIPRow(a, e, m) == [employee |-> e, manager |-> m, status |-> "active", by |-> a]

(* handleCreatePIP: a manager's plan is its own. *)
CreatePIP(r, a, e, m) ==
  /\ Starts(r)
  /\ Permitted(a, "write") /\ RoleOf[a] \in {"HR", "Manager"}
  /\ RoleOf[a] = "Manager" => Self(a) # None /\ IsManagerOfEmployee(e, Self(a))
  /\ pips' = Inserted(pips, r, PIPRow(a, e, IF RoleOf[a] = "Manager" THEN Self(a) ELSE m))
  /\ Finish(r)
  /\ UNCHANGED <<manager, goals, feedback, checkins, cycles, tasks, responses, history, disturbed>>

MayUpdatePIP(a, p) ==
  /\ Permitted(a, "write")
  /\ RoleOf[a] = "Employee" => Self(a) = pips[p].employee
  /\ RoleOf[a] = "Manager" => Self(a) # None /\ Self(a) = pips[p].manager

(* UpdatePIP of the store: the status when one is sent. *)
WithStatus(p, status) == [pips EXCEPT ![p].status = status]

(* handleUpdatePIP *)
UpdatePIP(r, a, p, status) ==
  /\ Starts(r)
  /\ MayUpdatePIP(a, p)
  /\ pips' = WithStatus(p, status)
  /\ Finish(r)
  /\ UNCHANGED <<manager, goals, feedback, checkins, cycles, tasks, responses, history, disturbed>>

-----------------------------------------------------------------------------
(* Feedback and check-ins *)

MayWriteOf(a, e) ==
  /\ Permitted(a, "write")
  /\ RoleOf[a] = "Employee" => e = Self(a)
  /\ RoleOf[a] = "Manager" => Self(a) # None /\ IsManagerOfEmployee(e, Self(a))

(* handleCreateFeedback *)
CreateFeedback(r, a, e) ==
  /\ Starts(r)
  /\ MayWriteOf(a, e)
  /\ feedback' = feedback \cup {[id |-> r, from |-> a, to |-> e]}
  /\ Finish(r)
  /\ UNCHANGED <<manager, goals, pips, checkins, cycles, tasks, responses, history, disturbed>>

(* handleCreateCheckin: the manager of the row is the payload's. *)
CreateCheckin(r, a, e, m) ==
  /\ Starts(r)
  /\ MayWriteOf(a, e)
  /\ checkins' = checkins \cup {[id |-> r, employee |-> e, manager |-> m]}
  /\ Finish(r)
  /\ UNCHANGED <<manager, goals, pips, feedback, cycles, tasks, responses, history, disturbed>>

-----------------------------------------------------------------------------
(* Review cycles *)

(* handleCreateReviewCycle up to the cycle. *)
CreateReviewCycle(r, a, selection, hr) ==
  /\ Starts(r)
  /\ Permitted(a, "write") /\ RoleOf[a] = "HR"
  /\ cycles' = Inserted(cycles, r, [status |-> "draft", hr |-> hr])
  /\ selected' = Inserted(selected, r, {})
  /\ Goto(r, "select", [thing |-> r, selection |-> selection])
  /\ UNCHANGED <<manager, goals, pips, feedback, checkins, tasks, responses, asked, claimed, disturbed>>

(* What ListActiveEmployeesForReview asks for; a row without manager or user cannot *)
(* be read, and fails the list.                                                    *)
ForReview(selection) == {e \in Staff : selection # {} => e \in selection}
Readable(list) == \A e \in list : manager[e] # None /\ e \in Accounts

(* A list that fails leaves the cycle without tasks, and the answer is the same. *)
(* One that breaks off is not noticed (rows.Err() is not asked), and is shorter. *)
SelectEmployees(r) ==
  /\ pc[r] = "select"
  /\ \E list \in SUBSET ForReview(req[r].selection) :
       /\ selected' = [selected EXCEPT ![r] = list]
       /\ IF Readable(list) /\ list # {}
            THEN Goto(r, "task", [thing |-> r, left |-> list, manager |-> manager])
            ELSE Finish(r)
  /\ UNCHANGED <<rows, asked, claimed, disturbed>>

AfterTask(r, e) ==
  LET left == req[r].left \ {e}
  IN IF left = {} THEN Finish(r) ELSE Goto(r, "task", [req[r] EXCEPT !.left = left])

(* CreateReviewTask, of the employees in the order the list had. *)
CreateReviewTask(r, e) ==
  /\ pc[r] = "task" /\ e \in req[r].left
  /\ tasks' = Inserted(tasks, <<req[r].thing, e>>, [manager |-> req[r].manager[e], status |-> "self_pending"])
  /\ AfterTask(r, e)
  /\ UNCHANGED <<manager, goals, pips, feedback, checkins, cycles, responses, history, disturbed>>

(* Its error is logged, and the next employee's task is tried. *)
TaskFails(r, e) ==
  /\ pc[r] = "task" /\ e \in req[r].left
  /\ disturbed' = disturbed \cup {req[r].thing}
  /\ AfterTask(r, e)
  /\ UNCHANGED <<rows, history>>

ReviewCycleStatus(c) == cycles[c].status

(* handleFinalizeReviewCycle *)
FinalizeReviewCycle(r, a, c) ==
  /\ Starts(r)
  /\ Permitted(a, "finalize") /\ RoleOf[a] = "HR"
  /\ ReviewCycleStatus(c) # "closed"
  /\ BeginOn(r, c, "close", [thing |-> c])
  /\ UNCHANGED <<rows, history>>

(* UpdateReviewCycleStatus *)
CloseCycle(r) ==
  /\ pc[r] = "close"
  /\ cycles' = [cycles EXCEPT ![req[r].thing].status = "closed"]
  /\ Goto(r, "complete", req[r])
  /\ UNCHANGED <<manager, goals, pips, feedback, checkins, tasks, responses, history, disturbed>>

(* UpdateReviewTasksStatusByCycle *)
Completed(c) ==
  [t \in DOMAIN tasks |-> IF t[1] = c THEN [tasks[t] EXCEPT !.status = "completed"] ELSE tasks[t]]

CompleteTasks(r) ==
  /\ pc[r] = "complete"
  /\ tasks' = Completed(req[r].thing)
  /\ Finish(r)
  /\ UNCHANGED <<manager, goals, pips, feedback, checkins, cycles, responses, history, disturbed>>

-----------------------------------------------------------------------------
(* Responses *)

(* Mutant: a manager need not wait for the employee. *)
MaySubmitAnytime(a, t) ==
  /\ Permitted(a, "review")
  /\ RoleOf[a] = "Employee" => Self(a) = t[2] /\ tasks[t].status = "self_pending"
  /\ RoleOf[a] = "Manager" => Self(a) # None /\ Self(a) = tasks[t].manager
  /\ RoleOf[a] = "HR" => tasks[t].status = "hr_pending"

(* Who may answer a task and when; of other roles nothing is asked. *)
MaySubmit(a, t) ==
  /\ Permitted(a, "review")
  /\ RoleOf[a] = "Employee" => Self(a) = t[2] /\ tasks[t].status = "self_pending"
  /\ RoleOf[a] = "Manager" => /\ Self(a) # None /\ Self(a) = tasks[t].manager
                              /\ tasks[t].status = "manager_pending"
  /\ RoleOf[a] = "HR" => tasks[t].status = "hr_pending"

(* The roles that answer in a stage of their own. *)
Answering == {"Employee", "Manager", "HR"}

DefaultRole(a) ==
  CASE RoleOf[a] = "Employee" -> "self" [] RoleOf[a] = "Manager" -> "manager" [] OTHER -> "hr"

(* ReviewTaskContext, of a task that a row with a manager stands for. *)
ReviewTaskContext(t) == [manager |-> tasks[t].manager, hr |-> cycles[t[1]].hr]

(* handleSubmitReviewResponse; the role is the payload's. *)
SubmitReviewResponse(r, a, t, ro) ==
  /\ Starts(r)
  /\ MaySubmit(a, t)
  /\ BeginOn(r, t[1], "respond", [thing |-> t[1], task |-> t, role |-> ro, context |-> ReviewTaskContext(t)])
  /\ claimed' = IF ro # DefaultRole(a) \/ RoleOf[a] \notin Answering THEN claimed \cup {t} ELSE claimed
  /\ UNCHANGED <<rows, selected, asked>>

CreateReviewResponse(r) ==
  /\ pc[r] = "respond"
  /\ responses' = responses \cup {[id |-> r, task |-> req[r].task, role |-> req[r].role]}
  /\ Goto(r, "advance", req[r])
  /\ UNCHANGED <<manager, goals, pips, feedback, checkins, cycles, tasks, history, disturbed>>

(* What a task waits for after a response, by what its context was. *)
NextStatus(ro, context) ==
  CASE ro = "self" /\ (context.hr \/ context.manager # None) -> "manager_pending"
    [] ro = "manager" /\ context.hr -> "hr_pending"
    [] OTHER -> "completed"

(* UpdateReviewTaskStatus *)
AdvanceTask(r) ==
  /\ pc[r] = "advance"
  /\ tasks' = [tasks EXCEPT ![req[r].task].status = NextStatus(req[r].role, req[r].context)]
  /\ Finish(r)
  /\ UNCHANGED <<manager, goals, pips, feedback, checkins, cycles, responses, history, disturbed>>

-----------------------------------------------------------------------------
(* What a user is shown: an employee its own, a manager what has it as manager or *)
(* employee, anyone else everything; without a profile the first two see nothing. *)

EmployeeID(a) == IF RoleOf[a] = "Employee" THEN Self(a) ELSE None

(* managerEmployeeID *)
ManagerEmployeeID(a) == IF RoleOf[a] = "Manager" THEN Self(a) ELSE None

Shown(a) == RoleOf[a] \in {"Employee", "Manager"} => Self(a) # None

(* The filter of the lists. *)
Of(row, e, m) == IF e # None THEN row.employee = e ELSE m # None => m \in {row.manager, row.employee}

GoalsOf(e, m) == {g \in DOMAIN goals : Of(goals[g], e, m)}
ReviewTasksOf(e, m) == {t \in DOMAIN tasks : Of([employee |-> t[2], manager |-> tasks[t].manager], e, m)}
CheckinsOf(e, m) == {x \in checkins : Of(x, e, m)}
PIPsOf(e, m) == {p \in DOMAIN pips : Of(pips[p], e, m)}

(* Mutant: a manager is shown feedback of its reports only. *)
FeedbackOfReports(e, m, a) ==
  {f \in feedback : IF e # None THEN f.to = e ELSE m # None => IsManagerOfEmployee(f.to, m)}

FeedbackOf(e, m, a) ==
  {f \in feedback : IF e # None THEN f.to = e ELSE m # None => IsManagerOfEmployee(f.to, m) \/ f.from = a}

(* handleListGoals; a row without due date cannot be read, and fails the list. *)
Undated(a) == \E g \in GoalsOf(EmployeeID(a), ManagerEmployeeID(a)) : ~goals[g].dated
ListGoals(a) == IF Shown(a) /\ ~Undated(a) THEN GoalsOf(EmployeeID(a), ManagerEmployeeID(a)) ELSE {}

ListReviewTasks(a) == IF Shown(a) THEN ReviewTasksOf(EmployeeID(a), ManagerEmployeeID(a)) ELSE {}
ListFeedback(a) == IF Shown(a) THEN FeedbackOf(EmployeeID(a), ManagerEmployeeID(a), a) ELSE {}
ListCheckins(a) == IF Shown(a) THEN CheckinsOf(EmployeeID(a), ManagerEmployeeID(a)) ELSE {}
ListPIPs(a) == IF Shown(a) THEN PIPsOf(EmployeeID(a), ManagerEmployeeID(a)) ELSE {}

(* PerformanceSummaryData: the tasks of a manager, or all. *)
SummaryTasks(m) == {t \in DOMAIN tasks : m # None => tasks[t].manager = m}

(* handlePerformanceSummary *)
Summary(a) ==
  LET counted == IF Shown(a) THEN SummaryTasks(ManagerEmployeeID(a)) ELSE {}
  IN [total |-> Cardinality(counted),
      completed |-> Cardinality({t \in counted : tasks[t].status = "completed"})]

-----------------------------------------------------------------------------

Begin(r, a) ==
  \/ \E e \in Staff, m \in Staff \cup {None} :
       \/ \E dated \in BOOLEAN : CreateGoal(r, a, e, m, dated)
       \/ CreatePIP(r, a, e, m)
       \/ CreateCheckin(r, a, e, m)
  \/ \E e \in Staff : CreateFeedback(r, a, e)
  \/ \E g \in DOMAIN goals, sent \in SUBSET {"title", "due", "progress"} : UpdateGoal(r, a, g, sent)
  \/ \E p \in DOMAIN pips, status \in {"active", "closed"} : UpdatePIP(r, a, p, status)
  \/ \E selection \in SUBSET Staff, hr \in BOOLEAN : CreateReviewCycle(r, a, selection, hr)
  \/ \E c \in DOMAIN cycles : FinalizeReviewCycle(r, a, c)
  \/ \E t \in DOMAIN tasks, ro \in {"self", "manager", "hr"} : SubmitReviewResponse(r, a, t, ro)

Continue(r) ==
  \/ WriteGoal(r) \/ SelectEmployees(r) \/ CloseCycle(r) \/ CompleteTasks(r)
  \/ CreateReviewResponse(r) \/ AdvanceTask(r)
  \/ \E e \in Staff : CreateReviewTask(r, e) \/ TaskFails(r, e)

Next ==
  \/ \E r \in Requests : (\E a \in Actors : Begin(r, a)) \/ Continue(r) \/ Fail(r)
  \/ \E e \in Moving, m \in Staff \cup {None} : Reassign(e, m)

Spec == Init /\ [][Next]_vars

-----------------------------------------------------------------------------
(* Properties *)

(* Rows, and what requests know, keep their types. *)
TypeOK ==
  /\ manager \in [Staff -> Staff \cup {None}]
  /\ \A g \in DOMAIN goals : goals[g].manager \in Staff /\ goals[g].employee \in Staff
  /\ \A p \in DOMAIN pips : pips[p].employee \in Staff /\ pips[p].status \in {"active", "closed"}
  /\ \A f \in feedback : f.to \in Staff /\ f.from \in Actors
  /\ \A x \in checkins : x.employee \in Staff /\ x.manager \in Staff \cup {None}
  /\ \A c \in DOMAIN cycles : cycles[c].status \in {"draft", "active", "closed"}
  /\ \A t \in DOMAIN tasks : t[1] \in DOMAIN cycles /\ tasks[t].manager \in Staff /\ tasks[t].status \in Statuses
  /\ \A x \in responses : x.task \in DOMAIN tasks
  /\ pc \in [Requests -> Labels] /\ \A r \in Requests : req[r].thing \in Ids \cup {None}

(* Whoever answers in its own role does so in turn, however requests overlap: the *)
(* manager after the employee, HR after the manager, and a task is completed by   *)
(* the last answer or by the end of its cycle.                                    *)
StagesInOrder ==
  \A t \in DOMAIN tasks \ claimed :
    LET given == {x.role : x \in {y \in responses : y.task = t}}
    IN /\ "manager" \in given => "self" \in given
       /\ "hr" \in given => "manager" \in given
       /\ tasks[t].status = "completed" =>
            \/ cycles[t[1]].status = "closed"
            \/ {"self", "manager"} \cup (IF cycles[t[1]].hr THEN {"hr"} ELSE {}) \subseteq given

Settled(c) == c \notin disturbed /\ \A r \in Requests : req[r].thing # c

(* A cycle has a task for everyone its list of employees had or for nobody (the   *)
(* list may have been cut short: see SelectEmployees), and none of the tasks is   *)
(* open once it is closed: unless two requests on it overlap or one stops         *)
(* half way, or one of whom no stage is asked (an HR manager, a system            *)
(* administrator) answers a completed task, which opens it again.                 *)
(* HR's summary then counts every task as completed. And an update of a goal keeps *)
(* the columns it did not send: title and progress are those last asked for.      *)
UpdatesStand ==
  /\ \A c \in DOMAIN cycles : Settled(c) =>
       LET its == {t \in DOMAIN tasks : t[1] = c}
       IN /\ {t[2] : t \in its} \in {{}, selected[c]}
          /\ cycles[c].status = "closed" => \A t \in its \ claimed : tasks[t].status = "completed"
  /\ claimed = {} /\ (\A c \in DOMAIN cycles : Settled(c) /\ cycles[c].status = "closed") =>
       \A a \in Actors : RoleOf[a] = "HR" => Summary(a).completed = Summary(a).total
  /\ \A g \in DOMAIN goals : Settled(g) =>
       goals[g].title = asked[g].title /\ goals[g].progress = asked[g].progress

(* Whoever may change a goal or a plan, or answer a review task, finds it in his  *)
(* list, and an author what he wrote, also after the employee has got another     *)
(* manager; but for one goal without due date nobody it concerns is shown goals.  *)
WriterSees ==
  \A a \in Actors :
    /\ \A g \in DOMAIN goals : MayUpdateGoal(a, goals[g]) \/ goals[g].by = a => g \in ListGoals(a) \/ Undated(a)
    /\ \A p \in DOMAIN pips : MayUpdatePIP(a, p) \/ pips[p].by = a => p \in ListPIPs(a)
    /\ \A t \in DOMAIN tasks : MaySubmit(a, t) => t \in ListReviewTasks(a)
    /\ \A f \in feedback : f.from = a => f \in ListFeedback(a)
    /\ \A x \in checkins : Self(a) = x.employee => x \in ListCheckins(a)
=============================================================================
