# A verification model of hrm

`hrm` is an HR system: a Go process that serves a REST API under `/api/v1` and a
React frontend from PostgreSQL. The code that matters here is a set of HTTP
handlers which read a status, decide, and write several rows one statement at a
time. Every request runs in its own goroutine; only a few groups of statements are
transactions (`FinalizePeriod`, `ApplyAccruals` per policy, `ExecuteAnonymization`,
`CreateUserWithEmployee`, `UpdateRolePermissions`), all at PostgreSQL's default READ
COMMITTED. So the behaviours a test hardly reaches are interleavings of two
requests between any two statements, failures between two statements, and retries.
This directory models them in TLA+, checks small instances with TLC and proves
their safety properties for every instance with TLAPS.

Paths below are relative to `src/`.

## Inventory

| component | state | operations | what is hard | what makes it correct |
|---|---|---|---|---|
| payroll periods (`internal/domain/payroll`, `handlers/payroll`) | period status, inputs, results, payslips and their files | add input, run, finalize, reopen, render payslip | status read at the start of a run and overwritten at its end; finalization is a transaction among autocommit statements; deletes whose failure is only logged | a finalized period has one payslip per result, files show it, only reopening changes it |
| idempotency keys (`middleware/idempotency.go`) with the import of inputs | `idempotency_keys`, `payroll_inputs` | Check, one insert per row, Save | Check and Save are two statements around the whole operation; crash or failure in between, with some rows inserted | a key answers for one payload for ever; an answer of success is true; a retry inserts nothing twice |
| leave requests (`internal/domain/leave/service.go`) | request status, approvals, `leave_balances` | create, approve, reject, cancel | status and balance are separate statements, none looks at the status again | the balance row adds up to the leaves it covers; HR approval where the policy says so |
| leave accruals (`accrual.go`) | balances, last accrual per policy | scheduled and on-demand accrual | last accrual read outside the transaction, lock order, cap | a period accrues once, a completed job has accrued what it was given, balances stay within the cap |
| background jobs (`platform/jobs`) | queue of 128, `job_runs` | enqueue, worker, run now, tickers | queue full, one worker, shutdown | a job that began ends; one that says completed has done its work |
| sessions, users (`handlers/auth`, `domain/auth`, `handlers/core/users.go`) | sessions, password resets, MFA, roles | login, refresh, logout, reset, MFA, create user, change role and status | rotation that does not look at the row count; token reuse | one token of a login is alive at most, a revoked session never answers again, an enabled second factor is a confirmed one |
| rate limiter (`middleware/ratelimit.go`) | buckets per key | enforce | window boundary, unbounded map | at most twice the limit in a window, refused only when the limit was reached (not modelled) |
| GDPR (`domain/gdpr`) | retention policies and runs, DSAR exports, anonymization jobs, consents, and the rows of everyone else | apply retention, export, anonymize | status read outside the transaction, failure noted on a second connection, exports and deletes without a transaction | a completed job has blanked what there was of the kinds it is for, a whole export is whole, retention spares what is not old |
| performance (`handlers/performance`) | goals, cycles, tasks, responses, feedback, check-ins, PIPs | create and close a cycle, submit a response, write and list the rest | responses racing with the closing of a cycle, lost updates, a manager that changes | answers come in turn, a closed cycle has completed tasks only, who may write sees |
| core (`handlers/core`) | employees, departments, contacts, manager relations, role permissions | create and update employee, delete department, replace contacts and permissions, lists | close and create of a relation are separate statements, self-service writes back what it read | one open manager relation, the one of the row; departments exist; what only HR may write comes from one update of HR |
| notifications, audit log, reports | append-only rows, read-only queries | | none: nothing decides on them | |
| server, migrations, configuration, encryption, metrics | | start, shutdown | a request dies with the process | see the `Fail` actions |

The components interact through PostgreSQL rows: a payroll run reads approved
unpaid leaves, accruals, adjustments and requests share `leave_balances` rows,
retention, exports and anonymization read, delete and blank what the others wrote,
a change of an employee's manager changes who sees and answers its reviews, and
idempotency wraps finalization and import of inputs. Besides, the two tickers and HR's
requests meet in the job queue, in memory.

`PROJECT.json` lists every component with its status, and the hazards at their lines.

## Modules

| module | what it is |
|---|---|
| `Idempotency` | the two statements on `idempotency_keys`, as operators on a store |
| `PayrollPeriod` | the payroll handlers, one action per statement (or per group of reads between two writes); uses `Idempotency`, and maps to `PayrollContract` |
| `PayrollContract` | what a period promises: finalize is one step, a finalized period changes by reopening only |
| `MCPayroll` | the TLC instances of `PayrollPeriod` |
| `PayrollProofs` | theorems about `PayrollPeriod`, including that it implements `PayrollContract` |
| `InputImport` | the import of payroll inputs from a file, one insert after the other under a key; uses `Idempotency` |
| `ImportProofs` | theorems about `InputImport` |
| `LeaveRequest` | the leave handlers, one action per statement |
| `LeaveLedger` | what a balance promises: submitted days are reserved, one decision uses or returns them |
| `MCLeave` | the TLC instances of `LeaveRequest` |
| `LeaveProofs` | theorems about `LeaveRequest`, including that it implements `LeaveLedger` |
| `LeaveCalendar` | pure: the days of a leave (`CalculateRequestDays`) with a reference definition, periods and proration of accruals, over days that are numbers |
| `JobQueue` | the tickers, the bounded queue, shutdown and restart of the process |
| `LeaveAccrual` | `ApplyAccruals` by the worker and by HR, with its transactions and row locks; composes `JobQueue` and `LeaveCalendar` |
| `AccrualProofs` | theorems about `LeaveAccrual`, with the lengths of `LeaveCalendar` |
| `RolePolicy` | pure: the seeded permissions, and which role may assign and manage which |
| `UserAccounts` | users, sessions, second factor, password resets; uses `RolePolicy` |
| `AccountsProofs` | theorems about `UserAccounts` |
| `Directory` | employees, manager relations, contacts, departments, permissions of the roles; uses `RolePolicy` |
| `DirectoryProofs` | theorems about `Directory` |
| `Performance` | goals, review cycles, feedback, check-ins, plans, and who sees what; uses `RolePolicy` |
| `PerformanceProofs` | theorems about `Performance` |
| `Gdpr` | anonymization, exports, retention, consents, over the rows of all the others |
| `GdprProofs` | theorems about `Gdpr` |
| `MCImport`, `MCAccrual`, `MCAccounts`, `MCDirectory`, `MCPerformance`, `MCGdpr` | the TLC instances of the others |

### How state and actions correspond to the code

All detailed modules have the same shape. Database rows are variables (`db`). A
request is a process with a label `pc[r]`, what it asks for (`req[r]`) and the
handler's local variables (`todo`, `cur`, `val`, `next`). A handler's
reads and checks up to its first write are one action, named `...Start` where the
request arrives; then there is one action per statement. Because reads happen
together with the decision they feed, and every later write is an action of its
own, a value can be as stale as in the code wherever it is used after another
statement has been issued. A list that is read outside of a transaction may be cut:
the code asks `rows.Err()` of two queries only (`gdpr/store_dsar.go:86`,
`core/store_emergency.go:47`), so of any other that breaks off it takes what has
arrived for the whole. Where a list decides what is done (policies, periods,
employees) the actions take any subset of it. A request never returns to `new`; a retry is another
request.

`PayrollPeriod`. `FinalizeLock` takes the `SELECT ... FOR UPDATE` lock; `RowFree`
is what other statements need that update the period's row or insert a row whose
foreign key refers to it (PostgreSQL's key-share lock conflicts with `FOR UPDATE`).
What a transaction has written is in `todo` until `FinalizeCommit` publishes it.
Results and inputs are counted, not added up: an amount is the number of lines it
was computed from, which is what tells a stale amount from a fresh one. A payslip is
named by its period, the finalization that issued it and the employee: ids are
UUIDs in the database, all the model needs is that they are never reused. A payslip
file lives under a path made of its id, so a later rendering replaces it.

`InputImport`. All rows of a file are validated before the first insert, so a row that
is not valid refuses the file as a whole (`Reject`); after that each row commits by
itself. A row of `payroll_inputs` is told by the file and the place it came from, and
counted: its employee, element and amount are data nothing here decides on. It is the
same statement as `AddInput` of `PayrollPeriod`, where all that counts is how many
there are. The hash that a key is saved with is of the file alone. `disturbed` holds
the files of which two imports overlapped under a key, or one stopped half way.
`ImportedOnce` counts the copies of a row as a set with one element for each
(`Copies`), in whatever period it is.

`LeaveRequest`. A day is counted in halves. The policy lookup may answer anything
in `PolicyAnswers`: `leave_policies` has no unique constraint on the leave type and
the query takes `LIMIT 1` without an order, and a lookup that fails counts as
`FALSE`. *Calm* leaves are those whose requests come one at a time from a page that
shows the current status (the buttons of `LeaveRequestsCard.jsx`) and run to their
end; all other leaves may be decided by any number of racing and failing requests.
Calm leaves still interleave with each other on one balance row. What a row should
be is counted in `LeaveLedger` as a set, too: the half days of the leaves it covers
(`HalfDays`).

`LeaveAccrual`. `Work` and `HandleRunAccruals` begin a run with its own `now`, read
before and kept to the end; `CheckDue` is the read of the last accrual outside the
transaction; `UpsertBalance` takes one row lock after the other in any order, as the
map of employees is visited in any order, and `DeadlockDetected` is PostgreSQL's
choice of a victim; `Commit` publishes. `job_runs` rows are variables here because a
property is about their status. `credits` is a history: who was credited for what.
Days are numbers; the calendar is known by the days on which its weeks, months and
years begin (`Begins`), and all that is assumed of it is that every day lies
between two beginnings of each (`CalendarAssumption`).

`UserAccounts`. A session id stands for the signed token that carries it: `Requests`
name what they generate. `Starts` checks what the middleware checks (session row,
not revoked, not expired) and the handler decides with the role of the *token*,
which no later change of the user reaches. `ancestors` and `loggedOut` are
histories of rotations and logouts.

`Directory` and `Performance`. An employee's row has one value per group of columns
that are written together; a whole-row update writes back what the request read.
`disturbed` (in `UserAccounts`: `overlapped`, the users with two MFA requests at a
time) is the history of the things on which two requests overlapped or one
stopped half way: properties that the code keeps only in their absence say so.
In `Directory` the columns that only HR writes are the department, the manager and
`job`, which stands for all the others and is named by what the request that wrote it
had sent and by whom, so that a row tells whether they were written together.
In `Performance` the lists (`ListGoals`, `ListPIPs`, ...) are operators, so that
properties can say who is shown what in any state; `selected` holds the employees that
were listed for a cycle, and `claimed` the tasks that were answered by someone of whom no stage is asked (an HR manager, a
system administrator) or in another role than one's own: `handleSubmitReviewResponse`
checks the status of a task for the `Answering` roles only.

`Gdpr`. One variable, `rows`, holds the rows of every table: kind, whom it is about,
who wrote it, the row it hangs under (a foreign key: `MayBeUnder`), whether it is older than its category is kept,
and its text (`personal`, `anonymized`, `null`; of a job or an export its status).
An execution keeps what it has written in `touched`, which is also what it has
locked, until `CommitJob`; `Free` is what every other statement on these rows waits
for. Statements of a transaction are taken to get all their rows at once (`Awaits`).
`Touched` is `updated_at`: an anonymization sets it of goals and plans, an edit of plans
only. `SelectPeriods` is the `SELECT` of a payroll retention, which may be cut.
`ExecutionFails` undoes the transaction first (PostgreSQL releases the locks of
a transaction when a statement of it fails), then `FailAnonymization` writes the
status on another connection, whatever it is by then.

Left out because no statement reads it back to decide: audit rows, notifications,
`job_runs` outside the worker, warnings, supporting documents.

## Runs

| run | instance | question |
|---|---|---|
| `payroll_contract` | 6 requests, 1 period, 1 employee, 1 key, 1 input | kinds of requests do not overlap (payslip files excepted), nothing fails: is the contract kept? |
| `payroll_races` | 5 requests, 2 periods, 1 employee, 1 key | everything overlaps, anything fails: what still holds? |
| `payroll_live` | 3 requests, fair | is every request answered? |
| `payroll_rerun` (violation) | 5 requests, 2 periods, no inputs, everything overlaps and anything fails | is a finalized period left by reopening only? |
| `input_import` | 3 requests, files of 1 and 2 rows, 2 periods, 2 keys or none | is whoever is told of an import told the truth, and is no row inserted twice? |
| `leave_ledger` | 4 requests, 2 calm leaves on one account, 1 wild leave on another | does the balance of calm leaves add up, and does HR approve? |
| `leave_cancel` (violation) | the same | is an approved leave cancelled by HR only? |
| `accrual_jobs` | 2 tenants, 3 employees, 2 policies, a queue of 1, 1 request by hand, days 0 and 1, fair | does a period accrue once, nothing get lost, the cap hold, a completed job have accrued what it was given, and every job end? |
| `accounts` | 3 users and one that is created, 3 requests, 2 sessions at the beginning | is one token of a login alive, does logout last, do system administrators stay, is an enabled factor confirmed? |
| `directory` | 3 users, 2 employees and a hire, 2 departments, 3 requests | do references exist, does the manager history agree, does the last update stand, is what only HR writes of one update? |
| `performance` | 4 users, 2 employees, a cycle under way, 3 requests, one change of manager after another | do answers come in turn, is a closed cycle completed, does each employee listed have a task, does an update keep the rest, does who writes see? |
| `gdpr` | 25 rows, of every kind, 2 requests, 2 jobs of one employee | does a completed job leave nothing personal in the tables it is for, is an export whole, does retention spare and tell, does nobody wait in a circle? |

Why the bounds are enough. Payroll: the longest story that matters is run, finalize,
reopen, run, finalize with a payslip request held back from the first round: six
requests on one period; the races need at most two requests per period and a second
period to misuse a key with, and a fifth request to retry. Import: two requests overlap under a key and a third one retries. Leave: one calm leave
needs three requests (create, a manager's approval, HR's approval) and a fourth one
disturbs the shared row. `UpToRequestNames` views a state up to the names of the
requests, which are never told apart. Accruals: a queue of one place is full as soon as
two jobs are ready, two runs that overlap are enough for a second accrual and for a
deadlock, and the two days straddle a monthly boundary; a yearly period has begun before them. Accounts, directory,
performance: a race needs two requests, and the third one makes it visible (a refresh
after two, a login after an MFA change) or prepares it (a user, a department, a
goal); the beginning is not empty, so that the preparation is seldom needed. GDPR:
every pair of requests overlaps at every statement, also two executions, of two jobs of
one employee, each with rows the other waits for; of two old periods a cut list may
have one; the rows at the beginning are
such that every statement of a retention and of an anonymization meets one it must
take and, of its kind or beside it, one it must leave. Bounds named in the modules:
`QueueSize`, `LastDay`, `Adjustments`, `Moving`, `Lists`, `Changed`, `Writable`,
`Editable`, and `Unreliable` (the queries of an export that may fail: two of them).
`SYMMETRY` is used on request names in runs without liveness only.

Fairness (`payroll_live`): weak fairness of each request's next statement. The Go
scheduler runs every runnable goroutine and PostgreSQL grants a released row lock to
a waiter; nothing is assumed about arrivals or about failures happening. In
`accrual_jobs` the worker is weakly fair (one goroutine, always the same loop) and a
request of HR strongly: it waits in PostgreSQL's queue of a row lock, where nobody is
overtaken for ever, but is not enabled all the time. `NoDeadlock` of `gdpr` needs
no fairness: among any set of requests there is one that waits for none of the others.

### What the violations show

* `payroll_rerun`: `handleRunPayroll` looks at the status once (line 428) and ends
  with an unconditional update to `reviewed` (line 562). Run A reviews the period,
  run B starts, a finalization commits, B sets the finalized period to `reviewed`.
  Its payslips stay published and it can be finalized again, with a second payslip
  per employee, since `payslips` has no unique constraint.
* `leave_cancel`: `CancelRequest` (service.go:301-311) overwrites the status without
  looking again; an approval in between is cancelled by the employee, although
  "approved requests require HR cancellation". (There is no handler by which HR
  could: `CancelRequest` refuses an approved request to every role.)

The contract of `payroll_contract` therefore holds under the discipline
`OneKindAtATime` and without failures only. Two more ways to break it that the model
shows as soon as the discipline is dropped: a reopening whose `DELETE` fails leaves
payslips that double the next finalization's (handlers.go:1034), and two decisions on
one leave book its days twice (service.go:219).

## Proofs

The eight `...Proofs` modules prove every invariant and every action property that the
passing runs check, and both refinements, for all values of the constants that satisfy
the named assumptions of the modules (`BoundAssumption`, `OverlapAssumption`,
`NoneAssumption`; `LeaveAssumption`, `CalmAssumption`, `NoneAssumption`;
`ImportAssumption`; `AccountsAssumption`; `DirectoryAssumption`;
`PerformanceAssumption`; `GdprAssumption`; `QueueAssumption`, `CalendarAssumption`,
`AccrualAssumption`), which TLC evaluates in every run of the module that states them.
Requests, employees, rows and policies need not be finite in number. One group of theorems has a hypothesis besides, `Discipline` of
`PayrollProofs`. The rest hold under any interleaving and with every failure the
models have.

In each module the type invariant is proved together with what a request knows between
its statements, since that is what its next statement writes. The invariants of single
theorems are proved on top of it, one step of the proof per action.

`PayrollProofs`. The first inductive invariant is `TypeOK /\ LocalInv /\ LockInv /\
AnswerInv`: a request at a label carries what the label needs; whoever is inside the
transaction holds its period's row lock, and its period is `reviewed`, because every
statement that could change the status waits for the lock; whatever has been answered,
saved under a key or is about to be, is about a period whose finalization has
committed. None of the theorems follows from `TypeOK` alone:
`FinalizeOnlyFromReviewed` needs the lock between check and commit,
`SuccessIsTruthful` needs what `idem` holds. The second one, `CInv`, holds under
`Discipline`: kinds of requests overlap as in `OneKindAtATime`, and no reopening fails
half way. Without the discipline it is false (`payroll_rerun`). It says: the requests
in flight are of one kind (`KindInv`); the status a run or a reopening has seen still
allows it (`StageInv`); there are payslips in a finalized period only, or until a
reopening has purged them (`SlipInv`); no payslip, and none whose file is being
rendered, is of a round still to come (`RoundInv`), so a late file never meets a
payslip of its name; what a transaction has inserted is one payslip per result there
is now (`InsertInv`); and a file on its way to a payslip of a finalized period shows
the result (`AttachInv`). From it follow `OnePayslipEach`, `FileShowsResult` and
`ContractSpec`, whose proof maps each action to a step of `PayrollContract` or to a
stutter.

`LeaveProofs`. The inductive invariant is `TypeOK /\ LocalInv /\ CalmInv /\ RowInv`:
what an approval has decided (`LocalInv`), that at most one request in flight is about
a calm leave and that the status is still the one it saw (`CalmInv`), and that the
balance row exists once the days are reserved (`RowInv`: a booking is an `UPDATE` that
would otherwise do nothing). Proved from it: `TypeOK`, `ApprovedByHR`, and
`LedgerSpec`, the refinement of `LeaveLedger`. Its proof classifies every step: a
local step about a leave that is not calm is a stutter (`WildStutter`), a step that
shows the same of its calm leave is one (`CalmStutter`), and the three statements on
the balance row are `Submit`, `Grant` and `Close`. `Balanced` is then proved of the
ledger, and so of what implements it: `BalanceInv` says that a row is the number of
half days of the leaves it covers and that these are finitely many, though leaves may
not be; each step moves the half days of one leave (`HalfDaysMoved`).

`ImportProofs`. The inductive invariant is `TypeOK /\ ProgressInv /\ SavedInv /\
ImportedMeansThere`: the rows before the place a request has reached are in its period
(`ProgressInv`), and for a key that is saved with a file there is a request that
vouches for it (`SavedInv`), which is what a replay relies on. Neither is ever undone,
because nothing that was imported goes away and a request keeps what it asked for
(`VouchesStays`, `SavedStays`). `ImportedOnce` rests on `OnceInv` besides: an import
of an undisturbed file is alone under its key, which is not saved yet (`KeyInv`), so
that saving it exchanges an import that is under way for a key, and the count of
copies is kept (`CountInv`).

`AccountsProofs`. The inductive invariant is `TypeOK /\ LocalInv /\ AdminInv /\
SessionInv`. `OneLiveToken` and `LoggedOutStaysOut` say nothing of rotations under
way, so `SessionInv` adds what these rely on: the id a request may still give to a
session belongs to nobody (`FreshInv`); a rotation under way is of a session that has
begun (`PendingInv`); the tokens of one login have one row at most, whatever became of
it (`FamilyInv`), which holds because `RotateSession` updates the row it finds and
inserts none; and the row of a session that was logged out is revoked, under whatever
id (`LogoutInv`). `AdminInv` is about the rows, and `LocalInv` that no request under
way is about to write a system administrator, as target or as role.
`EnabledMeansConfirmed` rests on `MfaInv`: of a user whose MFA requests have not
overlapped one is under way at most, and the code it was given was for the secret that
is still the user's.

`DirectoryProofs`. `DepartmentsExist` is inductive with `RowsInv`, that the tables are
functions which a statement changes in one place. A handler asks first whether a
department is referred to and deletes it in a later statement, when the answer may be
stale; the proof does not use the answer. It rests on the foreign keys, which the
writing statement itself looks up: an employee's row (`RowKeeps`), a department's
parent (`DepartmentKeeps`) and a deletion (`DeletionKeeps`) each preserve the
invariant. `KInv` types rows and what requests know. `LastUpdateStands` rests on
`StandInv`: of a thing that is not disturbed one update is under way at a time
(`AloneInv`); what it has read is still so, and what it is about to write of the
manager history is all the history lacks (`EmployeeStands`); what a replacement of
contacts or permissions has yet to delete is all there is (`ContactsStand`,
`RoleStands`). `OneHRUpdate` rests on `GenuineInv`: the row that a request is about to write is
one of HR's as a whole, be it what HR sent or what an employee has read.

`AccrualProofs`. `TInv` types the state and says of a transaction that it has written
rows for those its policy pays, and has still the others to pay. `CapInv` bounds what
a transaction has written, whatever the balance was before: `LEAST` is taken of the
whole of it, and a first accrual is the rate or less. `CreditInv`: a policy whose
tenant does not accrue by hand has been credited for no period after the one recorded,
and the worker, the only process that accrues it, accrues a later one, although it
read the record outside of the transaction; the same invariant says of every policy
that the recorded period was credited to all. `RowInv`: the `job_runs` row says
`running` until the run ends, and a run has accrued each of the policies it was given
that it does not have still to look at. `DaysAreHalfDays` needs no invariant; it is proved by
a bijection between half days and a range of numbers.

`PerformanceProofs`. `TInv` has the references between tables, and that a goal has a
manager. `WriterSees` follows from it. `StageInv` is `StagesInOrder` with what it
needs of requests under way: an answer that is about to be written comes in turn, and
one whose task is about to advance has been written; and the status of a task claims
no answer that is not there. `UpdatesStand` rests on `LoneInv` (a thing that is not
disturbed has one request at a time), `GoalInv` (a merge still agrees with the columns
it was not sent) and `CycleInv` (the tasks there are and those to be created are those
selected, and none are left open where a closing is through).

`GdprProofs`. Every theorem rests on `Evolves`, what any step may do to a row
(`Stays`, `Comes`, `Goes`): a row keeps its kind and its employee and never gets older
(what is too old was so at the beginning), a new one is not old, and one that goes was
too old or a contact. `RetentionSpares` is the part of it about rows that go.
`LockInv`: a transaction has locked its job and nobody else is in a transaction on it;
so whoever waits, waits for a transaction, and a transaction waits for nobody but
another transaction that is further on, which makes `NoDeadlock` true. `BlankInv`: of
what was there when a job was locked, the statements executed so far have touched all
that is of their kinds, which in the end are those of `Blankable`. `CollectInv` says the same of the queries of an export,
`PurgeInv` of the statements of a retention, and for payroll of the periods it has
selected.

Only model-checked: `EveryRequestAnswered` (`payroll_live`) and `EveryJobEnds`
(`accrual_jobs`). They are liveness properties under fairness, and need `ENABLED`:
both are out of the prover's reach. The two violations are TLC's counterexamples.

## What the code does beyond the properties

Facts met while modelling, which the properties are stated around. No document of
the repository promises otherwise, so they are not findings; the hazards name their
lines.

Accruals and jobs. An accrual by hand and the scheduled one, or two by hand, that
read the last accrual before either commits credit a period twice:
`PeriodsCredited` therefore counts for tenants whose HR does not run accruals only. When the later commit is
of the earlier `now`, the last accrual moves back. `RecordAccrualRunTx` stores the
number of employees accrued so far, over all policies. The cap is `LEAST` of the
whole new balance: it lowers a balance above it, and the insertion of a first
balance ignores it. A job under way at shutdown stays `running`. A list of policies
that is cut is not noticed: the run is recorded as completed although it has left
policies of its tenant behind (`CompletedMeansAccrued` is about those it was given).

Import. The key of an import is saved with the hash of the file alone: the same file
under the same key for another period is answered with success, and nothing is
inserted. An import that fails keeps the rows before the one it failed at and saves no
key, so the retry inserts them again.

Accounts. Role and status of a user are in the token: a change does not reach the
sessions that are open, anonymization neither. A logout that races with a refresh is
answered with success, and the session goes on under the new token. Two MFA
requests of one user at a time can leave a factor enabled that was never confirmed.

Directory. Two replacements of an employee's contacts at a time leave the union of
both; two updates of a role's permissions leave the union or fail on the primary
key. An employee who saves its own columns while HR updates the row brings the HR-only
columns back to what they were; `OneHRUpdate` says that it does no worse.
`CreateEmployee` writes no manager relation for the manager it stores. A department may
become its own ancestor.

Performance. With the seeded permissions role Employee lacks `performance.review`, which
the route of review responses requires: an employee is told "Your self-review is ready
to complete." and gets 403 for completing it, unless HR grants the permission, as in
the instance that is checked. A goal without a due date makes `ListGoals` fail. A cycle for selected
employees of whom one has no manager or account is answered with 201 and has fewer
tasks, and so is one whose list of employees was cut: tasks are there for some of
them only (`UpdatesStand` is about those listed). `HRManager` may answer a task in any status. When the update of the tasks
fails in `handleFinalizeReviewCycle`, open tasks stay in a closed cycle. A change of manager
leaves goals, tasks and plans with the former one.

GDPR. Anonymization sets `goals.description` and `metric`, `leave_requests.reason`
and `payslips.file_url` to `NULL`, which the lists read into strings: they fail from
then on. A second execution of a job that fails overwrites `completed` with `failed`.
Goal comments, review responses, notifications, logs and earlier export files keep
what they say of the employee; a whole-row update that had read its row before puts it back.
An edit of a goal leaves its `updated_at` as it is (performance/store_data.go:129),
unlike one of a plan: retention deletes a goal that was edited yesterday, and
`RetentionSpares` takes a goal to be as old as its creation or anonymization. The
periods of a payroll retention come from a list that may be cut (retention.go:43): the
run is recorded as completed, with old periods left. A list of retention policies that
is cut skips categories, of which then no run is recorded.
Retention of leave deletes pending requests and leaves their days pending in the
balance. Retention is not one transaction: feedback given on an old goal between two of its
statements makes the deletion of goals fail, with the earlier statements done. A section
of an export whose query fails is left out without a word (the feedback of an employee
without an account always: the query is given `''` for a uuid), and an export whose
last update fails is answered as completed.

## Not modelled

* Payroll set-up (schedules, groups, elements, templates), leave set-up (types,
  policies, holidays), review templates, ratings and goal comments: one autocommit insert, update or delete per
  request, which nothing reads back to decide; what other handlers read of them is
  a constant or an answer from a set.
* Payroll exports, reports, calendars, dashboards: read-only conversions of rows to text.
* `ComputePayroll`: money arithmetic in floating point. `PayrollPeriod` counts the lines
  instead.
* Four of the sixteen queries of an export (payroll results, notifications, access
  logs, former managers), whose tables are not in `Gdpr`.
* Circles of two statements that take the same rows in opposite orders, in `Gdpr`:
  PostgreSQL ends them by failing one, as `ExecutionFails` and `PurgeFails` do.
* The rate limiter: counters per key in memory, behind a mutex each, which nothing but the
  limiter itself reads. Twice the limit may pass around the end of a bucket, and a
  bucket is never removed.
* The creation of a payroll period: every period is there from the beginning, in draft.
* Notifications, e-mail, audit log, metrics: append-only; no statement decides on
  them. For the same reason the retention categories audit, access logs and
  notifications, each of which is one `DELETE` by age.
* Migrations, seed, configuration, encryption: run once or pure.
* The frontend, except the buttons that decide what a page may ask of a leave.

## Plan

Done: payroll periods and idempotency; the import of inputs; leave requests and the
ledger; accruals with the job queue and the leave calendar; accounts and sessions;
directory; performance; GDPR; for each of them every invariant and action property of
its run as a theorem, and both refinements. Left, in this order:

1. `ComputePayroll` over integers against a reference definition.
2. What other components read of the parts that are one statement per request (leave
   policies, payroll groups), where a constant stands for it now.
3. The buckets of the rate limiter, against the bound of twice the limit.

## Running

    tlc -config MCPayrollContract.cfg MCPayroll.tla
    tlc -config MCGdpr.cfg MCGdpr.tla
    tlapm PayrollProofs.tla
    tlapm LeaveProofs.tla
    tlapm ImportProofs.tla
    tlapm AccountsProofs.tla
    tlapm DirectoryProofs.tla
    tlapm AccrualProofs.tla
    tlapm PerformanceProofs.tla
    tlapm GdprProofs.tla
