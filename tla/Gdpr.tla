-------------------------------- MODULE Gdpr --------------------------------
(* Anonymization of an employee, exports of its data (DSAR), retention and        *)
(* consents, with the rows of the other components they read, blank and delete.   *)
(* Of a row there is whom it is about, who wrote it, whether it is older than its *)
(* category is kept, and its text: of a job or an export its status. The columns  *)
(* preferred_name, personal_email and pronouns of an employee are a row of their  *)
(* own, "nickname". A row is named by the request that inserts it.                *)
EXTENDS Naturals, Sequences

CONSTANTS
  Actors, RoleOf, EmployeeOf, \* users with a token, its role, the employee each is or None
  Employees,
  Initial,                    \* the rows of the beginning: id -> [kind, of, by, parent, old, text]
  Kept,                       \* the categories that have a retention policy at the beginning
  Saved,                      \* the categories HR may save a policy for
  Writable,                   \* the rows other handlers insert: [by, kind, of, parent]
  Editable,                   \* the rows other handlers save again
  Requests,                   \* numbers, in the order in which they arrive
  Unreliable,                 \* bound: the sections of an export whose query may fail
  None

AnonSteps == <<"profile", "user", "leave", "goal", "feedback", "checkin", "pip", "payslip", "contact">>

(* The kinds an anonymization is to blank: what employees write of one another in  *)
(* comments and responses, their tasks and consents stay as they are.             *)
Blankable == {"profile", "nickname", "user", "contact", "leave", "payslip", "goal", "feedback", "checkin", "pip"}

(* Of the queries of an export those of the tables modelled here: the results of   *)
(* payroll, notifications, access logs and former managers are left out.           *)
Sections == <<"profile", "leave", "payslip", "goal", "comment", "feedback", "checkin", "pip", "task", "response",
              "consent", "contact">>
Exported == {Sections[i] : i \in DOMAIN Sections}
Kinds == Blankable \cup
         {"approval", "period", "cycle", "task", "response", "comment", "consent", "export", "job"}
JobStatuses == {"requested", "processing", "completed", "failed"}
Texts == {"personal", "anonymized", "null", "revoked"} \cup JobStatuses
Ids == DOMAIN Initial \cup Requests
RowType == [kind : Kinds, of : Employees \cup {None}, by : Actors \cup {None}, parent : Ids \cup {None},
            old : BOOLEAN, text : Texts]

(* The foreign keys between the tables, by the kind of row that has one. *)
ForeignKey == [approval |-> "leave", payslip |-> "period", task |-> "cycle", response |-> "task",
               comment |-> "goal", feedback |-> "goal"]
MayBeUnder(table, kind, parent) ==
  parent # None =>
    kind \in DOMAIN ForeignKey /\ parent \in DOMAIN table /\ table[parent].kind = ForeignKey[kind]

(* The statements of ApplyRetention, by what they delete. *)
Purges == [
  leave              |-> <<"approval", "leave">>,
  payroll            |-> <<"select", "payslip", "period">>,
  performance        |-> <<"unlink", "response", "task", "cycle", "comment", "goal", "feedback", "checkin", "pip">>,
  gdpr               |-> <<"export", "job">>,
  emergency_contacts |-> <<"contact">>,
  employee_profile   |-> <<"nickname">>]

(* A payslip or a comment is as old as what it is under; no job has been completed *)
(* before the history begins.                                                      *)
ASSUME GdprAssumption ==
  /\ EmployeeOf \in [Actors -> Employees \cup {None}]
  /\ \A id \in DOMAIN Initial :
       /\ Initial[id] \in RowType
       /\ MayBeUnder(Initial, Initial[id].kind, Initial[id].parent)
       /\ Initial[id].kind \in {"payslip", "comment"} => ~Initial[id].old
       /\ Initial[id].kind = "job" => Initial[id].text # "completed"
  /\ Kept \cup Saved \subseteq DOMAIN Purges
  /\ Writable \subseteq [by : Actors, kind : Kinds, of : Employees \cup {None}, parent : Ids \cup {None}]
  /\ Requests \subseteq Nat /\ Requests \cap DOMAIN Initial = {}
  /\ None \notin Ids /\ None \notin Employees

VARIABLES
  rows,      \* id -> [kind, of, by, parent, old, text], of every table
  reports,   \* jobs with a report to download
  files,     \* export -> [got, missing, had]: what was written, and what there was
  policies,  \* categories with a retention policy
  runs,      \* retention_runs: [run, category, status], with the periods it had selected
  pc, req,   \* request -> what it does next, what it knows
  present,   \* history: job -> the rows of its employee when its transaction began
  rewritten  \* history: rows that an edit has saved since they were last blanked

tables == <<rows, reports, files, policies, runs>>
history == <<present, rewritten>>
vars == <<tables, pc, req, history>>

Labels == {"new", "lock", "anon", "fail", "report", "collect", "save", "unsaved", "start", "purge", "record",
            "edit", "done"}
NoReq == [task |-> "none"]

Init ==
  /\ rows = Initial
  /\ reports = {} /\ files = <<>>
  /\ policies = Kept
  /\ runs = {}
  /\ pc = [r \in Requests |-> "new"]
  /\ req = [r \in Requests |-> NoReq]
  /\ present = <<>> /\ rewritten = {}

-----------------------------------------------------------------------------
Goto(r, label, knows) ==
  /\ pc' = [pc EXCEPT ![r] = label]
  /\ req' = [req EXCEPT ![r] = knows]

Finish(r) == Goto(r, "done", NoReq)

(* EmployeeIDByUserID *)
Self(a) == EmployeeOf[a]
ByUserOf(e, id) == rows[id].by # None /\ Self(rows[id].by) = e

Row(kind, e, a, text) == [kind |-> kind, of |-> e, by |-> a, parent |-> None, old |-> FALSE, text |-> text]
Put(table, id, row) == [k \in DOMAIN table \cup {id} |-> IF k = id THEN row ELSE table[k]]
Insert(id, row) == rows' = Put(rows, id, row)
SetText(ids, text) == [id \in DOMAIN rows |-> IF id \in ids THEN [rows[id] EXCEPT !.text = text] ELSE rows[id]]

Starts(r) == pc[r] = "new" /\ \A q \in Requests : pc[q] = "new" => r <= q

(* Of goals and plans retention looks at updated_at, which an anonymization sets of *)
(* both, an edit only of plans.                                                    *)
Touched(table, ids, kinds) ==
  [id \in DOMAIN table |-> IF id \in ids /\ table[id].kind \in kinds THEN [table[id] EXCEPT !.old = FALSE] ELSE table[id]]

(* The client leaves or the server stops before the next statement. *)
Leave(r) ==
  /\ pc[r] \notin {"new", "done"}
  /\ Finish(r)
  /\ UNCHANGED <<tables, history>>

-----------------------------------------------------------------------------
(* What the statements write, and who waits for whom *)

About(e) == {id \in DOMAIN rows : rows[id].of = e}

(* Mutant: feedback is anonymized by its author. *)
MatchedByAuthor(e, i) ==
  {id \in DOMAIN rows : rows[id].kind = AnonSteps[i] /\ IF AnonSteps[i] = "feedback" THEN ByUserOf(e, id) ELSE rows[id].of = e}

(* What the ith statement writes; the first one the nickname too. *)
Matched(e, i) ==
  {id \in About(e) : rows[id].kind = AnonSteps[i] \/ (i = 1 /\ rows[id].kind = "nickname")}

OldOf(kind) == {id \in DOMAIN rows : rows[id].kind = kind /\ rows[id].old}
OldParents(id) == rows[id].parent # None /\ rows[rows[id].parent].old

(* Mutant: exports and jobs by requested_at. *)
DueRequested(kind, periods) ==
  CASE kind = "period"  -> {id \in DOMAIN rows : rows[id].kind = kind /\ id \in periods}
    [] kind = "payslip" -> {id \in DOMAIN rows : rows[id].kind = kind /\ rows[id].parent \in periods}
    [] kind = "comment" -> {id \in DOMAIN rows : rows[id].kind = kind /\ OldParents(id)}
    [] OTHER            -> OldOf(kind)

(* What a statement deletes: periods that have been selected, with their payslips;  *)
(* by the age of the row, or of its goal; exports and jobs by completed_at.        *)
Due(kind, periods) ==
  CASE kind = "period"            -> {id \in DOMAIN rows : rows[id].kind = kind /\ id \in periods}
    [] kind = "payslip"           -> {id \in DOMAIN rows : rows[id].kind = kind /\ rows[id].parent \in periods}
    [] kind = "comment"           -> {id \in DOMAIN rows : rows[id].kind = kind /\ OldParents(id)}
    [] kind \in {"export", "job"} -> {id \in OldOf(kind) : rows[id].text = "completed"}
    [] OTHER                      -> OldOf(kind)

Under(ids) == {id \in DOMAIN rows : rows[id].kind # "feedback" /\ rows[id].parent \in ids}

(* Mutant: no ON DELETE CASCADE, and nothing that refuses the delete. *)
CascadeNone(ids) == ids

(* ON DELETE CASCADE *)
Cascade(ids) == ids \cup Under(ids) \cup Under(Under(ids))

(* feedback.related_goal_id has no ON DELETE: the statement is refused. *)
Referenced(ids) == \E id \in DOMAIN rows : rows[id].kind = "feedback" /\ rows[id].parent \in ids

Writes(kind, periods) ==
  CASE kind = "unlink"   -> {id \in DOMAIN rows : rows[id].kind = "feedback" /\ OldParents(id)}
    [] kind = "nickname" -> OldOf("nickname")
    [] OTHER             -> Cascade(Due(kind, periods))

Finished(r) == pc[r] = "anon" /\ req[r].i > Len(AnonSteps)

Statement(r) == Purges[req[r].category][req[r].i]
Refused(r) == Referenced(Due(Statement(r), req[r].periods))
LastStatement(r) == req[r].i = Len(Purges[req[r].category])

(* Mutant: the statements of an anonymization are kept in a map, and executed in an *)
(* order that is another one each time.                                            *)
WantedInAnyOrder(r) ==
  CASE pc[r] = "edit"                      -> {req[r].row}
    [] pc[r] \in {"lock", "fail", "report"} -> {req[r].job}
    [] pc[r] = "anon"                      ->
         IF Finished(r) THEN {req[r].job}
         ELSE Matched(req[r].of, IF r % 2 = 0 THEN req[r].i ELSE Len(AnonSteps) + 1 - req[r].i)
    [] pc[r] = "purge"                     -> Writes(Statement(r), req[r].periods)
    [] OTHER                               -> {}

(* The rows that the next statement of a request writes. *)
Wanted(r) ==
  CASE pc[r] = "edit"                      -> {req[r].row}
    [] pc[r] \in {"lock", "fail", "report"} -> {req[r].job}
    [] pc[r] = "anon"                      -> IF Finished(r) THEN {req[r].job} ELSE Matched(req[r].of, req[r].i)
    [] pc[r] = "purge"                     -> Writes(Statement(r), req[r].periods)
    [] OTHER                               -> {}

(* The requests whose transaction has written one of them. A statement is taken to *)
(* get all its rows at once: that two get the same rows in opposite orders, which  *)
(* PostgreSQL ends by failing one (ExecutionFails, PurgeFails), is left out.       *)
Awaits(r) == {q \in Requests \ {r} : pc[q] = "anon" /\ req[q].touched \cap Wanted(r) # {}}

Free(r) == Awaits(r) = {}

-----------------------------------------------------------------------------
(* The rest of the system: leave, goals, profiles and so on *)

Write(r, a, kind, e, parent) ==
  /\ Starts(r)
  /\ MayBeUnder(rows, kind, parent)
  /\ Insert(r, [Row(kind, e, a, "personal") EXCEPT !.parent = parent])
  /\ Finish(r)
  /\ UNCHANGED <<reports, files, policies, runs, history>>

(* The updates that read a row, merge what was sent and save all its columns, or of *)
(* a plan its texts. A goal with a column that is NULL cannot be read.            *)
Edit(r, id) ==
  /\ Starts(r)
  /\ rows[id].kind = "goal" => rows[id].text # "null"
  /\ Goto(r, "edit", [task |-> "edit", row |-> id])
  /\ UNCHANGED <<tables, history>>

(* The columns of "nickname" are saved with the others of the employee. *)
SavedWith(id) ==
  IF id \notin DOMAIN rows THEN {}
  ELSE {id} \cup {k \in DOMAIN rows : rows[id].kind = "profile" /\ rows[k].kind = "nickname" /\ rows[k].of = rows[id].of}

SaveEdit(r) ==
  /\ pc[r] = "edit" /\ Free(r)
  /\ LET saved == SavedWith(req[r].row)
     IN /\ rows' = Touched(SetText(saved, "personal"), saved, {"pip"})
        /\ rewritten' = rewritten \cup saved
  /\ Finish(r)
  /\ UNCHANGED <<reports, files, policies, runs, present>>

-----------------------------------------------------------------------------
(* Consents *)

(* handleListConsents, of one employee or of all. *)
ListConsents(e) == {id \in DOMAIN rows : rows[id].kind = "consent" /\ (e # None => rows[id].of = e)}

(* handleCreateConsent, handleRevokeConsent: a revocation may be repeated. *)
CreateConsent(r, a, e) ==
  /\ Starts(r) /\ RoleOf[a] = "HR"
  /\ Insert(r, Row("consent", e, a, "personal"))
  /\ Finish(r)
  /\ UNCHANGED <<reports, files, policies, runs, history>>

RevokeConsent(r, a, id) ==
  /\ Starts(r) /\ RoleOf[a] = "HR"
  /\ id \in ListConsents(None)
  /\ rows' = SetText({id}, "revoked")
  /\ Finish(r)
  /\ UNCHANGED <<reports, files, policies, runs, history>>

-----------------------------------------------------------------------------
(* Anonymization *)

(* handleListAnonymizationJobs, handleDownloadAnonymizationReport *)
ListAnonymizationJobs(a) == {id \in DOMAIN rows : RoleOf[a] = "HR" /\ rows[id].kind = "job"}
DownloadReport(a, j) == RoleOf[a] = "HR" /\ j \in reports

(* handleRequestAnonymization; of one employee there may be several jobs. *)
RequestAnonymization(r, a, e) ==
  /\ Starts(r) /\ RoleOf[a] = "HR"
  /\ Insert(r, Row("job", e, a, "requested"))
  /\ Finish(r)
  /\ UNCHANGED <<reports, files, policies, runs, history>>

(* ExecuteAnonymization: AnonymizationJobStatus, before the transaction. *)
Execute(r, a, j) ==
  /\ Starts(r)
  /\ j \in ListAnonymizationJobs(a) /\ rows[j].text = "requested"
  /\ Goto(r, "lock", [task |-> "job", job |-> j, of |-> rows[j].of, i |-> 1, touched |-> {}, had |-> {}])
  /\ UNCHANGED <<tables, history>>

(* UpdateAnonymizationStatusTx, which waits for another execution of the job; the *)
(* status it finds then makes no difference.                                      *)
LockJob(r) ==
  /\ pc[r] = "lock" /\ Free(r)
  /\ Goto(r, "anon", [req[r] EXCEPT !.touched = {req[r].job}, !.had = About(req[r].of)])
  /\ UNCHANGED <<tables, history>>

(* One of its statements. *)
AnonymizeTable(r) ==
  /\ pc[r] = "anon" /\ req[r].i <= Len(AnonSteps)
  /\ Free(r)
  /\ Goto(r, "anon", [req[r] EXCEPT !.i = @ + 1, !.touched = @ \cup Wanted(r)])
  /\ UNCHANGED <<tables, history>>

(* What the statements set: a text, or NULL. *)
Blank(kind) == IF kind \in {"feedback", "checkin", "profile", "user"} THEN "anonymized" ELSE "null"

(* The contacts are deleted. *)
Blanked(ids) ==
  [id \in {k \in DOMAIN rows : ~(k \in ids /\ rows[k].kind = "contact")} |->
     IF id \in ids THEN [rows[id] EXCEPT !.text = Blank(rows[id].kind)] ELSE rows[id]]

(* What is completed is as old as its completion. *)
WithStatus(table, j, status) ==
  [id \in DOMAIN table |->
     IF id = j THEN [table[j] EXCEPT !.text = status, !.old = @ /\ status # "completed"] ELSE table[id]]

Commit(r) ==
  LET ids == req[r].touched \ {req[r].job}
  IN /\ rows' = WithStatus(Touched(Blanked(ids), ids, {"goal", "pip"}), req[r].job, "completed")
     /\ present' = Put(present, req[r].job, req[r].had)
     /\ rewritten' = rewritten \ ids

(* CompleteAnonymizationJobTx and the commit. *)
CommitJob(r) ==
  /\ Finished(r) /\ Free(r)
  /\ Commit(r)
  /\ Goto(r, "report", [task |-> "report", job |-> req[r].job])
  /\ UNCHANGED <<reports, files, policies, runs>>

(* An error of a statement, or of the commit, which may have happened all the same. *)
ExecutionFails(r) ==
  /\ pc[r] \in {"lock", "anon"}
  /\ Goto(r, "fail", [task |-> "fail", job |-> req[r].job])
  /\ \/ UNCHANGED <<rows, present, rewritten>>
     \/ Finished(r) /\ Commit(r)
  /\ UNCHANGED <<reports, files, policies, runs>>

(* failAnonymization, on a connection of its own and whatever the status is now. *)
FailAnonymization(r) ==
  /\ pc[r] = "fail" /\ Free(r)
  /\ rows' = WithStatus(rows, req[r].job, "failed")
  /\ Finish(r)
  /\ UNCHANGED <<reports, files, policies, runs, history>>

(* writeAnonymizationReport with UpdateAnonymizationReport; its errors are logged. *)
WriteReport(r) ==
  /\ pc[r] = "report" /\ Free(r)
  /\ reports' = reports \cup {req[r].job}
  /\ Finish(r)
  /\ UNCHANGED <<rows, files, policies, runs, history>>

-----------------------------------------------------------------------------
(* Exports *)

(* Mutant: only the feedback received. *)
SectionAbout(e, kind) == {id \in About(e) : rows[id].kind = kind}

(* What a query of an export reads: feedback also by who gave it. *)
Section(e, kind) == {id \in DOMAIN rows : rows[id].kind = kind /\ (rows[id].of = e \/ (kind = "feedback" /\ ByUserOf(e, id)))}

DataOf(e) ==
  {id \in DOMAIN rows : rows[id].kind \in Exported /\ (rows[id].of = e \/ (rows[id].kind = "feedback" /\ ByUserOf(e, id)))}

(* handleRequestDSAR with CreateDSARExport. *)
RequestDSAR(r, a, e) ==
  /\ Starts(r) /\ (RoleOf[a] = "HR" \/ Self(a) = e)
  /\ Insert(r, Row("export", e, a, "processing"))
  /\ Goto(r, "collect", [task |-> "export", of |-> e, i |-> 1, got |-> {}, missing |-> {}, had |-> DataOf(e)])
  /\ UNCHANGED <<reports, files, policies, runs, history>>

(* GenerateDSAR: GetEmployee and the queries, each of which sees the rows of its  *)
(* own moment. One that fails is left out; without the profile there is no export. *)
Collect(r) ==
  /\ pc[r] = "collect" /\ req[r].i <= Len(Sections)
  /\ LET kind == Sections[req[r].i]
     IN Goto(r, "collect", [req[r] EXCEPT !.i = @ + 1, !.got = @ \cup Section(req[r].of, kind)])
  /\ UNCHANGED <<tables, history>>

CollectFails(r) ==
  /\ pc[r] = "collect" /\ req[r].i <= Len(Sections)
  /\ IF req[r].i = 1 THEN Goto(r, "unsaved", [task |-> "unsaved"])
     ELSE /\ Sections[req[r].i] \in Unreliable
          /\ Goto(r, "collect", [req[r] EXCEPT !.i = @ + 1, !.missing = @ \cup {Sections[req[r].i]}])
  /\ UNCHANGED <<tables, history>>

WriteFile(r) ==
  /\ pc[r] = "collect" /\ req[r].i > Len(Sections)
  /\ \/ /\ files' = Put(files, r, [got |-> req[r].got, missing |-> req[r].missing, had |-> req[r].had])
        /\ Goto(r, "save", [task |-> "save"])
     \/ files' = files /\ Goto(r, "unsaved", [task |-> "unsaved"])
  /\ UNCHANGED <<rows, reports, policies, runs, history>>

(* UpdateDSARExport, or UpdateDSARStatus when there is no file. When they fail the *)
(* export stays as it is, though the answer says otherwise.                        *)
SaveExport(r) ==
  /\ pc[r] \in {"save", "unsaved"}
  /\ \/ rows' = WithStatus(rows, r, IF pc[r] = "save" THEN "completed" ELSE "failed")
     \/ rows' = rows
  /\ Finish(r)
  /\ UNCHANGED <<reports, files, policies, runs, history>>

(* handleListDSAR, handleDownloadDSAR: file_path is saved with the status. *)
ListDSARExports(a) == {id \in DOMAIN rows : rows[id].kind = "export" /\ (RoleOf[a] = "HR" \/ rows[id].of = Self(a))}
Download(a, id) ==
  IF id \in ListDSARExports(a) /\ rows[id].text = "completed" /\ id \in DOMAIN files THEN files[id].got ELSE {}

-----------------------------------------------------------------------------
(* Retention *)

(* handleCreateRetention with UpsertRetentionPolicy. *)
SavePolicy(r, a, c) ==
  /\ Starts(r) /\ RoleOf[a] = "HR"
  /\ policies' = policies \cup {c}
  /\ Finish(r)
  /\ UNCHANGED <<rows, reports, files, runs, history>>

(* handleRunRetention, of one category or of all, and the jobs that the scheduler *)
(* queues for one worker: ListRetentionPolicies, in any order, and fewer when the *)
(* list breaks off, which is not noticed.                                         *)
RunRetention(r, a, asked) ==
  /\ Starts(r) /\ RoleOf[a] = "HR"
  /\ \E list \in SUBSET (policies \cap asked) : Goto(r, "start", [task |-> "run", todo |-> list, recorded |-> TRUE])
  /\ UNCHANGED <<tables, history>>

Scheduled(r) ==
  /\ Starts(r)
  /\ \E list \in SUBSET policies : Goto(r, "start", [task |-> "run", todo |-> list, recorded |-> FALSE])
  /\ UNCHANGED <<tables, history>>

(* The job_runs row of each category is left out: nothing here reads it, and      *)
(* JobQueue has the rows of the scheduled jobs.                                   *)
StartCategory(r) ==
  /\ pc[r] = "start"
  /\ IF req[r].todo = {} THEN Finish(r)
     ELSE \E c \in req[r].todo : Goto(r, "purge", [task |-> "purge", category |-> c, i |-> 1, todo |-> req[r].todo \ {c},
                                                   periods |-> {}, status |-> "completed", recorded |-> req[r].recorded])
  /\ UNCHANGED <<tables, history>>

(* The payroll periods: a list that breaks off is taken for the whole (rows.Err() is *)
(* not asked), and when it is empty there is nothing to do.                        *)
SelectPeriods(r) ==
  /\ pc[r] = "purge" /\ Statement(r) = "select"
  /\ \E list \in SUBSET OldOf("period") :
       IF list = {} THEN Goto(r, "record", req[r]) ELSE Goto(r, "purge", [req[r] EXCEPT !.i = @ + 1, !.periods = list])
  /\ UNCHANGED <<tables, history>>

After(kind, periods) ==
  CASE kind = "unlink"   -> [id \in DOMAIN rows |-> IF rows[id].kind = "feedback" /\ OldParents(id)
                                                  THEN [rows[id] EXCEPT !.parent = None] ELSE rows[id]]
    [] kind = "nickname" -> SetText(OldOf("nickname"), "null")
    [] OTHER             -> [id \in DOMAIN rows \ Cascade(Due(kind, periods)) |-> rows[id]]

(* A statement of ApplyRetention that writes, committed by itself. *)
Purge(r) ==
  /\ pc[r] = "purge" /\ Statement(r) # "select" /\ Free(r)
  /\ ~Refused(r)
  /\ rows' = After(Statement(r), req[r].periods)
  /\ rewritten' = IF Statement(r) = "nickname" THEN rewritten \ OldOf("nickname") ELSE rewritten
  /\ IF LastStatement(r) THEN Goto(r, "record", req[r]) ELSE Goto(r, "purge", [req[r] EXCEPT !.i = @ + 1])
  /\ UNCHANGED <<reports, files, policies, runs, present>>

(* Mutant: the error of ApplyRetention is not looked at. *)
OutcomeIgnored == "completed"

Outcome == "failed"

(* One that fails: those before it stay, those after it are not executed. *)
PurgeFails(r) ==
  /\ pc[r] = "purge" /\ ~Refused(r)
  /\ Goto(r, "record", [req[r] EXCEPT !.status = Outcome])
  /\ UNCHANGED <<tables, history>>

PurgeRefused(r) ==
  /\ pc[r] = "purge" /\ Refused(r)
  /\ Goto(r, "record", [req[r] EXCEPT !.status = Outcome])
  /\ UNCHANGED <<tables, history>>

(* RecordRetentionRun, whose failure is logged; for a run of HR only. *)
RecordRetentionRun(r) ==
  /\ pc[r] = "record"
  /\ \/ runs' = runs
     \/ req[r].recorded /\ runs' = runs \cup {[run |-> r, category |-> req[r].category, periods |-> req[r].periods,
                                               status |-> req[r].status]}
  /\ Goto(r, "start", [task |-> "run", todo |-> req[r].todo, recorded |-> req[r].recorded])
  /\ UNCHANGED <<rows, reports, files, policies, history>>

-----------------------------------------------------------------------------
(* A request that has begun: what it does when nothing fails. *)
Advance(r) ==
  \/ SaveEdit(r)
  \/ LockJob(r) \/ AnonymizeTable(r) \/ CommitJob(r) \/ FailAnonymization(r) \/ WriteReport(r)
  \/ Collect(r) \/ WriteFile(r) \/ SaveExport(r)
  \/ StartCategory(r) \/ SelectPeriods(r) \/ Purge(r) \/ PurgeRefused(r) \/ RecordRetentionRun(r)

Begins(r) ==
  \/ \E w \in Writable : Write(r, w.by, w.kind, w.of, w.parent)
  \/ \E id \in DOMAIN rows \cap Editable : Edit(r, id)
  \/ Scheduled(r)
  \/ \E a \in Actors :
       \/ \E e \in Employees : CreateConsent(r, a, e) \/ RequestAnonymization(r, a, e) \/ RequestDSAR(r, a, e)
       \/ \E id \in DOMAIN rows : RevokeConsent(r, a, id) \/ Execute(r, a, id)
       \/ \E c \in Saved : SavePolicy(r, a, c)
       \/ \E asked \in {policies} \cup {{c} : c \in policies} : RunRetention(r, a, asked)

Next == \E r \in Requests : Begins(r) \/ Advance(r) \/ ExecutionFails(r) \/ CollectFails(r) \/ PurgeFails(r) \/ Leave(r)

Spec == Init /\ [][Next]_vars

-----------------------------------------------------------------------------
(* The variables have their types, and every row is under one that exists, of the *)
(* table its foreign key declares.                                                *)
TypeOK ==
  /\ DOMAIN rows \subseteq Ids
  /\ \A id \in DOMAIN rows : rows[id] \in RowType /\ MayBeUnder(rows, rows[id].kind, rows[id].parent)
  /\ reports \subseteq Ids /\ DOMAIN files \subseteq Requests
  /\ policies \subseteq DOMAIN Purges
  /\ {run.status : run \in runs} \subseteq {"completed", "failed"}
  /\ pc \in [Requests -> Labels]

(* An anonymization job that HR is shown as completed, or of which there is a      *)
(* report, has blanked the profile, account, contacts, leave, payslips, goals,    *)
(* plans, check-ins and feedback that its employee had when its transaction began, *)
(* whatever was executed along with it; except rows that an edit has saved again  *)
(* since. Of comments, responses, tasks and consents it says nothing              *)
(* (ExecuteAnonymization).                                                        *)
CompletedMeansBlank ==
  \A a \in Actors : \A j \in ListAnonymizationJobs(a) : rows[j].text = "completed" \/ DownloadReport(a, j) =>
    \A id \in (present[j] \ rewritten) \cap DOMAIN rows :
      rows[id].kind \in Blankable => rows[id].text # "personal"

(* Who may download a completed export of which no query failed gets every row of *)
(* the sections that was about its employee, and the feedback it gave, when it    *)
(* was asked for and that is still there, although it is collected by one query   *)
(* after the other (GenerateDSAR).                                                *)
ExportWhole ==
  \A a \in Actors : \A x \in ListDSARExports(a) \cap DOMAIN files :
    rows[x].text = "completed" /\ files[x].missing = {} => files[x].had \cap DOMAIN rows \subseteq Download(a, x)

Aged(table, id) ==
  \/ table[id].old
  \/ \E p \in DOMAIN table : table[id].parent = p /\ (table[p].old \/ \E q \in DOMAIN table : table[p].parent = q /\ table[q].old)

(* A row goes away only when it is older than its category is kept, by the date   *)
(* that retention looks at (of a goal that is not its last edit), or under a row  *)
(* that is, or a contact of an employee that is then anonymized; an export or     *)
(* a job only after it was completed (ApplyRetention, DeleteEmergencyContactsTx). *)
RetentionSpares ==
  [][\A id \in DOMAIN rows \ DOMAIN rows' :
       /\ Aged(rows, id) \/ (rows[id].kind = "contact" /\ \E j \in DOMAIN rows' :
            rows'[j].kind = "job" /\ rows'[j].text = "completed" /\ rows'[j].of = rows[id].of)
       /\ rows[id].kind \in {"export", "job"} => rows[id].text = "completed"]_vars

(* When HR is shown a completed run of a category, nothing is left of it that was *)
(* too old, and what ended employees called themselves is gone or has been saved  *)
(* again; of payroll nothing of the periods that the run had selected, which may  *)
(* not be all (handleRunRetention).                                               *)
RunsTell ==
  \A run \in runs : run.status = "completed" =>
    /\ run.periods \cap DOMAIN rows = {}
    /\ \A id \in DOMAIN rows : rows[id].old /\ (\E i \in DOMAIN Purges[run.category] : rows[id].kind = Purges[run.category][i]) =>
         \/ rows[id].kind \in {"export", "job"} /\ rows[id].text # "completed"
         \/ rows[id].kind = "nickname" /\ (rows[id].text = "null" \/ id \in rewritten)
         \/ rows[id].kind = "period"

(* Never does each of some requests wait for one of them: somebody can go on, also *)
(* when two jobs of one employee are executed at once. Statements are taken whole *)
(* here (see Awaits): it is about their order (ExecuteAnonymization).             *)
NoDeadlock == \A waiting \in (SUBSET Requests) \ {{}} : \E r \in waiting : Awaits(r) \cap waiting = {}
=============================================================================
