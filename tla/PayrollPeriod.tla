--------------------------- MODULE PayrollPeriod ---------------------------
(* The life of a payroll period: draft, reviewed, finalized, and back to draft *)
(* when it is reopened. Every HTTP request runs in a goroutine of its own and  *)
(* issues its SQL statements one by one; only FinalizePeriod groups some in a  *)
(* transaction. One action is one statement (or the reads a handler makes      *)
(* between two writes), so requests interleave between any two of them.        *)
(*                                                                             *)
(* A net amount is abstracted to the number of input lines it was computed     *)
(* from: it tells a result computed before an input was added from one         *)
(* computed after. Audit rows, notifications, warnings and the job_runs row of *)
(* a run are left out: no statement of these handlers reads them back.         *)
EXTENDS Naturals, FiniteSets

CONSTANTS
  Requests,    \* HTTP requests, each served once by a goroutine of its own
  Employees,   \* employees of the tenant
  Periods,     \* rows of payroll_periods
  Keys,        \* (user, Idempotency-Key) pairs that finalize requests carry
  MaxInputs,   \* bound: input lines per period and employee
  MayOverlap,  \* {a, b} is in it when requests of kinds a and b may be in flight together
  FaultyOps,   \* kinds of requests whose statements may fail or whose goroutine may die
  Unused,      \* value of an idempotency key that has no row
  None         \* no lock holder, no result, no file, nothing in hand

Ops == {"run", "finalize", "reopen", "payslip"}

ASSUME BoundAssumption == MaxInputs \in Nat
ASSUME OverlapAssumption == MayOverlap \subseteq SUBSET Ops /\ FaultyOps \subseteq Ops
ASSUME NoneAssumption ==
  /\ None \notin Requests \cup Employees \cup Nat
  /\ Unused \notin Periods

VARIABLES
  status,         \* payroll_periods.status
  finalizations,  \* committed FinalizePeriod transactions; finalized_at is set iff > 0
  inputs,         \* number of payroll_inputs lines of an employee in a period
  net,            \* payroll_results.net, None when there is no row
  payslips,       \* rows of payslips: id -> amount printed in its file, None before it has one
  lock,           \* the request that holds the row lock of a period
  idem,           \* idempotency_keys rows of endpoint payroll.finalize
  req,            \* what a request asks for
  pc,             \* the statement a request issues next
  todo,           \* the rest of the request's loop, or the rows its transaction inserts
  cur,            \* the loop's current employee or payslip
  val             \* the amount computed or read for it

db == <<status, finalizations, inputs, net, payslips, lock, idem>>
locals == <<req, pc, todo, cur, val>>
vars == <<status, finalizations, inputs, net, payslips, lock, idem, req, pc, todo, cur, val>>

IdemStore == INSTANCE Idempotency

Statuses == {"draft", "reviewed", "finalized"}
SlipIds == [period : Periods, round : Nat, emp : Employees]
Amounts == 0..MaxInputs
InTransaction == {"insert", "count", "commit"}
Done == {"ok", "refused", "failed"}
Labels == {"new", "list", "loop", "upsert", "lock", "publish", "render", "attach",
           "redraft", "purgeResults", "purgePayslips"} \cup InTransaction \cup Done

Init ==
  /\ status = [p \in Periods |-> "draft"]
  /\ finalizations = [p \in Periods |-> 0]
  /\ inputs = [p \in Periods |-> [e \in Employees |-> 0]]
  /\ net = [p \in Periods |-> [e \in Employees |-> None]]
  /\ payslips = [i \in {} |-> None]
  /\ lock = [p \in Periods |-> None]
  /\ idem = [k \in Keys |-> Unused]
  /\ req = [r \in Requests |-> None]
  /\ pc = [r \in Requests |-> "new"]
  /\ todo = [r \in Requests |-> {}]
  /\ cur = [r \in Requests |-> None]
  /\ val = [r \in Requests |-> None]

-----------------------------------------------------------------------------
(* Helpers *)

Period(r) == req[r].period
InFlight(r) == pc[r] \notin Done \cup {"new"}

(* A statement that updates the period's row, or that inserts a row referring  *)
(* to it, waits while a finalization holds the row with SELECT ... FOR UPDATE. *)
NoRowLock(p) == TRUE     \* mutant: SELECT status without FOR UPDATE
RowFree(p) == lock[p] = None

SlipsOf(p) == {i \in DOMAIN payslips : i.period = p}

Faulty(r) == req[r].op \in FaultyOps

(* A request of kind op arrives for period p and is left at label l. *)
Arrive(r, op, p, key, l) ==
  /\ pc[r] = "new"
  /\ \A q \in Requests : InFlight(q) => {op, req[q].op} \in MayOverlap
  /\ req' = [req EXCEPT ![r] = [op |-> op, period |-> p, key |-> key]]
  /\ pc' = [pc EXCEPT ![r] = l]

Move(r, from, to) ==
  /\ pc[r] = from
  /\ pc' = [pc EXCEPT ![r] = to]

(* The loop takes x in hand with amount v; Drop puts everything down. *)
Take(r, x, v) ==
  /\ todo' = [todo EXCEPT ![r] = @ \ {x}]
  /\ cur' = [cur EXCEPT ![r] = x]
  /\ val' = [val EXCEPT ![r] = v]

PutDown(r) ==
  /\ cur' = [cur EXCEPT ![r] = None]
  /\ val' = [val EXCEPT ![r] = None]

-----------------------------------------------------------------------------
(* Inputs and adjustments: added at any time, whatever the period's status is. *)

AddInput(p, e) ==
  /\ inputs[p][e] < MaxInputs
  /\ RowFree(p)
  /\ inputs' = [inputs EXCEPT ![p][e] = @ + 1]
  /\ UNCHANGED <<status, finalizations, net, payslips, lock, idem, locals>>

-----------------------------------------------------------------------------
(* POST /payroll/periods/{id}/run *)

(* Mutant: the finalized period is not refused. *)
RunStartUnchecked(r, p) ==
  /\ Arrive(r, "run", p, None, "list")
  /\ UNCHANGED <<db, todo, cur, val>>

(* The only look at the status: a finalized period is refused. *)
RunStart(r, p) ==
  /\ Arrive(r, "run", p, None, IF status[p] = "finalized" THEN "refused" ELSE "list")
  /\ UNCHANGED <<db, todo, cur, val>>

(* The active employees of the period's schedule: any set, employees change elsewhere. *)
RunList(r) ==
  /\ Move(r, "list", "loop")
  /\ \E active \in SUBSET Employees : todo' = [todo EXCEPT ![r] = active]
  /\ UNCHANGED <<db, req, cur, val>>

(* Mutant: one line is counted twice. *)
RunComputeTwice(r, e) ==
  /\ Move(r, "loop", "upsert")
  /\ e \in todo[r]
  /\ Take(r, e, inputs[Period(r)][e] + 1)
  /\ UNCHANGED <<db, req>>

(* ListInputLines, ListAdjustmentAmounts and ComputePayroll for the next employee. *)
(* A query for adjustments or leaves that fails is passed over, and no list is     *)
(* asked whether it is whole: the amount may then be of some of the lines.         *)
RunCompute(r, e) ==
  /\ Move(r, "loop", "upsert")
  /\ e \in todo[r]
  /\ \E amount \in Amounts : /\ amount = inputs[Period(r)][e] \/ Faulty(r)
                             /\ Take(r, e, amount)
  /\ UNCHANGED <<db, req>>

(* INSERT ... ON CONFLICT DO UPDATE: only a new row has a foreign key to check. *)
RunUpsert(r) ==
  /\ Move(r, "upsert", "loop")
  /\ net[Period(r)][cur[r]] = None => RowFree(Period(r))
  /\ net' = [net EXCEPT ![Period(r)][cur[r]] = val[r]]
  /\ PutDown(r)
  /\ UNCHANGED <<status, finalizations, inputs, payslips, lock, idem, req, todo>>

(* UpdatePeriodStatus(reviewed), whatever the status has become meanwhile. *)
RunReview(r) ==
  /\ Move(r, "loop", "ok")
  /\ todo[r] = {}
  /\ RowFree(Period(r))
  /\ status' = [status EXCEPT ![Period(r)] = "reviewed"]
  /\ UNCHANGED <<finalizations, inputs, net, payslips, lock, idem, req, todo, cur, val>>

Run == \/ \E r \in Requests, p \in Periods : RunStart(r, p)
       \/ \E r \in Requests : RunList(r) \/ RunUpsert(r) \/ RunReview(r)
       \/ \E r \in Requests, e \in Employees : RunCompute(r, e)

-----------------------------------------------------------------------------
(* POST /payroll/periods/{id}/finalize *)

(* Idem.Check. A lookup that fails for any other reason than a conflict is     *)
(* logged and the handler goes on as if the key were new.                      *)
FinalizeStart(r, p, key) ==
  /\ LET found == IdemStore!Check(idem, key, p)
     IN \/ Arrive(r, "finalize", p, key,
                  CASE found = "replay" -> "ok"
                    [] found = "conflict" -> "refused"
                    [] OTHER -> "lock")
        \/ "finalize" \in FaultyOps /\ Arrive(r, "finalize", p, key, "lock")
  /\ UNCHANGED <<db, todo, cur, val>>

(* BEGIN; SELECT status ... FOR UPDATE; a period that is not reviewed rolls back. *)
FinalizeLock(r) ==
  /\ pc[r] = "lock"
  /\ RowFree(Period(r))
  /\ IF status[Period(r)] = "reviewed"
       THEN Move(r, "lock", "insert") /\ lock' = [lock EXCEPT ![Period(r)] = r]
       ELSE Move(r, "lock", "refused") /\ UNCHANGED lock
  /\ UNCHANGED <<status, finalizations, inputs, net, payslips, idem, req, todo, cur, val>>

(* UPDATE status, finalized_at; INSERT INTO payslips SELECT ... FROM            *)
(* payroll_results. Nothing is visible to others before the commit. The table   *)
(* has no unique constraint: ON CONFLICT DO NOTHING never applies.              *)
FinalizeInsert(r) ==
  /\ Move(r, "insert", "count")
  /\ LET p == Period(r)
         paid == {e \in Employees : net[p][e] # None}
     IN todo' = [todo EXCEPT ![r] =
          {[period |-> p, round |-> finalizations[p] + 1, emp |-> e] : e \in paid}]
  /\ UNCHANGED <<db, req, cur, val>>

(* Mutant: the transaction of a period without results is never rolled back. *)
FinalizeCountNoRollback(r) ==
  /\ pc[r] = "count"
  /\ Move(r, "count", IF todo[r] \cup SlipsOf(Period(r)) = {} THEN "refused" ELSE "commit")
  /\ UNCHANGED <<db, req, todo, cur, val>>

(* SELECT COUNT(1) counts the new rows and those an earlier round left behind. *)
FinalizeCount(r) ==
  /\ pc[r] = "count"
  /\ IF todo[r] \cup SlipsOf(Period(r)) = {}
       THEN Move(r, "count", "refused") /\ lock' = [lock EXCEPT ![Period(r)] = None]
       ELSE Move(r, "count", "commit") /\ UNCHANGED lock
  /\ UNCHANGED <<status, finalizations, inputs, net, payslips, idem, req, todo, cur, val>>

FinalizeCommit(r) ==
  /\ Move(r, "commit", "publish")
  /\ status' = [status EXCEPT ![Period(r)] = "finalized"]
  /\ finalizations' = [finalizations EXCEPT ![Period(r)] = @ + 1]
  /\ payslips' = [i \in DOMAIN payslips \cup todo[r] |->
                    IF i \in DOMAIN payslips THEN payslips[i] ELSE None]
  /\ lock' = [lock EXCEPT ![Period(r)] = None]
  /\ todo' = [todo EXCEPT ![r] = {}]
  /\ UNCHANGED <<inputs, net, idem, req, cur, val>>

(* ListPayslipIDs after the commit; when it fails or breaks off, none or fewer *)
(* are rendered.                                                               *)
FinalizePublish(r) ==
  /\ Move(r, "publish", "render")
  /\ \E slips \in SUBSET SlipsOf(Period(r)) :
       /\ slips = SlipsOf(Period(r)) \/ Faulty(r)
       /\ todo' = [todo EXCEPT ![r] = slips]
  /\ UNCHANGED <<db, req, cur, val>>

(* Idem.Save: a key bound to another period meanwhile turns the answer into a  *)
(* conflict, any other failure is logged.                                      *)
FinalizeSave(r) ==
  /\ pc[r] = "render" /\ todo[r] = {}
  /\ req[r].op = "finalize"
  /\ \/ /\ Move(r, "render", IF IdemStore!SaveConflicts(idem, req[r].key, Period(r))
                               THEN "refused" ELSE "ok")
        /\ idem' = IdemStore!Save(idem, req[r].key, Period(r))
     \/ Faulty(r) /\ Move(r, "render", "ok") /\ UNCHANGED idem
  /\ UNCHANGED <<status, finalizations, inputs, net, payslips, lock, req, todo, cur, val>>

Finalize ==
  \/ \E r \in Requests, p \in Periods, k \in Keys : FinalizeStart(r, p, k)
  \/ \E r \in Requests : \/ FinalizeLock(r) \/ FinalizeInsert(r) \/ FinalizeCount(r)
                         \/ FinalizeCommit(r) \/ FinalizePublish(r) \/ FinalizeSave(r)

-----------------------------------------------------------------------------
(* POST /payroll/periods/{id}/reopen *)

(* Mutant: a period of any status is reopened. *)
ReopenStartUnchecked(r, p) ==
  /\ Arrive(r, "reopen", p, None, "redraft")
  /\ UNCHANGED <<db, todo, cur, val>>

(* Only a finalized period can be reopened. *)
ReopenStart(r, p) ==
  /\ Arrive(r, "reopen", p, None, IF status[p] = "finalized" THEN "redraft" ELSE "refused")
  /\ UNCHANGED <<db, todo, cur, val>>

(* UpdatePeriodStatus(draft); finalized_at keeps its value. *)
ReopenDraft(r) ==
  /\ Move(r, "redraft", "purgeResults")
  /\ RowFree(Period(r))
  /\ status' = [status EXCEPT ![Period(r)] = "draft"]
  /\ UNCHANGED <<finalizations, inputs, net, payslips, lock, idem, req, todo, cur, val>>

(* A delete that fails is logged and the handler goes on. *)
ReopenPurgeResults(r) ==
  /\ Move(r, "purgeResults", "purgePayslips")
  /\ \/ net' = [net EXCEPT ![Period(r)] = [e \in Employees |-> None]]
     \/ Faulty(r) /\ UNCHANGED net
  /\ UNCHANGED <<status, finalizations, inputs, payslips, lock, idem, req, todo, cur, val>>

(* Mutant: the payslips of the finalization stay. *)
ReopenKeepPayslips(r) ==
  /\ Move(r, "purgePayslips", "ok")
  /\ UNCHANGED <<db, req, todo, cur, val>>

ReopenPurgePayslips(r) ==
  /\ Move(r, "purgePayslips", "ok")
  /\ \/ payslips' = [i \in DOMAIN payslips \ SlipsOf(Period(r)) |-> payslips[i]]
     \/ Faulty(r) /\ UNCHANGED payslips
  /\ UNCHANGED <<status, finalizations, inputs, net, lock, idem, req, todo, cur, val>>

Reopen == \/ \E r \in Requests, p \in Periods : ReopenStart(r, p)
          \/ \E r \in Requests : \/ ReopenDraft(r) \/ ReopenPurgeResults(r)
                                 \/ ReopenPurgePayslips(r)

-----------------------------------------------------------------------------
(* Payslip files: the loop of a finalization, the download of a payslip that   *)
(* has no file yet, and the regeneration of one.                               *)

PayslipStart(r, i) ==
  /\ i \in DOMAIN payslips
  /\ Arrive(r, "payslip", i.period, None, "render")
  /\ todo' = [todo EXCEPT ![r] = {i}]
  /\ UNCHANGED <<db, cur, val>>

(* PayslipPDFData reads the amounts of the employee's result in the period;    *)
(* without a result, or when rendering fails, a finalization logs it and takes *)
(* the next payslip, a payslip request fails.                                  *)
RenderPayslip(r, i) ==
  /\ pc[r] = "render" /\ i \in todo[r]
  /\ LET amount == net[i.period][i.emp]
     IN \/ amount # None /\ Move(r, "render", "attach") /\ Take(r, i, amount)
        \/ /\ amount = None \/ Faulty(r)
           /\ Move(r, "render", IF req[r].op = "finalize" THEN "render" ELSE "failed")
           /\ todo' = [todo EXCEPT ![r] = @ \ {i}]
           /\ UNCHANGED <<cur, val>>
  /\ UNCHANGED <<db, req>>

(* The file, whose path depends on the payslip's id only, is written; then the  *)
(* row's file_url is set by id: without the row nothing changes, and an update   *)
(* that fails is logged.                                                         *)
AttachPayslip(r) ==
  /\ pc[r] = "attach"
  /\ Move(r, "attach", IF req[r].op = "finalize" THEN "render" ELSE "ok")
  /\ \/ payslips' = [i \in DOMAIN payslips |-> IF i = cur[r] THEN val[r] ELSE payslips[i]]
     \/ Faulty(r) /\ UNCHANGED payslips
  /\ PutDown(r)
  /\ UNCHANGED <<status, finalizations, inputs, net, lock, idem, req, todo>>

Payslip == \/ \E r \in Requests : \E i \in DOMAIN payslips : PayslipStart(r, i)
           \/ \E r \in Requests : \/ \E i \in todo[r] : RenderPayslip(r, i)
                                  \/ AttachPayslip(r)

-----------------------------------------------------------------------------
(* A statement fails and the handler answers 500, the client disconnects, or    *)
(* the process dies: the statements already issued stay, an open transaction    *)
(* is rolled back and its row lock released. Nothing resumes the request.       *)
Fail(r) ==
  /\ InFlight(r) /\ Faulty(r)
  /\ pc' = [pc EXCEPT ![r] = "failed"]
  /\ lock' = [p \in Periods |-> IF lock[p] = r THEN None ELSE lock[p]]
  /\ todo' = [todo EXCEPT ![r] = {}]
  /\ PutDown(r)
  /\ UNCHANGED <<status, finalizations, inputs, net, payslips, idem, req>>

Next == \/ \E p \in Periods, e \in Employees : AddInput(p, e)
        \/ Run \/ Finalize \/ Reopen \/ Payslip
        \/ \E r \in Requests : Fail(r)

Spec == Init /\ [][Next]_vars

(* The statements of a request that has arrived: the Go scheduler runs every    *)
(* runnable goroutine, and PostgreSQL grants a released row lock to a waiter.   *)
Progress(r) ==
  \/ RunList(r) \/ RunUpsert(r) \/ RunReview(r) \/ \E e \in Employees : RunCompute(r, e)
  \/ FinalizeLock(r) \/ FinalizeInsert(r) \/ FinalizeCount(r) \/ FinalizeCommit(r)
  \/ FinalizePublish(r) \/ FinalizeSave(r)
  \/ ReopenDraft(r) \/ ReopenPurgeResults(r) \/ ReopenPurgePayslips(r)
  \/ (\E i \in todo[r] : RenderPayslip(r, i)) \/ AttachPayslip(r)

FairSpec == Spec /\ \A r \in Requests : WF_vars(Progress(r))

-----------------------------------------------------------------------------
(* Properties *)

(* The tables, the lock and what the handlers hold keep their types.            *)
TypeOK ==
  /\ status \in [Periods -> Statuses]
  /\ finalizations \in [Periods -> Nat]
  /\ inputs \in [Periods -> [Employees -> Amounts]]
  /\ net \in [Periods -> [Employees -> Amounts \cup {None}]]
  /\ DOMAIN payslips \subseteq SlipIds
  /\ payslips \in [DOMAIN payslips -> Amounts \cup {None}]
  /\ lock \in [Periods -> Requests \cup {None}]
  /\ idem \in [Keys -> Periods \cup {Unused}]
  /\ req \in [Requests -> [op : Ops, period : Periods, key : Keys \cup {None}] \cup {None}]
  /\ pc \in [Requests -> Labels]
  /\ todo \in [Requests -> (SUBSET Employees) \cup (SUBSET SlipIds)]
  /\ cur \in [Requests -> Employees \cup SlipIds \cup {None}]
  /\ val \in [Requests -> Amounts \cup {None}]

(* FinalizePeriod's row lock: a period becomes finalized only from reviewed,     *)
(* whatever runs, reopenings and other finalizations do between the status check *)
(* and the commit ("payroll period must be reviewed before finalize").           *)
FinalizeOnlyFromReviewed ==
  [][\A p \in Periods : status'[p] = "finalized" /\ status[p] # "finalized"
        => status[p] = "reviewed"]_vars

(* A finalize request is answered with success, replayed answers included, only *)
(* for a period whose finalization has committed at some time: neither a failed *)
(* lookup, a crash nor a key reused for another period makes it lie.            *)
SuccessIsTruthful ==
  \A r \in Requests :
    pc[r] = "ok" /\ req[r].op = "finalize" => finalizations[req[r].period] > 0

(* An idempotency key answers for the period it was first used with, for ever:  *)
(* two finalizations racing with one key for two periods never rebind it.       *)
KeyNeverRebound ==
  [][\A k \in Keys : idem[k] # Unused => idem'[k] = idem[k]]_vars

(* A finalized period has exactly one payslip for each employee with a result.  *)
OnePayslipEach ==
  \A p \in Periods : status[p] = "finalized" =>
    /\ {i.emp : i \in SlipsOf(p)} = {e \in Employees : net[p][e] # None}
    /\ \A i, j \in SlipsOf(p) : i.emp = j.emp => i = j

(* A payslip file of a finalized period shows the amount of the employee's      *)
(* result: a file rendered before a reopening never ends up on a later payslip. *)
FileShowsResult ==
  \A p \in Periods : status[p] = "finalized" =>
    \A i \in SlipsOf(p) : payslips[i] \in {None, net[p][i.emp]}

(* A run is refused once its period is finalized ("payroll period already       *)
(* finalized"): only a reopening takes a period out of that status.             *)
FinalizedLeftByReopenOnly ==
  [][\A p \in Periods : status[p] = "finalized" => status'[p] \in {"finalized", "draft"}]_vars

(* Requests of different kinds do not overlap, except those for payslip files. *)
OneKindAtATime == {{"run"}, {"finalize"}, {"reopen"}} \cup {{"payslip", op} : op \in Ops}

(* The periods as PayrollContract sees them. *)
Contract == INSTANCE PayrollContract WITH
  result <- net, issued <- [p \in Periods |-> SlipsOf(p)]

(* Where requests are of one kind at a time and no reopening stops half way, the *)
(* statements of a finalization add up to the one step it promises to be, and    *)
(* results and payslips of a finalized period change by reopening it only.       *)
ContractSpec == Contract!Spec

(* Every request that has arrived is answered: no order of row locks, errors    *)
(* and rollbacks leaves one waiting for ever.                                   *)
EveryRequestAnswered == \A r \in Requests : InFlight(r) ~> pc[r] \in Done
=============================================================================
