---------------------------- MODULE LeaveAccrual ----------------------------
(* Leave accruals: ApplyAccruals, run by the background worker for every tenant *)
(* and by HR on demand, together with the job queue. A policy is accrued in a   *)
(* transaction of its own, which locks the balance rows it writes; whether it   *)
(* is due has been read before the transaction begins. Retention jobs share     *)
(* the worker; what they delete does not matter here. The server runs in UTC.   *)
EXTENDS Integers, Sequences, FiniteSets, JobQueue, LeaveCalendar

CONSTANTS
  Requests,    \* POST /leave/accrual/run and POST /leave/balances/adjust requests
  ByHand,      \* tenants whose HR sends them
  Employees, TenantOf, StartOf,  \* active employees, their tenant and first day
  LeaveTypes,
  Policies, Policy,  \* policy -> [tenant, type, rate, period, cap]; cap None without entitlement
  LastDay,     \* bound: days that pass
  Adjustments  \* bound: amounts an adjustment may add

Accounts == LeaveTypes \X Employees
Days == 0..LastDay
Starts == UNION {Begins[period] : period \in DOMAIN Begins}
Worker == "worker"
Processes == Requests \cup {Worker}

(* Every day is in a period of each kind: one that began last, and before the next. *)
ASSUME CalendarAssumption ==
  \A period \in DOMAIN Begins :
    /\ Begins[period] \subseteq Int
    /\ \A day \in Days :
         /\ \E last \in Begins[period] : last <= day /\ \A d \in Begins[period] : d <= day => d <= last
         /\ \E next \in Begins[period] : day < next /\ \A d \in Begins[period] : day < d => next <= d

ASSUME AccrualAssumption ==
  /\ None \notin Processes \cup Int \cup Policies \cup {"running", "completed"}
  /\ Worker \notin Requests /\ LastDay \in Nat
  /\ ByHand \subseteq Tenants /\ Adjustments \subseteq Int
  /\ \A e \in Employees : TenantOf[e] \in Tenants /\ StartOf[e] \in Int
  /\ \A p \in Policies : /\ Policy[p].tenant \in Tenants /\ Policy[p].type \in LeaveTypes
                         /\ Policy[p].rate \in Nat
                         /\ Policy[p].cap \in Nat \cup {None}

VARIABLES
  today,
  balance,     \* leave_balances.balance, None without a row
  adjusted,    \* accounts whose balance HR has adjusted
  lastAccrued, \* leave_accrual_runs.last_accrued_on, None without a row
  credits,     \* history: how often an employee has got a policy's accrual for a period
  lock,        \* process whose transaction has written a balance row
  pc,          \* what a process does next
  now,         \* the time ApplyAccruals was called with
  tenant,      \* and the tenant
  todo,        \* policies it has still to look at
  cur,         \* the policy of its transaction
  emps,        \* employees whose accrual the transaction has still to write
  staged,      \* balance rows the transaction has written
  row,         \* status of the job_runs row of the worker's last run, None when it has none or was a retention
  listed       \* history: the policies that run was given

db == <<today, balance, adjusted, lastAccrued, credits, lock>>
locals == <<now, tenant, todo, cur, emps, staged>>
vars == <<queueVars, db, locals, pc, row, listed>>

Labels == {"new", "idle", "policies", "accrue", "retain", "done"}
Home(w) == IF w = Worker THEN "idle" ELSE "done"
Start(w) == IF w = Worker THEN "idle" ELSE "new"
Account(p, e) == <<Policy[p].type, e>>
PeriodOf(p, day) == PeriodStart(day, Policy[p].period)
Amount(p, e, day) == Accrual(Policy[p].rate, StartOf[e], PeriodOf(p, day), Policy[p].period)
Capped(amount, cap) == IF cap = None \/ amount <= cap THEN amount ELSE cap

Init ==
  /\ QueueInit
  /\ today = 0
  /\ balance = [a \in Accounts |-> None]
  /\ adjusted = {}
  /\ lastAccrued = [p \in Policies |-> None]
  /\ credits = [p \in Policies |-> [e \in Employees |-> [d \in Starts |-> 0]]]
  /\ lock = [a \in Accounts |-> None]
  /\ pc = [w \in Processes |-> Start(w)]
  /\ now = [w \in Processes |-> 0]
  /\ tenant = [w \in Processes |-> None]
  /\ todo = [w \in Processes |-> {}]
  /\ cur = [w \in Processes |-> None]
  /\ emps = [w \in Processes |-> {}]
  /\ staged = [w \in Processes |-> << >>]
  /\ row = None
  /\ listed = {}

-----------------------------------------------------------------------------
(* Running a job *)

(* runJob inserts the run's row (a run without one goes the same way) and        *)
(* ApplyAccruals lists the policies that accrue. ListAccrualPolicies does not ask *)
(* rows.Err(): a query that fails or breaks off is a shorter list.               *)
BeginAccruals(w, t) == \E list \in SUBSET {p \in Policies : Policy[p].tenant = t} :
  /\ pc' = [pc EXCEPT ![w] = "policies"]
  /\ now' = [now EXCEPT ![w] = today]
  /\ tenant' = [tenant EXCEPT ![w] = t]
  /\ todo' = [todo EXCEPT ![w] = list]
  /\ row' = IF w = Worker THEN "running" ELSE row
  /\ listed' = IF w = Worker THEN list ELSE listed
  /\ UNCHANGED <<db, cur, emps, staged>>

(* A run forgets what it was about; the last run of the worker that job_runs *)
(* shows as completed is remembered.                                         *)
Forget(w) ==
  /\ todo' = [todo EXCEPT ![w] = {}]
  /\ cur' = [cur EXCEPT ![w] = None]
  /\ emps' = [emps EXCEPT ![w] = {}]
  /\ staged' = [staged EXCEPT ![w] = << >>]
  /\ now' = [now EXCEPT ![w] = IF w = Worker /\ row' = "completed" THEN @ ELSE 0]
  /\ tenant' = [tenant EXCEPT ![w] = IF w = Worker /\ row' = "completed" THEN @ ELSE None]
  /\ listed' = IF w = Worker /\ row' # "completed" THEN {} ELSE listed

(* Mutant: the run is recorded as completed whatever its error. *)
EndRunCompleted(w, status) ==
  /\ pc' = [pc EXCEPT ![w] = Home(w)]
  /\ row' = IF w = Worker /\ row = "running" THEN "completed" ELSE row
  /\ Forget(w)

(* The job has returned and the row it has gets its status (here of the worker's *)
(* runs). A shutdown cancels the context of the worker's jobs: the row then      *)
(* stays at running.                                                             *)
EndRun(w, status) ==
  /\ pc' = [pc EXCEPT ![w] = Home(w)]
  /\ row' = IF w = Worker /\ row = "running" /\ server = "up" THEN status ELSE row
  /\ Forget(w)

(* A shutdown cancels the context of the worker's statements, not of a request's. *)
Alive(w) == server = "up" \/ w # Worker

Unlock(w) == lock' = [a \in Accounts |-> IF lock[a] = w THEN None ELSE lock[a]]

(* The worker takes a job. *)
Work ==
  /\ pc[Worker] = "idle"
  /\ \E job \in Jobs :
       /\ Dequeue(job)
       /\ \/ job.type = JobLeaveAccrual /\ BeginAccruals(Worker, job.tenant)
          \/ /\ job.type = JobRetention
             /\ pc' = [pc EXCEPT ![Worker] = "retain"]
             /\ row' = None
             /\ listed' = {}
             /\ tenant' = [tenant EXCEPT ![Worker] = None]
             /\ now' = [now EXCEPT ![Worker] = 0]
             /\ UNCHANGED <<db, todo, cur, emps, staged>>

(* Mutant: a retention that is not told of a shutdown does not return from it. *)
RetainDeaf ==
  /\ pc[Worker] = "retain" /\ server = "up"
  /\ EndRun(Worker, "completed")
  /\ UNCHANGED <<queueVars, db>>

(* ApplyRetention of one category has ended, well or not. *)
Retain ==
  /\ pc[Worker] = "retain"
  /\ EndRun(Worker, "completed")
  /\ UNCHANGED <<queueVars, db>>

(* POST /leave/accrual/run: RunNow in the goroutine of the request. *)
HandleRunAccruals(r, t) ==
  /\ server = "up" /\ pc[r] = "new"
  /\ BeginAccruals(r, t)
  /\ UNCHANGED queueVars

-----------------------------------------------------------------------------
(* ApplyAccruals *)

(* LastAccruedOn, read outside of any transaction. *)
Due(w, p) ==
  LET start == PeriodOf(p, now[w])
  IN start # None /\ (lastAccrued[p] = None \/ lastAccrued[p] < start)

(* The active employees who get something. (Their list is read inside the        *)
(* transaction: one that breaks off makes the statements after it fail.)         *)
Payees(w, p) == {e \in Employees : TenantOf[e] = tenant[w] /\ Amount(p, e, now[w]) > 0}

(* A policy that is due begins a transaction. *)
CheckDue(w, p) ==
  /\ pc[w] = "policies" /\ p \in todo[w] /\ Alive(w)
  /\ todo' = [todo EXCEPT ![w] = @ \ {p}]
  /\ IF Due(w, p)
       THEN /\ pc' = [pc EXCEPT ![w] = "accrue"]
            /\ cur' = [cur EXCEPT ![w] = p]
            /\ emps' = [emps EXCEPT ![w] = Payees(w, p)]
       ELSE UNCHANGED <<pc, cur, emps>>
  /\ UNCHANGED <<queueVars, db, now, tenant, staged, row, listed>>

(* Mutant: the cap is left out. *)
IncreasedUncapped(w, e) ==
  LET a == Account(cur[w], e)
      amount == Amount(cur[w], e, now[w])
  IN IF balance[a] = None THEN amount ELSE balance[a] + amount

(* UpsertBalanceTx and UpsertBalanceWithCapTx: the cap applies to the whole *)
(* balance of an existing row and not at all to a new one.                  *)
Increased(w, e) ==
  LET a == Account(cur[w], e)
      amount == Amount(cur[w], e, now[w])
  IN IF balance[a] = None THEN amount ELSE Capped(balance[a] + amount, Policy[cur[w]].cap)

(* One upsert of the loop: a row another transaction has written is waited for. *)
(* The employees come in map order: any.                                        *)
UpsertBalance(w, e) ==
  /\ pc[w] = "accrue" /\ e \in emps[w] /\ Alive(w)
  /\ LET a == Account(cur[w], e)
     IN /\ lock[a] = None
        /\ lock' = [lock EXCEPT ![a] = w]
        /\ staged' = [staged EXCEPT ![w] = [b \in DOMAIN @ \cup {a} |-> IF b = a THEN Increased(w, e) ELSE @[b]]]
  /\ emps' = [emps EXCEPT ![w] = @ \ {e}]
  /\ UNCHANGED <<queueVars, today, balance, adjusted, lastAccrued, credits, now, tenant, todo, cur, pc, row, listed>>

(* What the commit of process w's transaction publishes. *)
Publish(w) ==
  LET p == cur[w]
      start == PeriodOf(p, now[w])
  IN /\ balance' = [a \in Accounts |-> IF a \in DOMAIN staged[w] THEN staged[w][a] ELSE balance[a]]
     /\ lastAccrued' = [lastAccrued EXCEPT ![p] = start]
     /\ credits' = [credits EXCEPT ![p] =
          [e \in Employees |-> IF Account(p, e) \in DOMAIN staged[w]
                                 THEN [credits[p][e] EXCEPT ![start] = @ + 1]
                                 ELSE credits[p][e]]]

(* RecordAccrualRunTx and COMMIT. *)
Commit(w) ==
  /\ pc[w] = "accrue" /\ emps[w] = {} /\ Alive(w)
  /\ Publish(w)
  /\ Unlock(w)
  /\ pc' = [pc EXCEPT ![w] = "policies"]
  /\ cur' = [cur EXCEPT ![w] = None]
  /\ staged' = [staged EXCEPT ![w] = << >>]
  /\ UNCHANGED <<queueVars, today, adjusted, now, tenant, todo, emps, row, listed>>

(* Every policy has been looked at. *)
Complete(w) ==
  /\ pc[w] = "policies" /\ todo[w] = {} /\ Alive(w)
  /\ EndRun(w, "completed")
  /\ UNCHANGED <<queueVars, db>>

-----------------------------------------------------------------------------
(* Failures *)

(* Mutant: a failed transaction leaves its last accrual behind. *)
RollBackHalf(w) ==
  /\ lastAccrued' = IF pc[w] = "accrue"
       THEN [lastAccrued EXCEPT ![cur[w]] = PeriodOf(cur[w], now[w])] ELSE lastAccrued
  /\ UNCHANGED <<today, balance, adjusted, credits>>

RollBack(w) == UNCHANGED <<today, balance, adjusted, lastAccrued, credits>>

(* A statement fails, the client leaves or the worker's context is cancelled:    *)
(* the policy's transaction is rolled back, the policies before it stay accrued. *)
Fail(w) ==
  /\ pc[w] \in {"policies", "accrue"}
  /\ RollBack(w) /\ Unlock(w)
  /\ EndRun(w, "failed")
  /\ UNCHANGED queueVars

(* The server has committed but the answer is lost. *)
FailAfterCommit(w) ==
  /\ pc[w] = "accrue" /\ emps[w] = {}
  /\ Publish(w) /\ Unlock(w)
  /\ EndRun(w, "failed")
  /\ UNCHANGED <<queueVars, today, adjusted>>

WaitsFor(w, q) == /\ pc[w] = "accrue"
                  /\ \E e \in emps[w] : /\ lock[Account(cur[w], e)] = q
                  /\ \A e \in emps[w] : lock[Account(cur[w], e)] # None

(* PostgreSQL cancels a transaction of a cycle of waiting ones; here it is the   *)
(* statement of w that fails.                                                    *)
DeadlockDetected(w) ==
  /\ \E q \in Processes \ {w} : WaitsFor(w, q) /\ WaitsFor(q, w)
  /\ Fail(w)

Cancelled == server = "stopping" /\ Fail(Worker)

(* The process is gone: what runs ends where it is, open transactions are        *)
(* rolled back, rows of job_runs stay at running.                                *)
ServerRestart ==
  /\ Restart
  /\ lock' = [a \in Accounts |-> None]
  /\ pc' = [w \in Processes |-> IF pc[w] = "new" THEN "new" ELSE Home(w)]
  /\ todo' = [w \in Processes |-> {}]
  /\ cur' = [w \in Processes |-> None]
  /\ emps' = [w \in Processes |-> {}]
  /\ staged' = [w \in Processes |-> << >>]
  /\ UNCHANGED <<today, balance, adjusted, lastAccrued, credits, now, tenant, row, listed>>

-----------------------------------------------------------------------------

NextDay ==
  /\ today < LastDay
  /\ today' = today + 1
  /\ UNCHANGED <<queueVars, balance, adjusted, lastAccrued, credits, lock, locals, pc, row, listed>>

(* Store.AdjustBalance: one upsert, uncapped. *)
Adjusted(a, amount) == IF balance[a] = None THEN amount ELSE balance[a] + amount

(* POST /leave/balances/adjust; the leave_balance_adjustments row is read by nobody. *)
AdjustBalance(r, a, amount) ==
  /\ server = "up" /\ pc[r] = "new"
  /\ TenantOf[a[2]] \in ByHand
  /\ lock[a] = None
  /\ balance' = [balance EXCEPT ![a] = Adjusted(a, amount)]
  /\ adjusted' = adjusted \cup {a}
  /\ pc' = [pc EXCEPT ![r] = "done"]
  /\ UNCHANGED <<queueVars, today, lastAccrued, credits, lock, locals, row, listed>>

QueueStep ==
  /\ \/ AccrualTick \/ RetentionTick
     \/ \E type \in JobTypes, job \in Jobs : Enqueue(type, job)
     \/ Shutdown
  /\ UNCHANGED <<db, locals, pc, row, listed>>

Step(w) ==
  \/ \E p \in Policies : CheckDue(w, p)
  \/ \E e \in Employees : UpsertBalance(w, e)
  \/ Commit(w) \/ Complete(w)

Next ==
  \/ QueueStep \/ Work \/ Retain \/ ServerRestart \/ NextDay
  \/ \E r \in Requests : \/ \E t \in ByHand : HandleRunAccruals(r, t)
                         \/ \E a \in Accounts, n \in Adjustments : AdjustBalance(r, a, n)
  \/ \E w \in Processes : Step(w) \/ Fail(w) \/ FailAfterCommit(w)

(* What process w does unless it fails. *)
Run(w) ==
  \/ Step(w) \/ DeadlockDetected(w)
  \/ w = Worker /\ (Work \/ Retain \/ Cancelled)

(* The Go scheduler runs every goroutine; PostgreSQL detects deadlocks and keeps *)
(* those who wait for a row in a queue: no one is overtaken for ever.            *)
Spec == Init /\ [][Next]_vars
FairSpec == Spec /\ WF_vars(Run(Worker)) /\ \A r \in Requests : SF_vars(Run(r))

-----------------------------------------------------------------------------
(* Properties *)

(* Balances, queue, locks and the state of every run keep their types. *)
TypeOK ==
  /\ QueueTypeOK
  /\ today \in Days
  /\ balance \in [Accounts -> Int \cup {None}]
  /\ adjusted \subseteq Accounts
  /\ lastAccrued \in [Policies -> Int \cup {None}]
  /\ credits \in [Policies -> [Employees -> [Starts -> Nat]]]
  /\ lock \in [Accounts -> Processes \cup {None}]
  /\ pc \in [Processes -> Labels]
  /\ now \in [Processes -> Days]
  /\ tenant \in [Processes -> Tenants \cup {None}]
  /\ todo \in [Processes -> SUBSET Policies]
  /\ cur \in [Processes -> Policies \cup {None}]
  /\ emps \in [Processes -> SUBSET Employees]
  /\ \A w \in Processes : DOMAIN staged[w] \subseteq Accounts /\ \A a \in DOMAIN staged[w] : staged[w][a] \in Int
  /\ row \in {"running", "completed", "failed", None}
  /\ listed \subseteq Policies

(* Where nobody accrues by hand, the one worker is enough: no employee gets a    *)
(* policy's accrual for one period twice, whatever ticks, failures, lost answers *)
(* and restarts happen (LastAccruedOn is read outside of the transaction). And   *)
(* accruals that race, fail or die lose nothing anywhere: the period a policy    *)
(* was last accrued for has been credited to everyone it pays.                   *)
PeriodsCredited ==
  \A p \in Policies, e \in Employees, d \in Starts :
    /\ Policy[p].tenant \notin ByHand => credits[p][e][d] <= 1
    /\ d = lastAccrued[p] /\ TenantOf[e] = Policy[p].tenant /\ Amount(p, e, d) > 0
         => credits[p][e][d] > 0

(* However many accruals race, they never take a balance beyond the cap of a     *)
(* policy that pays into it, or beyond the one accrual that made the row, which  *)
(* has no cap: LEAST is evaluated on the row as the last transaction left it.    *)
WithinCap ==
  \A a \in Accounts \ adjusted :
    LET paying == {p \in Policies : Policy[p].type = a[1] /\ Policy[p].tenant = TenantOf[a[2]]}
    IN balance[a] # None /\ (\A p \in paying : Policy[p].cap # None)
         => \E p \in paying : balance[a] <= Max({Policy[p].cap, Policy[p].rate})

(* A run of the worker that job_runs shows as completed has left behind none of  *)
(* the policies it was given, also after failed and interrupted runs before it.  *)
(* (It may have been given fewer than the tenant has: see BeginAccruals. And a   *)
(* run by hand that was called on an earlier day may commit after it and take    *)
(* the last accrual back: tenants that accrue by hand are left out.)             *)
CompletedMeansAccrued ==
  \A p \in listed :
    /\ row = "completed" /\ pc[Worker] = "idle" /\ Policy[p].tenant \notin ByHand
    /\ PeriodOf(p, now[Worker]) # None
    => lastAccrued[p] # None /\ lastAccrued[p] >= PeriodOf(p, now[Worker])

(* A job that has been started ends, although transactions wait for each other's *)
(* rows, and a job that is queued leaves the queue, unless the process stops.    *)
EveryJobEnds ==
  /\ \A w \in Processes : []<>(pc[w] \notin {"policies", "accrue", "retain"})
  /\ []<>(queue = <<>> \/ pc[Worker] # "idle")

(* The length of a leave is the number of half days between its first and last   *)
(* half day, and only an empty leave is refused (CalculateRequestDays).          *)
DaysAreHalfDays ==
  \A end \in Days, startHalf, endHalf \in BOOLEAN :
    RequestDays(today, end, startHalf, endHalf) =
      Cardinality({half \in Days \X {"am", "pm"} :
        /\ today <= half[1] /\ half[1] <= end
        /\ ~(startHalf /\ half = <<today, "am">>)
        /\ ~(endHalf /\ half = <<end, "pm">>)})
=============================================================================
