---------------------------- MODULE AccrualProofs ----------------------------
(* Proofs about LeaveAccrual for any tenants, policies, employees and calendar.   *)
EXTENDS LeaveAccrual, FiniteSetTheorems, TLAPS

-----------------------------------------------------------------------------
(* The calendar *)

LEMMA MaxIs ==
  ASSUME NEW S \in SUBSET Int, NEW m \in S, \A d \in S : d <= m
  PROVE  Max(S) = m
<1>1. \A y \in S : m >= y
  OBVIOUS
<1>2. Max(S) \in S /\ \A y \in S : Max(S) >= y
  BY <1>1 DEF Max
<1>3. Max(S) \in Int /\ m \in Int /\ Max(S) <= m /\ Max(S) >= m
  BY <1>2
<1>4. QED
  BY <1>3

LEMMA MinIs ==
  ASSUME NEW S \in SUBSET Int, NEW m \in S, \A d \in S : m <= d
  PROVE  Min(S) = m
<1>1. Min(S) \in S /\ \A y \in S : Min(S) <= y
  BY DEF Min
<1>2. Min(S) \in Int /\ m \in Int /\ Min(S) <= m /\ m <= Min(S)
  BY <1>1
<1>3. QED
  BY <1>2

(* The period of a day begins on a day that begins one, and before the day. *)
LEMMA PeriodBegins ==
  ASSUME NEW period \in DOMAIN Begins, NEW day \in Days
  PROVE  /\ PeriodStart(day, period) \in Begins[period] /\ PeriodStart(day, period) <= day
         /\ \A d \in Begins[period] : d <= day => d <= PeriodStart(day, period)
<1>1. Begins[period] \subseteq Int /\ day \in Int
  BY CalendarAssumption, AccrualAssumption DEF Days
<1>2. PICK last \in Begins[period] : last <= day /\ \A d \in Begins[period] : d <= day => d <= last
  BY CalendarAssumption
<1> DEFINE S == {d \in Begins[period] : d <= day}
<1>3. Max(S) = last
  <2>1. S \in SUBSET Int /\ last \in S /\ \A d \in S : d <= last
    BY <1>1, <1>2
  <2> HIDE DEF S
  <2>2. QED
    BY <2>1, MaxIs
<1>4. PeriodStart(day, period) = last
  BY <1>3 DEF PeriodStart
<1>5. QED
  BY <1>2, <1>4

(* The day on which a period begins is in that period. *)
LEMMA PeriodOfStart ==
  ASSUME NEW period \in DOMAIN Begins, NEW d \in Begins[period]
  PROVE  PeriodStart(d, period) = d
<1>1. Begins[period] \subseteq Int
  BY CalendarAssumption
<1> DEFINE S == {x \in Begins[period] : x <= d}
<1>2. S \in SUBSET Int /\ d \in S /\ \A x \in S : x <= d
  BY <1>1
<1>3. Max(S) = d
  <2> HIDE DEF S
  <2>1. QED
    BY <1>2, MaxIs
<1>4. QED
  BY <1>3 DEF PeriodStart

(* A share of the rate is no more than the rate. *)
LEMMA Share ==
  ASSUME NEW rate \in Nat, NEW x \in Nat, NEW y \in Nat \ {0}, x <= y
  PROVE  (rate * x) \div y \in Int /\ (rate * x) \div y <= rate
<1> DEFINE q == (rate * x) \div y
           n == rate * x
<1>1. n \in Nat /\ n <= rate * y
  OBVIOUS
<1>2. q \in Int /\ q * y <= n
  BY <1>1
<1>3. q <= rate
  <2>1. SUFFICES ASSUME q >= rate + 1 PROVE FALSE
    BY <1>2
  <2>2. q * y >= (rate + 1) * y
    BY <1>2, <2>1
  <2>3. (rate + 1) * y = rate * y + y
    OBVIOUS
  <2>4. QED
    BY <1>1, <1>2, <2>2, <2>3
<1>4. QED
  BY <1>2, <1>3

(* What an employee gets for a period is a number, and no more than the rate. *)
LEMMA AccrualBounded ==
  ASSUME NEW rate \in Nat, NEW start \in Int, NEW period \in DOMAIN Begins, NEW day \in Days
  PROVE  LET amount == Accrual(rate, start, PeriodStart(day, period), period) IN amount \in Int /\ amount <= rate
<1> DEFINE ps == PeriodStart(day, period)
           S == {d \in Begins[period] : d > ps}
<1>1. Begins[period] \subseteq Int /\ day \in Int
  BY CalendarAssumption, AccrualAssumption DEF Days
<1>2. ps \in Int /\ ps <= day /\ \A d \in Begins[period] : d <= day => d <= ps
  BY <1>1, PeriodBegins
<1>3. PICK next \in Begins[period] : day < next /\ \A d \in Begins[period] : day < d => next <= d
  BY CalendarAssumption
<1> HIDE DEF ps
<1>4. S \in SUBSET Int /\ next \in S /\ \A d \in S : next <= d
  BY <1>1, <1>2, <1>3
<1>5. Min(S) = next
  <2> HIDE DEF S
  <2>1. QED
    BY <1>4, MinIs
<1>6. CASE start > ps /\ ~(next < start)
  <2>1. next - start \in Nat /\ next - ps \in Nat \ {0} /\ next - start <= next - ps
    BY <1>1, <1>2, <1>3, <1>6
  <2>2. Accrual(rate, start, ps, period) = (rate * (next - start)) \div (next - ps)
    BY <1>5, <1>6 DEF Accrual, Prorated
  <2>3. QED
    BY <2>1, <2>2, Share DEF ps
<1>7. CASE ~(start > ps /\ ~(next < start))
  <2>1. Accrual(rate, start, ps, period) \in {0, rate}
    BY <1>5, <1>7 DEF Accrual, Prorated
  <2>2. QED
    BY <2>1 DEF ps
<1>8. QED
  BY <1>6, <1>7


-----------------------------------------------------------------------------
(* The inductive invariant *)

Busy(w) == pc[w] \in {"policies", "accrue"}
Paid(p) == {e \in Employees : TenantOf[e] = Policy[p].tenant}

(* A process accrues policies of its tenant; what its transaction has written is *)
(* for those the policy pays in the period of its day, whom it has not still to  *)
(* pay. Requests accrue for tenants that accrue by hand.                         *)
Accruing(w) ==
  /\ cur[w] \in Policies
  /\ Policy[cur[w]].tenant = tenant[w]
  /\ Policy[cur[w]].period \in DOMAIN Begins
  /\ emps[w] \subseteq Payees(w, cur[w])
  /\ \A e \in Payees(w, cur[w]) \ emps[w] : Account(cur[w], e) \in DOMAIN staged[w]
  /\ \A a \in DOMAIN staged[w] : a[1] = Policy[cur[w]].type /\ TenantOf[a[2]] = tenant[w]
RunOK(w) ==
  /\ Busy(w) => /\ tenant[w] \in Tenants /\ (w # Worker => tenant[w] \in ByHand)
                /\ \A p \in todo[w] : Policy[p].tenant = tenant[w]
  /\ pc[w] # "accrue" => staged[w] = << >>
  /\ pc[w] = "accrue" => Accruing(w)
TInv == /\ TypeOK /\ DOMAIN staged = Processes
        /\ \A w \in Processes : RunOK(w)

(* What a transaction has written stays within the cap, or is the first accrual. *)
Limit(p) == Max({Policy[p].cap, Policy[p].rate})
StagedWithinCap ==
  \A w \in Processes : pc[w] = "accrue" /\ Policy[cur[w]].cap # None
    => \A a \in DOMAIN staged[w] : staged[w][a] <= Limit(cur[w])
CapInv == WithinCap /\ StagedWithinCap

(* A policy of a tenant that does not accrue by hand has been credited for no    *)
(* period after the last one that is recorded; the worker accrues a later one.   *)
Fresh(p, start) == lastAccrued[p] = None \/ lastAccrued[p] < start
CreditInv ==
  /\ \A p \in Policies : lastAccrued[p] # None =>
       /\ Policy[p].period \in DOMAIN Begins /\ lastAccrued[p] \in Begins[Policy[p].period]
       /\ \A e \in Paid(p) : Amount(p, e, lastAccrued[p]) > 0 => credits[p][e][lastAccrued[p]] > 0
  /\ \A p \in Policies, e \in Employees, d \in Starts : Policy[p].tenant \notin ByHand =>
       /\ credits[p][e][d] \in {0, 1}
       /\ Fresh(p, d) => credits[p][e][d] = 0
  /\ pc[Worker] = "accrue" /\ tenant[Worker] \notin ByHand
       => Fresh(cur[Worker], PeriodOf(cur[Worker], now[Worker]))

(* The row of a run of the worker is at running until the run ends, and a run    *)
(* has accrued every policy it was given that it has not still to look at.       *)
RunAccrued(p) == lastAccrued[p] # None /\ lastAccrued[p] >= PeriodOf(p, now[Worker])
RowInv ==
  /\ Busy(Worker) => row = "running"
  /\ pc[Worker] = "retain" => row = None
  /\ \A p \in Policies :
       /\ p \in listed /\ Policy[p].tenant \notin ByHand
       /\ PeriodOf(p, now[Worker]) # None /\ (Busy(Worker) \/ row = "completed")
       => \/ RunAccrued(p)
          \/ Busy(Worker) /\ (p \in todo[Worker] \/ (pc[Worker] = "accrue" /\ p = cur[Worker]))

DbTypeOK ==
  /\ today \in Days /\ balance \in [Accounts -> Int \cup {None}] /\ adjusted \subseteq Accounts
  /\ lastAccrued \in [Policies -> Int \cup {None}] /\ credits \in [Policies -> [Employees -> [Starts -> Nat]]]
  /\ lock \in [Accounts -> Processes \cup {None}]
StagedOK(rows) == DOMAIN rows \subseteq Accounts /\ \A a \in DOMAIN rows : rows[a] \in Int
LocalTypeOK ==
  /\ pc \in [Processes -> Labels] /\ now \in [Processes -> Days] /\ tenant \in [Processes -> Tenants \cup {None}]
  /\ todo \in [Processes -> SUBSET Policies] /\ cur \in [Processes -> Policies \cup {None}]
  /\ emps \in [Processes -> SUBSET Employees] /\ DOMAIN staged = Processes
  /\ \A w \in Processes : StagedOK(staged[w])
Statuses == {"running", "completed", "failed", None}
RowTypeOK == row \in Statuses /\ listed \subseteq Policies

(* The runs of the processes other than w stay where they are. *)
Elsewhere(w) ==
  \A q \in Processes \ {w} :
    /\ pc'[q] = pc[q] /\ now'[q] = now[q] /\ tenant'[q] = tenant[q] /\ todo'[q] = todo[q]
    /\ cur'[q] = cur[q] /\ emps'[q] = emps[q] /\ staged'[q] = staged[q]

LEMMA Parts == TInv <=> /\ QueueTypeOK /\ DbTypeOK /\ LocalTypeOK /\ RowTypeOK
                        /\ \A w \in Processes : RunOK(w)
BY DEF TInv, TypeOK, DbTypeOK, LocalTypeOK, StagedOK, Statuses, RowTypeOK

LEMMA WorkerIs == Worker \in Processes /\ \A r \in Requests : r \in Processes /\ r # Worker
BY AccrualAssumption DEF Processes

LEMMA QueueTypes ==
  ASSUME QueueTypeOK
  PROVE  /\ AccrualTick => QueueTypeOK'
         /\ RetentionTick => QueueTypeOK'
         /\ \A type \in JobTypes, job \in Jobs : Enqueue(type, job) => QueueTypeOK'
         /\ \A job \in Jobs : Dequeue(job) => QueueTypeOK'
         /\ Shutdown => QueueTypeOK'
         /\ Restart => QueueTypeOK'
         /\ UNCHANGED queueVars => QueueTypeOK'
<1>1. AccrualTick => QueueTypeOK'
  BY DEF QueueTypeOK, AccrualTick, Jobs
<1>2. RetentionTick => QueueTypeOK'
  <2>1. \A found \in SUBSET Tenants : UNION {RetentionJobsOf(t) : t \in found} \subseteq Jobs
    BY DEF Jobs, RetentionJobs
  <2>2. QED
    BY <2>1 DEF QueueTypeOK, RetentionTick
<1>3. ASSUME NEW type \in JobTypes, NEW job \in Jobs, Enqueue(type, job) PROVE QueueTypeOK'
  <2>1. QueueSize \in Nat
    BY QueueAssumption
  <2>2. queue' \in Seq(Jobs) /\ Len(queue') <= QueueSize
    BY <1>3, <2>1 DEF QueueTypeOK, Enqueue
  <2>3. QED
    BY <1>3, <2>2 DEF QueueTypeOK, Enqueue
<1>4. ASSUME NEW job \in Jobs, Dequeue(job) PROVE QueueTypeOK'
  <2>1. QueueSize \in Nat
    BY QueueAssumption
  <2>2. queue' \in Seq(Jobs) /\ Len(queue') <= QueueSize
    BY <1>4, <2>1 DEF QueueTypeOK, Dequeue
  <2>3. QED
    BY <1>4, <2>2 DEF QueueTypeOK, Dequeue
<1>5. (Shutdown => QueueTypeOK') /\ (Restart => QueueTypeOK')
  <2>1. <<>> \in Seq(Jobs) /\ Len(<<>>) <= QueueSize
    BY QueueAssumption
  <2>2. QED
    BY <2>1 DEF QueueTypeOK, Shutdown, Restart, Dropped
<1>6. UNCHANGED queueVars => QueueTypeOK'
  BY DEF QueueTypeOK, queueVars
<1>7. QED
  BY <1>1, <1>2, <1>3, <1>4, <1>5, <1>6

-----------------------------------------------------------------------------
(* Runs begin and end *)

LEMMA OthersStay ==
  ASSUME TInv, NEW w \in Processes, Elsewhere(w)
  PROVE  \A q \in Processes \ {w} : RunOK(q)'
<1>1. SUFFICES ASSUME NEW q \in Processes \ {w} PROVE RunOK(q)'
  OBVIOUS
<1>2. RunOK(q)
  BY DEF TInv
<1>3. /\ pc'[q] = pc[q] /\ now'[q] = now[q] /\ tenant'[q] = tenant[q] /\ todo'[q] = todo[q]
      /\ cur'[q] = cur[q] /\ emps'[q] = emps[q] /\ staged'[q] = staged[q]
  BY DEF Elsewhere
<1>4. \A p \in Policies : Payees(q, p)' = Payees(q, p)
  BY <1>3 DEF Payees
<1>5. Busy(q)' = Busy(q)
  BY <1>3 DEF Busy
<1>6. pc[q] = "accrue" => Accruing(q)'
  <2>1. SUFFICES ASSUME Accruing(q) PROVE Accruing(q)'
    BY <1>2 DEF RunOK
  <2>2. Payees(q, cur[q])' = Payees(q, cur[q])
    BY <1>3, <1>4, <2>1 DEF Accruing
  <2>3. QED
    BY <1>3, <2>1, <2>2 DEF Accruing
<1>7. QED
  BY <1>2, <1>3, <1>5, <1>6 DEF RunOK

LEMMA BeginMoves ==
  ASSUME TInv, NEW w \in Processes, NEW t \in Tenants, w # Worker => t \in ByHand,
         pc[w] # "accrue", BeginAccruals(w, t)
  PROVE  /\ pc'[w] = "policies" /\ now'[w] = today /\ tenant'[w] = t
         /\ row' = IF w = Worker THEN "running" ELSE row
         /\ listed' = IF w = Worker THEN todo'[w] ELSE listed
         /\ LocalTypeOK' /\ RowTypeOK' /\ Elsewhere(w) /\ RunOK(w)'
<1>1. LocalTypeOK /\ RowTypeOK /\ today \in Days /\ RunOK(w)
  BY Parts DEF DbTypeOK
<1>2. staged' = staged /\ cur' = cur /\ emps' = emps
  BY DEF BeginAccruals
<1>3. PICK list \in SUBSET {p \in Policies : Policy[p].tenant = t} :
        /\ pc' = [pc EXCEPT ![w] = "policies"] /\ now' = [now EXCEPT ![w] = today]
        /\ tenant' = [tenant EXCEPT ![w] = t] /\ todo' = [todo EXCEPT ![w] = list]
        /\ row' = IF w = Worker THEN "running" ELSE row
        /\ listed' = IF w = Worker THEN list ELSE listed
  BY DEF BeginAccruals
<1>4. pc'[w] = "policies" /\ now'[w] = today /\ tenant'[w] = t /\ todo'[w] = list
  BY <1>1, <1>3 DEF LocalTypeOK
<1>5. Elsewhere(w)
  BY <1>1, <1>2, <1>3 DEF Elsewhere, LocalTypeOK
<1>6. LocalTypeOK'
  <2>1. pc' \in [Processes -> Labels]
    BY <1>1, <1>3 DEF LocalTypeOK, Labels
  <2>2. now' \in [Processes -> Days] /\ tenant' \in [Processes -> Tenants \cup {None}]
    BY <1>1, <1>3 DEF LocalTypeOK
  <2>3. todo' \in [Processes -> SUBSET Policies]
    <3>1. list \in SUBSET Policies
      OBVIOUS
    <3>2. QED
      BY <1>1, <1>3, <3>1 DEF LocalTypeOK
  <2>4. QED
    BY <1>1, <1>2, <2>1, <2>2, <2>3 DEF LocalTypeOK
<1>7. RunOK(w)'
  BY <1>1, <1>2, <1>4 DEF RunOK, Busy
<1>8. RowTypeOK'
  BY <1>1, <1>3 DEF RowTypeOK, Statuses
<1>9. QED
  BY <1>3, <1>4, <1>5, <1>6, <1>7, <1>8

LEMMA EndMoves ==
  ASSUME TInv, NEW w \in Processes, NEW status \in Statuses, EndRun(w, status)
  PROVE  /\ pc'[w] = Home(w)
         /\ row' = IF w = Worker /\ row = "running" /\ server = "up" THEN status ELSE row
         /\ w = Worker /\ row' = "completed" => now'[w] = now[w] /\ listed' = listed
         /\ w # Worker => listed' = listed
         /\ LocalTypeOK' /\ RowTypeOK' /\ Elsewhere(w) /\ RunOK(w)'
<1>1. LocalTypeOK /\ RowTypeOK
  BY Parts
<1>2. /\ pc' = [pc EXCEPT ![w] = Home(w)]
      /\ row' = IF w = Worker /\ row = "running" /\ server = "up" THEN status ELSE row
  BY DEF EndRun
<1>3. /\ todo' = [todo EXCEPT ![w] = {}] /\ cur' = [cur EXCEPT ![w] = None]
      /\ emps' = [emps EXCEPT ![w] = {}] /\ staged' = [staged EXCEPT ![w] = << >>]
  BY DEF EndRun, Forget
<1>4. \E n \in Days, t \in Tenants \cup {None} :
        /\ now' = [now EXCEPT ![w] = n] /\ tenant' = [tenant EXCEPT ![w] = t]
        /\ w = Worker /\ row' = "completed" => n = now[w] /\ t = tenant[w]
  <2>1. 0 \in Days /\ now[w] \in Days /\ tenant[w] \in Tenants \cup {None}
    BY <1>1, AccrualAssumption DEF LocalTypeOK, Days
  <2>2. CASE w = Worker /\ row' = "completed"
    <3>1. now' = [now EXCEPT ![w] = now[w]] /\ tenant' = [tenant EXCEPT ![w] = tenant[w]]
      BY <2>2 DEF EndRun, Forget
    <3>2. QED
      BY <2>1, <3>1
  <2>3. CASE ~(w = Worker /\ row' = "completed")
    <3>1. now' = [now EXCEPT ![w] = 0] /\ tenant' = [tenant EXCEPT ![w] = None]
      BY <2>3 DEF EndRun, Forget
    <3>2. QED
      BY <2>1, <2>3, <3>1
  <2>4. QED
    BY <2>2, <2>3
<1>5. PICK n \in Days, t \in Tenants \cup {None} :
        /\ now' = [now EXCEPT ![w] = n] /\ tenant' = [tenant EXCEPT ![w] = t]
        /\ w = Worker /\ row' = "completed" => n = now[w] /\ t = tenant[w]
  BY <1>4
<1>6. /\ pc'[w] = Home(w) /\ staged'[w] = << >> /\ now'[w] = n /\ tenant'[w] = t
  BY <1>1, <1>2, <1>3, <1>5 DEF LocalTypeOK
<1>7. Home(w) \in {"idle", "done"}
  BY DEF Home
<1>8. Elsewhere(w)
  BY <1>1, <1>2, <1>3, <1>5 DEF Elsewhere, LocalTypeOK
<1>9. LocalTypeOK'
  <2>1. pc' \in [Processes -> Labels]
    BY <1>1, <1>2, <1>7 DEF LocalTypeOK, Labels
  <2>2. now' \in [Processes -> Days] /\ tenant' \in [Processes -> Tenants \cup {None}]
    BY <1>1, <1>5 DEF LocalTypeOK
  <2>3. /\ todo' \in [Processes -> SUBSET Policies] /\ cur' \in [Processes -> Policies \cup {None}]
        /\ emps' \in [Processes -> SUBSET Employees]
    BY <1>1, <1>3 DEF LocalTypeOK
  <2>4. DOMAIN staged' = Processes /\ \A q \in Processes : StagedOK(staged[q])'
    BY <1>1, <1>3 DEF LocalTypeOK, StagedOK
  <2>5. QED
    BY <2>1, <2>2, <2>3, <2>4 DEF LocalTypeOK
<1>10. RunOK(w)'
  BY <1>6, <1>7 DEF RunOK, Busy
<1>11. listed' = IF w = Worker /\ row' # "completed" THEN {} ELSE listed
  BY DEF EndRun, Forget
<1>12. RowTypeOK'
  BY <1>1, <1>2, <1>11 DEF RowTypeOK
<1>13. QED
  BY <1>2, <1>5, <1>6, <1>8, <1>9, <1>10, <1>11, <1>12

-----------------------------------------------------------------------------
(* What a policy pays *)

LEMMA PeriodKnown ==
  ASSUME NEW p \in Policies, NEW day \in Days, Policy[p].period \in DOMAIN Begins
  PROVE  /\ PeriodOf(p, day) \in Begins[Policy[p].period] /\ PeriodOf(p, day) \in Int /\ PeriodOf(p, day) # None
         /\ PeriodOf(p, day) \in Starts
         /\ \A e \in Employees : /\ Amount(p, e, day) \in Int /\ Amount(p, e, day) <= Policy[p].rate
                                 /\ Amount(p, e, PeriodOf(p, day)) = Amount(p, e, day)
<1> DEFINE period == Policy[p].period
<1>1. PeriodOf(p, day) = PeriodStart(day, period)
  BY DEF PeriodOf
<1>2. PeriodOf(p, day) \in Begins[period]
  BY <1>1, PeriodBegins
<1>3. PeriodOf(p, day) \in Int /\ PeriodOf(p, day) # None /\ PeriodOf(p, day) \in Starts
  BY <1>2, CalendarAssumption, AccrualAssumption DEF Starts
<1>4. PeriodOf(p, PeriodOf(p, day)) = PeriodOf(p, day)
  BY <1>2, PeriodOfStart DEF PeriodOf
<1>5. \A e \in Employees : Amount(p, e, PeriodOf(p, day)) = Amount(p, e, day)
  BY <1>4 DEF Amount
<1>6. ASSUME NEW e \in Employees PROVE Amount(p, e, day) \in Int /\ Amount(p, e, day) <= Policy[p].rate
  <2>1. Policy[p].rate \in Nat /\ StartOf[e] \in Int
    BY AccrualAssumption
  <2>2. Amount(p, e, day) = Accrual(Policy[p].rate, StartOf[e], PeriodStart(day, period), period)
    BY <1>1 DEF Amount
  <2>3. QED
    BY <2>1, <2>2, AccrualBounded
<1>7. QED
  BY <1>2, <1>3, <1>5, <1>6

LEMMA PeriodUnknown ==
  ASSUME NEW p \in Policies, NEW day \in Days, PeriodOf(p, day) # None
  PROVE  Policy[p].period \in DOMAIN Begins
BY DEF PeriodOf, PeriodStart

LEMMA LimitIs ==
  ASSUME NEW p \in Policies, Policy[p].cap # None
  PROVE  Limit(p) \in Int /\ Policy[p].cap \in Int /\ Policy[p].cap <= Limit(p) /\ Policy[p].rate <= Limit(p)
<1> DEFINE c == Policy[p].cap
           r == Policy[p].rate
<1>1. c \in Int /\ r \in Int
  BY AccrualAssumption
<1> HIDE DEF c, r
<1>2. CASE c <= r
  <2>1. Max({c, r}) = r
    <3>1. {c, r} \in SUBSET Int /\ r \in {c, r} /\ \A d \in {c, r} : d <= r
      BY <1>1, <1>2
    <3>2. QED
      BY <3>1, MaxIs
  <2>2. QED
    BY <1>1, <1>2, <2>1 DEF Limit, c, r
<1>3. CASE r <= c
  <2>1. Max({c, r}) = c
    <3>1. {c, r} \in SUBSET Int /\ c \in {c, r} /\ \A d \in {c, r} : d <= c
      BY <1>1, <1>3
    <3>2. QED
      BY <3>1, MaxIs
  <2>2. QED
    BY <1>1, <1>3, <2>1 DEF Limit, c, r
<1>4. QED
  BY <1>1, <1>2, <1>3

(* An upsert writes a number, within the cap of a policy that has one. *)
LEMMA IncreasedIs ==
  ASSUME TInv, NEW w \in Processes, NEW e \in Employees, pc[w] = "accrue"
  PROVE  /\ Increased(w, e) \in Int /\ Account(cur[w], e) \in Accounts
         /\ Policy[cur[w]].cap # None => Increased(w, e) <= Limit(cur[w])
<1> DEFINE p == cur[w]
           a == Account(p, e)
           amount == Amount(p, e, now[w])
<1>1. p \in Policies /\ Policy[p].period \in DOMAIN Begins
  BY DEF TInv, RunOK, Accruing
<1>2. now[w] \in Days /\ balance \in [Accounts -> Int \cup {None}]
  BY DEF TInv, TypeOK
<1>3. amount \in Int /\ amount <= Policy[p].rate /\ Policy[p].rate \in Nat
  BY <1>1, <1>2, PeriodKnown, AccrualAssumption
<1>4. a \in Accounts
  BY <1>1, AccrualAssumption DEF Account, Accounts
<1>5. balance[a] \in Int \cup {None} /\ Policy[p].cap \in Nat \cup {None} /\ None \notin Int
  BY <1>1, <1>2, <1>4, AccrualAssumption
<1>6. Increased(w, e) = IF balance[a] = None THEN amount ELSE Capped(balance[a] + amount, Policy[p].cap)
  BY DEF Increased
<1>7. Policy[p].cap # None => Limit(p) \in Int /\ Policy[p].cap <= Limit(p) /\ Policy[p].rate <= Limit(p)
  BY <1>1, LimitIs
<1> DEFINE c == Policy[p].cap
           b == balance[a]
           r == Policy[p].rate
           m == Limit(p)
           i == Increased(w, e)
<1>8. /\ amount \in Int /\ amount <= r /\ r \in Nat /\ b \in Int \cup {None} /\ c \in Nat \cup {None}
      /\ i = IF b = None THEN amount ELSE IF c = None \/ b + amount <= c THEN b + amount ELSE c
      /\ c # None => m \in Int /\ c <= m /\ r <= m
  BY <1>3, <1>5, <1>6, <1>7 DEF Capped
<1>9. i \in Int /\ (c # None => i <= m)
  <2> HIDE DEF amount, c, b, r, m, i
  <2>1. QED
    BY <1>8
<1>10. QED
  BY <1>4, <1>9

-----------------------------------------------------------------------------
(* The steps of a run *)

LEMMA CheckDueMoves ==
  ASSUME TInv, NEW w \in Processes, NEW p \in Policies, CheckDue(w, p)
  PROVE  /\ pc[w] = "policies" /\ p \in todo[w] /\ now'[w] = now[w] /\ tenant'[w] = tenant[w]
         /\ todo'[w] = todo[w] \ {p} /\ staged'[w] = staged[w]
         /\ IF Due(w, p) THEN pc'[w] = "accrue" /\ cur'[w] = p ELSE pc'[w] = "policies"
         /\ LocalTypeOK' /\ Elsewhere(w) /\ RunOK(w)'
<1>1. LocalTypeOK /\ RunOK(w) /\ pc[w] = "policies" /\ p \in todo[w]
  BY Parts DEF CheckDue
<1>2. UNCHANGED <<now, tenant, staged>> /\ todo' = [todo EXCEPT ![w] = @ \ {p}]
  BY DEF CheckDue, db
<1>3. todo'[w] = todo[w] \ {p} /\ \A q \in Processes \ {w} : todo'[q] = todo[q]
  BY <1>1, <1>2 DEF LocalTypeOK
<1>4. todo' \in [Processes -> SUBSET Policies]
  BY <1>1, <1>2 DEF LocalTypeOK
<1>5. Policy[p].tenant = tenant[w] /\ staged[w] = << >> /\ tenant[w] \in Tenants /\ (w # Worker => tenant[w] \in ByHand)
  BY <1>1 DEF RunOK, Busy
<1>6. CASE Due(w, p)
  <2>1. /\ pc' = [pc EXCEPT ![w] = "accrue"] /\ cur' = [cur EXCEPT ![w] = p]
        /\ emps' = [emps EXCEPT ![w] = Payees(w, p)]
    BY <1>6 DEF CheckDue
  <2>2. Payees(w, p) \subseteq Employees
    BY DEF Payees
  <2>3. pc'[w] = "accrue" /\ cur'[w] = p /\ emps'[w] = Payees(w, p)
    BY <1>1, <2>1 DEF LocalTypeOK
  <2>4. /\ pc' \in [Processes -> Labels] /\ cur' \in [Processes -> Policies \cup {None}]
        /\ emps' \in [Processes -> SUBSET Employees]
    BY <1>1, <2>1, <2>2 DEF LocalTypeOK, Labels
  <2>5. LocalTypeOK'
    BY <1>1, <1>2, <1>4, <2>4 DEF LocalTypeOK
  <2>6. Elsewhere(w)
    BY <1>1, <1>2, <1>3, <2>1 DEF Elsewhere, LocalTypeOK
  <2>7. Policy[p].period \in DOMAIN Begins
    <3>1. PeriodOf(p, now[w]) # None /\ now[w] \in Days
      BY <1>1, <1>6 DEF Due, LocalTypeOK
    <3>2. QED
      BY <3>1, PeriodUnknown
  <2>8. Payees(w, p)' = Payees(w, p)
    BY <1>2 DEF Payees
  <2>9. Accruing(w)'
    BY <1>2, <1>5, <2>3, <2>7, <2>8 DEF Accruing
  <2>10. RunOK(w)'
    BY <1>1, <1>2, <1>3, <1>5, <2>3, <2>9 DEF RunOK, Busy
  <2>11. QED
    BY <1>1, <1>2, <1>3, <1>6, <2>3, <2>5, <2>6, <2>10
<1>7. CASE ~Due(w, p)
  <2>1. UNCHANGED <<pc, cur, emps>>
    BY <1>7 DEF CheckDue
  <2>2. LocalTypeOK'
    BY <1>1, <1>2, <1>4, <2>1 DEF LocalTypeOK
  <2>3. Elsewhere(w)
    BY <1>1, <1>2, <1>3, <2>1 DEF Elsewhere
  <2>4. RunOK(w)'
    BY <1>1, <1>2, <1>3, <1>5, <2>1 DEF RunOK, Busy
  <2>5. QED
    BY <1>1, <1>2, <1>3, <1>7, <2>1, <2>2, <2>3, <2>4
<1>8. QED
  BY <1>6, <1>7

LEMMA UpsertMoves ==
  ASSUME TInv, NEW w \in Processes, NEW e \in Employees, UpsertBalance(w, e)
  PROVE  /\ pc[w] = "accrue" /\ pc'[w] = "accrue" /\ now'[w] = now[w] /\ tenant'[w] = tenant[w]
         /\ todo'[w] = todo[w] /\ cur'[w] = cur[w]
         /\ DOMAIN staged'[w] = DOMAIN staged[w] \cup {Account(cur[w], e)}
         /\ \A a \in DOMAIN staged'[w] :
              staged'[w][a] = IF a = Account(cur[w], e) THEN Increased(w, e) ELSE staged[w][a]
         /\ LocalTypeOK' /\ Elsewhere(w) /\ RunOK(w)'
<1> DEFINE acc == Account(cur[w], e)
<1>1. LocalTypeOK /\ RunOK(w) /\ pc[w] = "accrue" /\ e \in emps[w]
  BY Parts DEF UpsertBalance
<1>2. UNCHANGED <<now, tenant, todo, cur, pc>> /\ emps' = [emps EXCEPT ![w] = @ \ {e}]
  BY DEF UpsertBalance
<1>3. staged' = [staged EXCEPT ![w] = [b \in DOMAIN @ \cup {acc} |-> IF b = acc THEN Increased(w, e) ELSE @[b]]]
  BY DEF UpsertBalance
<1>4. Increased(w, e) \in Int /\ acc \in Accounts
  BY <1>1, IncreasedIs
<1>5. Accruing(w) /\ cur[w] \in Policies
  BY <1>1 DEF RunOK, Accruing
<1> HIDE DEF acc
<1>6. /\ staged'[w] = [b \in DOMAIN staged[w] \cup {acc} |-> IF b = acc THEN Increased(w, e) ELSE staged[w][b]]
      /\ \A q \in Processes \ {w} : staged'[q] = staged[q]
      /\ DOMAIN staged' = Processes
  BY <1>1, <1>3 DEF LocalTypeOK
<1>7. /\ DOMAIN staged'[w] = DOMAIN staged[w] \cup {acc}
      /\ \A a \in DOMAIN staged'[w] : staged'[w][a] = IF a = acc THEN Increased(w, e) ELSE staged[w][a]
  BY <1>6
<1>8. emps'[w] = emps[w] \ {e} /\ \A q \in Processes \ {w} : emps'[q] = emps[q]
  BY <1>1, <1>2 DEF LocalTypeOK
<1>9. Elsewhere(w)
  BY <1>2, <1>6, <1>8 DEF Elsewhere
<1>10. LocalTypeOK'
  <2>1. \A q \in Processes : StagedOK(staged[q])'
    <3>1. \A q \in Processes \ {w} : StagedOK(staged[q])'
      BY <1>1, <1>6 DEF LocalTypeOK, StagedOK
    <3>2. StagedOK(staged[w])'
      BY <1>1, <1>4, <1>7 DEF LocalTypeOK, StagedOK
    <3>3. QED
      BY <3>1, <3>2
  <2>2. emps' \in [Processes -> SUBSET Employees]
    BY <1>1, <1>2 DEF LocalTypeOK
  <2>3. QED
    BY <1>1, <1>2, <1>6, <2>1, <2>2 DEF LocalTypeOK
<1>11. RunOK(w)'
  <2>1. \A p \in Policies : Payees(w, p)' = Payees(w, p)
    BY <1>2 DEF Payees
  <2>2. acc[1] = Policy[cur[w]].type /\ acc[2] = e /\ TenantOf[e] = tenant[w]
    BY <1>1, <1>5 DEF acc, Account, Accruing, Payees
  <2>3. \A f \in Payees(w, cur[w]) \ emps'[w] : Account(cur[w], f) \in DOMAIN staged'[w]
    BY <1>5, <1>7, <1>8 DEF Accruing, acc
  <2>4. \A a \in DOMAIN staged'[w] : a[1] = Policy[cur[w]].type /\ TenantOf[a[2]] = tenant[w]
    BY <1>5, <1>7, <2>2 DEF Accruing
  <2>5. Accruing(w)'
    BY <1>2, <1>5, <1>8, <2>1, <2>3, <2>4 DEF Accruing
  <2>6. QED
    BY <1>1, <1>2, <2>5 DEF RunOK, Busy
<1>12. QED
  BY <1>1, <1>2, <1>7, <1>9, <1>10, <1>11 DEF acc

(* The period the transaction of a process is for. *)
Period(w) == PeriodOf(cur[w], now[w])

LEMMA PublishMoves ==
  ASSUME TInv, NEW w \in Processes, pc[w] = "accrue", Publish(w)
  PROVE  /\ cur[w] \in Policies /\ Period(w) \in Starts /\ Period(w) \in Int /\ Period(w) # None
         /\ \A a \in Accounts : balance'[a] = IF a \in DOMAIN staged[w] THEN staged[w][a] ELSE balance[a]
         /\ lastAccrued'[cur[w]] = Period(w)
         /\ \A p \in Policies \ {cur[w]} : lastAccrued'[p] = lastAccrued[p] /\ credits'[p] = credits[p]
         /\ \A e \in Employees, d \in Starts : credits'[cur[w]][e][d] =
              IF Account(cur[w], e) \in DOMAIN staged[w] /\ d = Period(w)
                THEN credits[cur[w]][e][d] + 1 ELSE credits[cur[w]][e][d]
         /\ balance' \in [Accounts -> Int \cup {None}]
         /\ lastAccrued' \in [Policies -> Int \cup {None}]
         /\ credits' \in [Policies -> [Employees -> [Starts -> Nat]]]
<1> DEFINE p == cur[w]
           start == Period(w)
           new == [e \in Employees |-> IF Account(p, e) \in DOMAIN staged[w]
                                         THEN [credits[p][e] EXCEPT ![start] = @ + 1] ELSE credits[p][e]]
<1>1. DbTypeOK /\ LocalTypeOK /\ Accruing(w)
  BY Parts DEF RunOK
<1>2. p \in Policies /\ start \in Starts /\ start \in Int /\ start # None
  BY <1>1, PeriodKnown DEF Accruing, LocalTypeOK, Period
<1>3. /\ balance' = [a \in Accounts |-> IF a \in DOMAIN staged[w] THEN staged[w][a] ELSE balance[a]]
      /\ lastAccrued' = [lastAccrued EXCEPT ![p] = start]
      /\ credits' = [credits EXCEPT ![p] = new]
  BY DEF Publish, Period
<1>4. \A a \in Accounts : balance'[a] = IF a \in DOMAIN staged[w] THEN staged[w][a] ELSE balance[a]
  BY <1>3
<1>5. balance' \in [Accounts -> Int \cup {None}]
  BY <1>1, <1>3 DEF DbTypeOK, LocalTypeOK, StagedOK
<1> HIDE DEF p, start
<1>6. /\ lastAccrued'[p] = start /\ \A q \in Policies \ {p} : lastAccrued'[q] = lastAccrued[q]
      /\ lastAccrued' \in [Policies -> Int \cup {None}]
  BY <1>1, <1>2, <1>3 DEF DbTypeOK
<1>7. credits \in [Policies -> [Employees -> [Starts -> Nat]]]
  BY <1>1 DEF DbTypeOK
<1>8. new \in [Employees -> [Starts -> Nat]] /\ \A e \in Employees, d \in Starts :
        new[e][d] = IF Account(p, e) \in DOMAIN staged[w] /\ d = start THEN credits[p][e][d] + 1 ELSE credits[p][e][d]
  <2>1. SUFFICES ASSUME NEW e \in Employees
                 PROVE  new[e] \in [Starts -> Nat] /\ \A d \in Starts : new[e][d] =
                          IF Account(p, e) \in DOMAIN staged[w] /\ d = start THEN credits[p][e][d] + 1 ELSE credits[p][e][d]
    OBVIOUS
  <2>2. credits[p][e] \in [Starts -> Nat]
    BY <1>2, <1>7
  <2>3. new[e] = IF Account(p, e) \in DOMAIN staged[w] THEN [credits[p][e] EXCEPT ![start] = @ + 1] ELSE credits[p][e]
    OBVIOUS
  <2> HIDE DEF new
  <2>4. QED
    BY <1>2, <2>2, <2>3
<1> HIDE DEF new
<1>9. credits'[p] = new /\ \A q \in Policies \ {p} : credits'[q] = credits[q]
  BY <1>2, <1>3, <1>7
<1>10. credits' \in [Policies -> [Employees -> [Starts -> Nat]]]
  BY <1>3, <1>7, <1>8
<1>11. QED
  BY <1>2, <1>4, <1>5, <1>6, <1>8, <1>9, <1>10 DEF p, start

LEMMA UnlockTypes ==
  ASSUME TInv, NEW w \in Processes, Unlock(w)
  PROVE  lock' \in [Accounts -> Processes \cup {None}]
BY DEF TInv, TypeOK, Unlock

LEMMA CommitMoves ==
  ASSUME TInv, NEW w \in Processes, Commit(w)
  PROVE  /\ pc[w] = "accrue" /\ pc'[w] = "policies" /\ now'[w] = now[w] /\ tenant'[w] = tenant[w]
         /\ todo'[w] = todo[w] /\ LocalTypeOK' /\ Elsewhere(w) /\ RunOK(w)'
<1>1. LocalTypeOK /\ RunOK(w) /\ pc[w] = "accrue"
  BY Parts DEF Commit
<1>2. /\ UNCHANGED <<now, tenant, todo, emps>> /\ pc' = [pc EXCEPT ![w] = "policies"]
      /\ cur' = [cur EXCEPT ![w] = None] /\ staged' = [staged EXCEPT ![w] = << >>]
  BY DEF Commit
<1>3. /\ pc'[w] = "policies" /\ staged'[w] = << >> /\ DOMAIN staged' = Processes
      /\ \A q \in Processes \ {w} : pc'[q] = pc[q] /\ cur'[q] = cur[q] /\ staged'[q] = staged[q]
  BY <1>1, <1>2 DEF LocalTypeOK
<1>4. Elsewhere(w)
  BY <1>2, <1>3 DEF Elsewhere
<1>5. LocalTypeOK'
  <2>1. pc' \in [Processes -> Labels] /\ cur' \in [Processes -> Policies \cup {None}]
    BY <1>1, <1>2 DEF LocalTypeOK, Labels
  <2>2. \A q \in Processes : StagedOK(staged[q])'
    BY <1>1, <1>3 DEF LocalTypeOK, StagedOK
  <2>3. QED
    BY <1>1, <1>2, <1>3, <2>1, <2>2 DEF LocalTypeOK
<1>6. RunOK(w)'
  BY <1>1, <1>2, <1>3 DEF RunOK, Busy
<1>7. QED
  BY <1>1, <1>2, <1>3, <1>4, <1>5, <1>6

(* Every process stops where it is. *)
LEMMA RestartMoves ==
  ASSUME TInv, ServerRestart
  PROVE  /\ LocalTypeOK' /\ \A w \in Processes : RunOK(w)'
         /\ \A w \in Processes : pc'[w] \in {"new", "idle", "done"}
<1>1. LocalTypeOK
  BY Parts
<1>2. /\ pc' = [w \in Processes |-> IF pc[w] = "new" THEN "new" ELSE Home(w)]
      /\ todo' = [w \in Processes |-> {}] /\ cur' = [w \in Processes |-> None]
      /\ emps' = [w \in Processes |-> {}] /\ staged' = [w \in Processes |-> << >>]
      /\ UNCHANGED <<now, tenant>>
  BY DEF ServerRestart
<1>3. \A w \in Processes : pc'[w] \in {"new", "idle", "done"} /\ staged'[w] = << >>
  BY <1>2 DEF Home
<1>4. pc' \in [Processes -> Labels]
  BY <1>2 DEF Home, Labels
<1>5. \A w \in Processes : StagedOK(staged[w])'
  BY <1>3 DEF StagedOK
<1>6. LocalTypeOK'
  BY <1>1, <1>2, <1>4, <1>5 DEF LocalTypeOK
<1>7. \A w \in Processes : RunOK(w)'
  BY <1>3 DEF RunOK, Busy
<1>8. QED
  BY <1>3, <1>6, <1>7

(* A process begins accruals, the worker begins a retention. *)
Starting(w, t) == /\ (w # Worker => t \in ByHand) /\ ~Busy(w) /\ BeginAccruals(w, t)
                  /\ (UNCHANGED queueVars \/ \E job \in Jobs : Dequeue(job))
Retaining ==
  /\ pc[Worker] = "idle" /\ pc' = [pc EXCEPT ![Worker] = "retain"] /\ row' = None /\ listed' = {}
  /\ tenant' = [tenant EXCEPT ![Worker] = None] /\ now' = [now EXCEPT ![Worker] = 0]
  /\ UNCHANGED <<db, todo, cur, emps, staged>>
  /\ \E job \in Jobs : Dequeue(job)

LEMMA JobTenants == \A job \in AccrualJobs : job.type = JobLeaveAccrual /\ job.tenant \in Tenants
BY DEF AccrualJobs

LEMMA RetentionTypes == \A job \in RetentionJobs : job.type = JobRetention
BY DEF RetentionJobs, RetentionJobsOf

LEMMA JobTypesDiffer == JobLeaveAccrual # JobRetention
BY DEF JobLeaveAccrual, JobRetention

(* What may happen in a step. *)
LEMMA NextCases ==
  ASSUME TInv, [Next]_vars
  PROVE  \/ UNCHANGED <<db, locals, pc, row, listed>> /\ QueueTypeOK'
         \/ \E w \in Processes, t \in Tenants : Starting(w, t)
         \/ Retaining \/ Retain \/ ServerRestart \/ NextDay
         \/ \E r \in Requests, a \in Accounts, n \in Adjustments : AdjustBalance(r, a, n)
         \/ \E w \in Processes, p \in Policies : CheckDue(w, p)
         \/ \E w \in Processes, e \in Employees : UpsertBalance(w, e)
         \/ \E w \in Processes : Commit(w) \/ Complete(w) \/ Fail(w) \/ FailAfterCommit(w)
<1>1. QueueTypeOK
  BY DEF TInv, TypeOK
<1>2. CASE QueueStep
  BY <1>1, <1>2, QueueTypes DEF QueueStep
<1>3. CASE UNCHANGED vars
  BY <1>1, <1>3, QueueTypes DEF vars
<1>4. CASE Work
  <2>1. PICK job \in Jobs : Dequeue(job)
          /\ (\/ job.type = JobLeaveAccrual /\ BeginAccruals(Worker, job.tenant)
              \/ job.type = JobRetention /\ Retaining)
    BY <1>4 DEF Work, Retaining
  <2>2. CASE job.type = JobLeaveAccrual /\ BeginAccruals(Worker, job.tenant)
    <3>1. job.tenant \in Tenants
      BY <2>2, JobTenants, RetentionTypes, JobTypesDiffer DEF Jobs
    <3>2. pc[Worker] = "idle"
      BY <1>4 DEF Work
    <3>3. Starting(Worker, job.tenant)
      BY <2>1, <2>2, <3>1, <3>2 DEF Starting, Busy, Dequeue
    <3>4. QED
      BY <3>1, <3>3, WorkerIs
  <2>3. QED
    BY <2>1, <2>2
<1>5. ASSUME NEW r \in Requests, NEW t \in ByHand, HandleRunAccruals(r, t)
      PROVE  \E w \in Processes, u \in Tenants : Starting(w, u)
  <2>1. r \in Processes /\ r # Worker /\ t \in Tenants
    BY WorkerIs, AccrualAssumption
  <2>2. Starting(r, t)
    BY <1>5, <2>1 DEF HandleRunAccruals, Starting, Busy, queueVars
  <2>3. QED
    BY <2>1, <2>2
<1>6. ASSUME NEW w \in Processes, Step(w)
      PROVE  \/ \E p \in Policies : CheckDue(w, p)
             \/ \E e \in Employees : UpsertBalance(w, e)
             \/ Commit(w) \/ Complete(w)
  BY <1>6 DEF Step
<1>7. QED
  BY <1>2, <1>3, <1>4, <1>5, <1>6 DEF Next

LEMMA RetainingMoves ==
  ASSUME TInv, Retaining
  PROVE  LocalTypeOK' /\ Elsewhere(Worker) /\ RunOK(Worker)' /\ pc'[Worker] = "retain" /\ tenant'[Worker] = None
<1>1. LocalTypeOK /\ RunOK(Worker) /\ Worker \in Processes /\ pc[Worker] = "idle"
  BY Parts, WorkerIs DEF Retaining
<1>2. /\ pc' = [pc EXCEPT ![Worker] = "retain"] /\ tenant' = [tenant EXCEPT ![Worker] = None]
      /\ now' = [now EXCEPT ![Worker] = 0] /\ UNCHANGED <<todo, cur, emps, staged>>
  BY DEF Retaining
<1>3. 0 \in Days
  BY AccrualAssumption DEF Days
<1>4. LocalTypeOK'
  BY <1>1, <1>2, <1>3 DEF LocalTypeOK, Labels
<1>5. Elsewhere(Worker)
  BY <1>1, <1>2 DEF Elsewhere, LocalTypeOK
<1>6. pc'[Worker] = "retain" /\ staged'[Worker] = << >> /\ tenant'[Worker] = None
  BY <1>1, <1>2 DEF LocalTypeOK, RunOK
<1>7. QED
  BY <1>4, <1>5, <1>6 DEF RunOK, Busy

LEMMA AdjustMoves ==
  ASSUME TInv, NEW r \in Requests, NEW a \in Accounts, NEW n \in Adjustments, AdjustBalance(r, a, n)
  PROVE  /\ LocalTypeOK' /\ RunOK(r)' /\ Elsewhere(r) /\ pc[r] = "new" /\ pc'[r] = "done"
         /\ adjusted' = adjusted \cup {a} /\ \A b \in Accounts \ {a} : balance'[b] = balance[b]
         /\ balance' \in [Accounts -> Int \cup {None}]
<1>1. LocalTypeOK /\ DbTypeOK /\ RunOK(r) /\ r \in Processes
  BY Parts, WorkerIs
<1>2. /\ pc[r] = "new" /\ pc' = [pc EXCEPT ![r] = "done"] /\ UNCHANGED <<now, tenant, todo, cur, emps, staged>>
      /\ balance' = [balance EXCEPT ![a] = Adjusted(a, n)] /\ adjusted' = adjusted \cup {a}
  BY DEF AdjustBalance, locals
<1>3. Adjusted(a, n) \in Int
  BY <1>1, AccrualAssumption DEF Adjusted, DbTypeOK
<1>4. balance' \in [Accounts -> Int \cup {None}] /\ \A b \in Accounts \ {a} : balance'[b] = balance[b]
  BY <1>1, <1>2, <1>3 DEF DbTypeOK
<1>5. pc'[r] = "done" /\ \A q \in Processes \ {r} : pc'[q] = pc[q]
  BY <1>1, <1>2 DEF LocalTypeOK
<1>6. LocalTypeOK'
  BY <1>1, <1>2 DEF LocalTypeOK, Labels
<1>7. RunOK(r)'
  BY <1>1, <1>2, <1>5 DEF RunOK, Busy
<1>8. QED
  BY <1>2, <1>4, <1>5, <1>6, <1>7 DEF Elsewhere

LEMMA ProcessTypes ==
  ASSUME TInv, QueueTypeOK', DbTypeOK', RowTypeOK', LocalTypeOK',
         NEW w \in Processes, RunOK(w)', Elsewhere(w)
  PROVE  TInv'
<1>1. \A q \in Processes : RunOK(q)'
  BY OthersStay
<1>2. QED
  BY <1>1, Parts DEF TInv, TypeOK, DbTypeOK, LocalTypeOK, StagedOK, Statuses, RowTypeOK

LEMMA TypeStep ==
  ASSUME TInv, [Next]_vars
  PROVE  TInv'
<1>1. QueueTypeOK /\ DbTypeOK /\ LocalTypeOK /\ RowTypeOK /\ \A w \in Processes : RunOK(w)
  BY Parts
<1>2. UNCHANGED db => DbTypeOK'
  BY <1>1 DEF DbTypeOK, db
<1>3. UNCHANGED queueVars => QueueTypeOK'
  BY <1>1, QueueTypes
<1>4. \A job \in Jobs : Dequeue(job) => QueueTypeOK'
  BY <1>1, QueueTypes
<1>5. "completed" \in Statuses /\ "failed" \in Statuses /\ "running" \in Statuses /\ None \in Statuses
  BY DEF Statuses
<1>6. CASE UNCHANGED <<db, locals, pc, row, listed>> /\ QueueTypeOK'
  <2>1. LocalTypeOK' /\ DbTypeOK' /\ RowTypeOK'
    BY <1>1, <1>2, <1>6 DEF LocalTypeOK, StagedOK, RowTypeOK, locals
  <2>2. Elsewhere(Worker)
    BY <1>6 DEF Elsewhere, locals
  <2>3. Busy(Worker)' = Busy(Worker) /\ (\A p \in Policies : Payees(Worker, p)' = Payees(Worker, p))
    BY <1>6 DEF Busy, Payees, locals
  <2>4. Accruing(Worker) => Accruing(Worker)'
    BY <1>6, <2>3 DEF Accruing, locals
  <2>5. RunOK(Worker)'
    BY <1>1, <1>6, <2>3, <2>4, WorkerIs DEF RunOK, locals
  <2>6. QED
    BY <1>6, <2>1, <2>2, <2>5, WorkerIs, ProcessTypes
<1>7. ASSUME NEW w \in Processes, NEW t \in Tenants, Starting(w, t) PROVE TInv'
  <2>1. LocalTypeOK' /\ RowTypeOK' /\ Elsewhere(w) /\ RunOK(w)'
    BY <1>7, BeginMoves DEF Starting, Busy
  <2>2. QueueTypeOK'
    BY <1>3, <1>4, <1>7 DEF Starting
  <2>3. DbTypeOK'
    BY <1>2, <1>7 DEF Starting, BeginAccruals, db
  <2>4. QED
    BY <2>1, <2>2, <2>3, ProcessTypes
<1>8. CASE Retaining
  <2>1. LocalTypeOK' /\ Elsewhere(Worker) /\ RunOK(Worker)'
    BY <1>8, RetainingMoves
  <2>2. DbTypeOK' /\ RowTypeOK' /\ QueueTypeOK'
    BY <1>2, <1>4, <1>5, <1>8 DEF Retaining, RowTypeOK, db
  <2>3. QED
    BY <2>1, <2>2, WorkerIs, ProcessTypes
<1>9. CASE Retain
  <2>1. EndRun(Worker, "completed") /\ UNCHANGED <<queueVars, db>>
    BY <1>9 DEF Retain
  <2>2. LocalTypeOK' /\ RowTypeOK' /\ Elsewhere(Worker) /\ RunOK(Worker)'
    BY <1>5, <2>1, WorkerIs, EndMoves
  <2>3. QED
    BY <1>2, <1>3, <2>1, <2>2, WorkerIs, ProcessTypes
<1>10. CASE ServerRestart
  <2>1. LocalTypeOK' /\ \A w \in Processes : RunOK(w)'
    BY <1>10, RestartMoves
  <2>2. QueueTypeOK' /\ RowTypeOK'
    BY <1>1, <1>10, QueueTypes DEF RowTypeOK, ServerRestart
  <2>3. DbTypeOK'
    BY <1>1, <1>10 DEF DbTypeOK, ServerRestart
  <2>4. QED
    BY <2>1, <2>2, <2>3 DEF TInv, TypeOK, DbTypeOK, LocalTypeOK, StagedOK, Statuses, RowTypeOK
<1>11. CASE NextDay
  <2>1. today' \in Days
    BY <1>1, <1>11, AccrualAssumption DEF DbTypeOK, NextDay, Days
  <2>2. DbTypeOK'
    BY <1>1, <1>11, <2>1 DEF DbTypeOK, NextDay
  <2>3. LocalTypeOK' /\ RowTypeOK' /\ QueueTypeOK'
    BY <1>1, <1>3, <1>11 DEF LocalTypeOK, StagedOK, RowTypeOK, NextDay, locals
  <2>4. Elsewhere(Worker)
    BY <1>11 DEF Elsewhere, NextDay, locals
  <2>5. Busy(Worker)' = Busy(Worker) /\ (\A p \in Policies : Payees(Worker, p)' = Payees(Worker, p))
    BY <1>11 DEF Busy, Payees, NextDay, locals
  <2>6. Accruing(Worker) => Accruing(Worker)'
    BY <1>11, <2>5 DEF Accruing, NextDay, locals
  <2>7. RunOK(Worker)'
    BY <1>1, <1>11, <2>5, <2>6, WorkerIs DEF RunOK, NextDay, locals
  <2>8. QED
    BY <2>2, <2>3, <2>4, <2>7, WorkerIs, ProcessTypes
<1>12. ASSUME NEW r \in Requests, NEW a \in Accounts, NEW n \in Adjustments, AdjustBalance(r, a, n) PROVE TInv'
  <2>1. LocalTypeOK' /\ RunOK(r)' /\ Elsewhere(r) /\ adjusted' = adjusted \cup {a} /\ balance' \in [Accounts -> Int \cup {None}]
    BY <1>12, AdjustMoves
  <2>2. UNCHANGED <<queueVars, today, lastAccrued, credits, lock, row, listed>>
    BY <1>12 DEF AdjustBalance
  <2>3. DbTypeOK'
    BY <1>1, <2>1, <2>2 DEF DbTypeOK
  <2>4. QED
    BY <1>1, <1>3, <2>1, <2>2, <2>3, WorkerIs, ProcessTypes DEF RowTypeOK
<1>13. ASSUME NEW w \in Processes, NEW p \in Policies, CheckDue(w, p) PROVE TInv'
  <2>1. LocalTypeOK' /\ Elsewhere(w) /\ RunOK(w)'
    BY <1>13, CheckDueMoves
  <2>2. UNCHANGED <<queueVars, db, row, listed>>
    BY <1>13 DEF CheckDue
  <2>3. QED
    BY <1>1, <1>2, <1>3, <2>1, <2>2, ProcessTypes DEF RowTypeOK
<1>14. ASSUME NEW w \in Processes, NEW e \in Employees, UpsertBalance(w, e) PROVE TInv'
  <2>1. LocalTypeOK' /\ Elsewhere(w) /\ RunOK(w)'
    BY <1>14, UpsertMoves
  <2>2. UNCHANGED <<queueVars, today, balance, adjusted, lastAccrued, credits, row, listed>>
    BY <1>14 DEF UpsertBalance
  <2>3. lock' = [lock EXCEPT ![Account(cur[w], e)] = w]
    BY <1>14 DEF UpsertBalance
  <2>4. DbTypeOK'
    BY <1>1, <2>2, <2>3 DEF DbTypeOK
  <2>5. QED
    BY <1>1, <1>3, <2>1, <2>2, <2>4, ProcessTypes DEF RowTypeOK
<1>15. ASSUME NEW w \in Processes, Commit(w) PROVE TInv'
  <2>1. LocalTypeOK' /\ Elsewhere(w) /\ RunOK(w)'
    BY <1>15, CommitMoves
  <2>2. pc[w] = "accrue" /\ Publish(w) /\ Unlock(w) /\ UNCHANGED <<queueVars, today, adjusted, row, listed>>
    BY <1>15 DEF Commit
  <2>3. DbTypeOK'
    BY <1>1, <2>2, PublishMoves, UnlockTypes DEF DbTypeOK
  <2>4. QED
    BY <1>1, <1>3, <2>1, <2>2, <2>3, ProcessTypes DEF RowTypeOK
<1>16. ASSUME NEW w \in Processes, Complete(w) PROVE TInv'
  <2>1. EndRun(w, "completed") /\ UNCHANGED <<queueVars, db>>
    BY <1>16 DEF Complete
  <2>2. LocalTypeOK' /\ RowTypeOK' /\ Elsewhere(w) /\ RunOK(w)'
    BY <1>5, <2>1, EndMoves
  <2>3. QED
    BY <1>2, <1>3, <2>1, <2>2, ProcessTypes
<1>17. ASSUME NEW w \in Processes, Fail(w) PROVE TInv'
  <2>1. EndRun(w, "failed") /\ RollBack(w) /\ Unlock(w) /\ UNCHANGED queueVars
    BY <1>17 DEF Fail
  <2>2. LocalTypeOK' /\ RowTypeOK' /\ Elsewhere(w) /\ RunOK(w)'
    BY <1>5, <2>1, EndMoves
  <2>3. DbTypeOK'
    BY <1>1, <2>1, UnlockTypes DEF DbTypeOK, RollBack
  <2>4. QED
    BY <1>3, <2>1, <2>2, <2>3, ProcessTypes
<1>18. ASSUME NEW w \in Processes, FailAfterCommit(w) PROVE TInv'
  <2>1. EndRun(w, "failed") /\ pc[w] = "accrue" /\ Publish(w) /\ Unlock(w) /\ UNCHANGED <<queueVars, today, adjusted>>
    BY <1>18 DEF FailAfterCommit
  <2>2. LocalTypeOK' /\ RowTypeOK' /\ Elsewhere(w) /\ RunOK(w)'
    BY <1>5, <2>1, EndMoves
  <2>3. DbTypeOK'
    BY <1>1, <2>1, PublishMoves, UnlockTypes DEF DbTypeOK
  <2>4. QED
    BY <1>3, <2>1, <2>2, <2>3, ProcessTypes
<1>19. QED
  BY <1>6, <1>7, <1>8, <1>9, <1>10, <1>11, <1>12, <1>13, <1>14, <1>15, <1>16, <1>17, <1>18, NextCases

LEMMA TypeInit == Init => TInv
<1>1. SUFFICES ASSUME Init PROVE TInv
  OBVIOUS
<1>2. QueueTypeOK
  <2>1. <<>> \in Seq(Jobs) /\ Len(<<>>) <= QueueSize
    BY QueueAssumption
  <2>2. QED
    BY <1>1, <2>1 DEF Init, QueueInit, QueueTypeOK
<1>3. 0 \in Days
  BY AccrualAssumption DEF Days
<1>4. DbTypeOK
  BY <1>1, <1>3 DEF Init, DbTypeOK
<1>5. LocalTypeOK
  <2>1. \A w \in Processes : StagedOK(staged[w]) /\ Start(w) \in Labels
    BY <1>1 DEF Init, StagedOK, Start, Labels
  <2>2. QED
    BY <1>1, <1>3, <2>1 DEF Init, LocalTypeOK
<1>6. \A w \in Processes : RunOK(w)
  BY <1>1 DEF Init, RunOK, Busy, Start
<1>7. RowTypeOK
  BY <1>1 DEF Init, RowTypeOK, Statuses
<1>8. QED
  BY <1>2, <1>4, <1>5, <1>6, <1>7, Parts

LEMMA Typed == Spec => []TInv
<1>1. TInv /\ [Next]_vars => TInv'
  BY TypeStep
<1>2. QED
  BY <1>1, TypeInit, PTL DEF Spec

(* Balances, queue, locks and every process's run keep their types (store.go,     *)
(* service.go): in particular no accrual is made for a policy whose period is not *)
(* known, and every amount that is written is a number.                           *)
THEOREM TypeCorrect == Spec => []TypeOK
<1>1. TInv => TypeOK
  BY DEF TInv
<1>2. QED
  BY <1>1, Typed, PTL

-----------------------------------------------------------------------------
(* What happens to the data *)

(* The commit of a transaction, with or without its answer. *)
Publishing(w) == pc[w] = "accrue" /\ emps[w] = {} /\ Publish(w) /\ UNCHANGED adjusted /\ pc'[w] # "accrue"

LEMMA DataCases ==
  ASSUME TInv, [Next]_vars
  PROVE  \/ UNCHANGED <<balance, adjusted, lastAccrued, credits>>
         \/ \E r \in Requests, a \in Accounts, n \in Adjustments :
              AdjustBalance(r, a, n) /\ UNCHANGED <<lastAccrued, credits>>
         \/ \E w \in Processes : Publishing(w)
<1>1. ASSUME NEW w \in Processes, Commit(w) \/ FailAfterCommit(w) PROVE Publishing(w)
  <2>1. pc[w] = "accrue" /\ emps[w] = {} /\ Publish(w) /\ UNCHANGED adjusted
    BY <1>1 DEF Commit, FailAfterCommit
  <2>2. CASE Commit(w)
    BY <2>1, <2>2, CommitMoves DEF Publishing
  <2>3. CASE FailAfterCommit(w)
    <3>1. EndRun(w, "failed") /\ "failed" \in Statuses
      BY <2>3 DEF FailAfterCommit, Statuses
    <3>2. pc'[w] # "accrue"
      BY <3>1, EndMoves DEF Home
    <3>3. QED
      BY <2>1, <3>2 DEF Publishing
  <2>4. QED
    BY <1>1, <2>2, <2>3
<1>2. CASE UNCHANGED db
  BY <1>2 DEF db
<1>3. ASSUME NEW w \in Processes, Complete(w) \/ Fail(w) PROVE UNCHANGED <<balance, adjusted, lastAccrued, credits>>
  BY <1>3 DEF Complete, Fail, RollBack, db
<1>4. ASSUME NEW w \in Processes, NEW e \in Employees, UpsertBalance(w, e)
      PROVE  UNCHANGED <<balance, adjusted, lastAccrued, credits>>
  BY <1>4 DEF UpsertBalance
<1>5. ASSUME NEW w \in Processes, NEW p \in Policies, CheckDue(w, p) PROVE UNCHANGED db
  BY <1>5 DEF CheckDue
<1>6. ASSUME NEW w \in Processes, NEW t \in Tenants, Starting(w, t) PROVE UNCHANGED db
  BY <1>6 DEF Starting, BeginAccruals
<1>7. ServerRestart \/ NextDay => UNCHANGED <<balance, adjusted, lastAccrued, credits>>
  BY DEF ServerRestart, NextDay
<1>8. Retain \/ Retaining => UNCHANGED db
  BY DEF Retain, Retaining
<1>9. ASSUME NEW r \in Requests, NEW a \in Accounts, NEW n \in Adjustments, AdjustBalance(r, a, n)
      PROVE  UNCHANGED <<lastAccrued, credits>>
  BY <1>9 DEF AdjustBalance
<1>10. QED
  BY <1>1, <1>2, <1>3, <1>4, <1>5, <1>6, <1>7, <1>8, <1>9, NextCases DEF db

(* How a process comes to be in a transaction. *)
LEMMA TransactionCases ==
  ASSUME TInv, [Next]_vars, NEW q \in Processes, pc'[q] = "accrue"
  PROVE  /\ now'[q] = now[q] /\ tenant'[q] = tenant[q]
         /\ \/ /\ pc[q] = "accrue" /\ cur'[q] = cur[q]
               /\ staged'[q] = staged[q] \/ \E e \in Employees : UpsertBalance(q, e)
            \/ \E p \in todo[q] : CheckDue(q, p) /\ Due(q, p) /\ cur'[q] = p /\ staged'[q] = << >>
<1>1. CASE UNCHANGED <<locals, pc>>
  BY <1>1 DEF locals
<1>2. ASSUME NEW w \in Processes, Elsewhere(w), pc'[w] # "accrue"
      PROVE  pc[q] = "accrue" /\ UNCHANGED <<now[q], tenant[q], cur[q], staged[q]>>
  BY <1>2 DEF Elsewhere
<1>3. ASSUME NEW w \in Processes, NEW t \in Tenants, Starting(w, t) PROVE Elsewhere(w) /\ pc'[w] # "accrue"
  BY <1>3, BeginMoves DEF Starting, Busy
<1>4. Retaining => Elsewhere(Worker) /\ pc'[Worker] # "accrue"
  BY RetainingMoves
<1>5. ASSUME NEW w \in Processes, NEW status \in Statuses, EndRun(w, status) PROVE Elsewhere(w) /\ pc'[w] # "accrue"
  BY <1>5, EndMoves DEF Home
<1>6. "completed" \in Statuses /\ "failed" \in Statuses
  BY DEF Statuses
<1>7. Retain => EndRun(Worker, "completed")
  BY DEF Retain
<1>8. ASSUME NEW w \in Processes
      PROVE  /\ Complete(w) => EndRun(w, "completed")
             /\ Fail(w) \/ FailAfterCommit(w) => EndRun(w, "failed")
  BY DEF Complete, Fail, FailAfterCommit
<1>9. ~ServerRestart
  BY RestartMoves
<1>10. NextDay => UNCHANGED <<locals, pc>>
  BY DEF NextDay
<1>11. ASSUME NEW r \in Requests, NEW a \in Accounts, NEW n \in Adjustments, AdjustBalance(r, a, n)
       PROVE  r \in Processes /\ Elsewhere(r) /\ pc'[r] # "accrue"
  BY <1>11, AdjustMoves, WorkerIs
<1>12. ASSUME NEW w \in Processes, Commit(w) PROVE Elsewhere(w) /\ pc'[w] # "accrue"
  BY <1>12, CommitMoves
<1>13. ASSUME NEW w \in Processes, NEW p \in Policies, CheckDue(w, p)
       PROVE  /\ now'[q] = now[q] /\ tenant'[q] = tenant[q]
              /\ \/ pc[q] = "accrue" /\ cur'[q] = cur[q] /\ staged'[q] = staged[q]
                 \/ p \in todo[q] /\ CheckDue(q, p) /\ Due(q, p) /\ cur'[q] = p /\ staged'[q] = << >>
  <2>1. /\ pc[w] = "policies" /\ p \in todo[w] /\ now'[w] = now[w] /\ tenant'[w] = tenant[w] /\ staged'[w] = staged[w]
        /\ IF Due(w, p) THEN pc'[w] = "accrue" /\ cur'[w] = p ELSE pc'[w] = "policies"
        /\ Elsewhere(w)
    BY <1>13, CheckDueMoves
  <2>2. staged[w] = << >>
    BY <2>1 DEF TInv, RunOK
  <2>3. CASE q = w
    BY <1>13, <2>1, <2>2, <2>3
  <2>4. CASE q # w
    BY <2>1, <2>4 DEF Elsewhere
  <2>5. QED
    BY <2>3, <2>4
<1>14. ASSUME NEW w \in Processes, NEW e \in Employees, UpsertBalance(w, e)
       PROVE  /\ pc[q] = "accrue" /\ cur'[q] = cur[q] /\ now'[q] = now[q] /\ tenant'[q] = tenant[q]
              /\ staged'[q] = staged[q] \/ UpsertBalance(q, e)
  <2>1. /\ pc[w] = "accrue" /\ now'[w] = now[w] /\ tenant'[w] = tenant[w] /\ cur'[w] = cur[w] /\ Elsewhere(w)
    BY <1>14, UpsertMoves
  <2>2. CASE q = w
    BY <1>14, <2>1, <2>2
  <2>3. CASE q # w
    BY <2>1, <2>3 DEF Elsewhere
  <2>4. QED
    BY <2>2, <2>3
<1>15. QED
  BY <1>1, <1>2, <1>3, <1>4, <1>5, <1>6, <1>7, <1>8, <1>9, <1>10, <1>11, <1>12, <1>13, <1>14, WorkerIs, NextCases

-----------------------------------------------------------------------------
(* Caps *)

LEMMA CapStep ==
  ASSUME TInv, CapInv, [Next]_vars
  PROVE  CapInv'
<1>1. TInv'
  BY TypeStep
<1>2. StagedWithinCap'
  <2>1. SUFFICES ASSUME NEW w \in Processes, pc'[w] = "accrue", Policy[cur'[w]].cap # None, NEW a \in DOMAIN staged'[w]
                 PROVE  staged'[w][a] <= Limit(cur'[w])
    BY DEF StagedWithinCap, Limit
  <2>2. CASE pc[w] = "accrue" /\ cur'[w] = cur[w] /\ staged'[w] = staged[w]
    BY <2>1, <2>2 DEF CapInv, StagedWithinCap
  <2>3. ASSUME NEW e \in Employees, UpsertBalance(w, e), cur'[w] = cur[w] PROVE staged'[w][a] <= Limit(cur'[w])
    <3>1. /\ pc[w] = "accrue"
          /\ DOMAIN staged'[w] = DOMAIN staged[w] \cup {Account(cur[w], e)}
          /\ staged'[w][a] = IF a = Account(cur[w], e) THEN Increased(w, e) ELSE staged[w][a]
      BY <2>3, UpsertMoves
    <3>2. CASE a = Account(cur[w], e)
      BY <2>1, <2>3, <3>1, <3>2, IncreasedIs
    <3>3. CASE a # Account(cur[w], e)
      BY <2>1, <2>3, <3>1, <3>3 DEF CapInv, StagedWithinCap
    <3>4. QED
      BY <3>2, <3>3
  <2>4. CASE staged'[w] = << >>
    BY <2>4
  <2>5. QED
    BY <2>1, <2>2, <2>3, <2>4, TransactionCases
<1>3. WithinCap'
  <2> DEFINE paying(a) == {p \in Policies : Policy[p].type = a[1] /\ Policy[p].tenant = TenantOf[a[2]]}
  <2>1. SUFFICES ASSUME NEW a \in Accounts \ adjusted', balance'[a] # None, \A p \in paying(a) : Policy[p].cap # None
                 PROVE  \E p \in paying(a) : balance'[a] <= Limit(p)
    BY DEF WithinCap, Limit
  <2>2. ASSUME balance'[a] = balance[a], a \notin adjusted
        PROVE  \E p \in paying(a) : balance'[a] <= Limit(p)
    BY <2>1, <2>2 DEF CapInv, WithinCap, Limit
  <2>3. CASE UNCHANGED <<balance, adjusted>>
    BY <2>1, <2>2, <2>3
  <2>4. ASSUME NEW r \in Requests, NEW b \in Accounts, NEW n \in Adjustments, AdjustBalance(r, b, n)
        PROVE  \E p \in paying(a) : balance'[a] <= Limit(p)
    <3>1. a # b /\ a \notin adjusted /\ balance'[a] = balance[a]
      BY <2>1, <2>4, AdjustMoves
    <3>2. QED
      BY <2>2, <3>1
  <2>5. ASSUME NEW w \in Processes, Publishing(w)
        PROVE  \E p \in paying(a) : balance'[a] <= Limit(p)
    <3>1. pc[w] = "accrue" /\ Publish(w) /\ adjusted' = adjusted
      BY <2>5 DEF Publishing
    <3>2. cur[w] \in Policies /\ balance'[a] = IF a \in DOMAIN staged[w] THEN staged[w][a] ELSE balance[a]
      BY <3>1, PublishMoves
    <3>3. CASE a \in DOMAIN staged[w]
      <4>1. Accruing(w)
        BY <3>1 DEF TInv, RunOK
      <4>2. cur[w] \in paying(a)
        BY <3>2, <3>3, <4>1 DEF Accruing
      <4>3. staged[w][a] <= Limit(cur[w])
        BY <2>1, <3>1, <3>3, <4>2 DEF CapInv, StagedWithinCap
      <4>4. QED
        BY <3>2, <3>3, <4>2, <4>3
    <3>4. CASE a \notin DOMAIN staged[w]
      BY <2>1, <2>2, <3>1, <3>2, <3>4
    <3>5. QED
      BY <3>3, <3>4
  <2>6. QED
    BY <2>3, <2>4, <2>5, DataCases
<1>4. QED
  BY <1>2, <1>3 DEF CapInv

(* However many accruals race, and whatever fails, they never take a balance that *)
(* HR has not adjusted beyond the cap of a policy that pays it, or its rate where *)
(* that is more (UpsertBalanceWithCapTx: a new row is not capped).                *)
THEOREM CapsHold == Spec => []WithinCap
<1>1. Init => CapInv
  BY AccrualAssumption DEF Init, CapInv, WithinCap, StagedWithinCap, Start
<1>2. TInv /\ CapInv /\ [Next]_vars => CapInv'
  BY CapStep
<1>3. CapInv => WithinCap
  BY DEF CapInv
<1>4. QED
  BY <1>1, <1>2, <1>3, Typed, PTL DEF Spec

-----------------------------------------------------------------------------
(* Credits *)

LEMMA WorkerAccrues ==
  ASSUME TInv, NEW w \in Processes, pc[w] = "accrue", Policy[cur[w]].tenant \notin ByHand
  PROVE  w = Worker
BY DEF TInv, RunOK, Accruing, Busy

LEMMA CreditStep ==
  ASSUME TInv, CreditInv, [Next]_vars
  PROVE  CreditInv'
<1>1. lastAccrued \in [Policies -> Int \cup {None}] /\ credits \in [Policies -> [Employees -> [Starts -> Nat]]]
  BY DEF TInv, TypeOK
<1>2. Starts \subseteq Int
  BY CalendarAssumption DEF Starts
<1>3. ASSUME UNCHANGED <<lastAccrued, credits>>
      PROVE  /\ \A p \in Policies : lastAccrued'[p] # None =>
                  /\ Policy[p].period \in DOMAIN Begins /\ lastAccrued'[p] \in Begins[Policy[p].period]
                  /\ \A e \in Paid(p) : Amount(p, e, lastAccrued'[p]) > 0 => credits'[p][e][lastAccrued'[p]] > 0
             /\ \A p \in Policies, e \in Employees, d \in Starts : Policy[p].tenant \notin ByHand =>
                  /\ credits'[p][e][d] \in {0, 1}
                  /\ (lastAccrued'[p] = None \/ lastAccrued'[p] < d) => credits'[p][e][d] = 0
  BY <1>3 DEF CreditInv, Fresh
<1>4. ASSUME NEW w \in Processes, Publishing(w)
      PROVE  /\ \A p \in Policies : lastAccrued'[p] # None =>
                  /\ Policy[p].period \in DOMAIN Begins /\ lastAccrued'[p] \in Begins[Policy[p].period]
                  /\ \A e \in Paid(p) : Amount(p, e, lastAccrued'[p]) > 0 => credits'[p][e][lastAccrued'[p]] > 0
             /\ \A p \in Policies, e \in Employees, d \in Starts : Policy[p].tenant \notin ByHand =>
                  /\ credits'[p][e][d] \in {0, 1}
                  /\ (lastAccrued'[p] = None \/ lastAccrued'[p] < d) => credits'[p][e][d] = 0
  <2> DEFINE c == cur[w]
             start == Period(w)
  <2>1. pc[w] = "accrue" /\ emps[w] = {} /\ Publish(w)
    BY <1>4 DEF Publishing
  <2>2. Accruing(w) /\ now[w] \in Days
    BY <2>1 DEF TInv, TypeOK, RunOK
  <2>3. /\ c \in Policies /\ start \in Starts /\ start \in Int /\ lastAccrued'[c] = start
        /\ \A p \in Policies \ {c} : lastAccrued'[p] = lastAccrued[p] /\ credits'[p] = credits[p]
        /\ \A e \in Employees, d \in Starts : credits'[c][e][d] =
             IF Account(c, e) \in DOMAIN staged[w] /\ d = start THEN credits[c][e][d] + 1 ELSE credits[c][e][d]
    BY <2>1, PublishMoves
  <2>4. start \in Begins[Policy[c].period] /\ \A e \in Employees : Amount(c, e, start) = Amount(c, e, now[w])
    BY <2>2, <2>3, PeriodKnown DEF Accruing, Period
  <2>5. ASSUME NEW e \in Paid(c), Amount(c, e, start) > 0 PROVE credits'[c][e][start] > 0
    <3>1. e \in Payees(w, c)
      BY <2>2, <2>4, <2>5 DEF Paid, Payees, Accruing
    <3>2. Account(c, e) \in DOMAIN staged[w] /\ e \in Employees
      BY <2>1, <2>2, <3>1 DEF Accruing, Paid
    <3>3. credits[c][e][start] \in Nat
      BY <1>1, <2>3, <3>2
    <3>4. QED
      BY <2>3, <3>2, <3>3
  <2>6. ASSUME NEW e \in Employees, NEW d \in Starts, Policy[c].tenant \notin ByHand
        PROVE  credits'[c][e][d] \in {0, 1} /\ (start < d => credits'[c][e][d] = 0)
    <3>1. w = Worker
      BY <2>1, <2>6, WorkerAccrues
    <3>2. Fresh(c, start)
      BY <2>1, <2>2, <2>6, <3>1 DEF CreditInv, Accruing, Period
    <3>3. credits[c][e][d] \in {0, 1} /\ (Fresh(c, d) => credits[c][e][d] = 0)
      BY <2>3, <2>6 DEF CreditInv
    <3>4. d \in Int /\ lastAccrued[c] \in Int \cup {None} /\ start \in Int
      BY <1>1, <1>2, <2>3
    <3>5. d = start \/ start < d => credits[c][e][d] = 0
      BY <3>2, <3>3, <3>4 DEF Fresh
    <3> HIDE DEF start
    <3>6. QED
      BY <2>3, <3>3, <3>4, <3>5
  <2>7. start # None
    BY <2>3, AccrualAssumption
  <2> HIDE DEF c, start
  <2>8. ASSUME NEW p \in Policies, lastAccrued'[p] # None
        PROVE  /\ Policy[p].period \in DOMAIN Begins /\ lastAccrued'[p] \in Begins[Policy[p].period]
               /\ \A e \in Paid(p) : Amount(p, e, lastAccrued'[p]) > 0 => credits'[p][e][lastAccrued'[p]] > 0
    <3>1. CASE p = c
      BY <2>2, <2>3, <2>4, <2>5, <3>1 DEF Accruing, c
    <3>2. CASE p # c
      BY <2>3, <2>8, <3>2 DEF CreditInv
    <3>3. QED
      BY <3>1, <3>2
  <2>9. ASSUME NEW p \in Policies, NEW e \in Employees, NEW d \in Starts, Policy[p].tenant \notin ByHand
        PROVE  /\ credits'[p][e][d] \in {0, 1}
               /\ (lastAccrued'[p] = None \/ lastAccrued'[p] < d) => credits'[p][e][d] = 0
    <3>1. CASE p = c
      BY <2>3, <2>6, <2>7, <2>9, <3>1
    <3>2. CASE p # c
      BY <2>3, <2>9, <3>2 DEF CreditInv, Fresh
    <3>3. QED
      BY <3>1, <3>2
  <2>10. QED
    BY <2>8, <2>9
<1>5. /\ \A p \in Policies : lastAccrued'[p] # None =>
           /\ Policy[p].period \in DOMAIN Begins /\ lastAccrued'[p] \in Begins[Policy[p].period]
           /\ \A e \in Paid(p) : Amount(p, e, lastAccrued'[p]) > 0 => credits'[p][e][lastAccrued'[p]] > 0
      /\ \A p \in Policies, e \in Employees, d \in Starts : Policy[p].tenant \notin ByHand =>
           /\ credits'[p][e][d] \in {0, 1}
           /\ (lastAccrued'[p] = None \/ lastAccrued'[p] < d) => credits'[p][e][d] = 0
  BY <1>3, <1>4, DataCases
<1>6. ASSUME pc'[Worker] = "accrue", tenant'[Worker] \notin ByHand
      PROVE  Fresh(cur[Worker], Period(Worker))'
  <2>1. Worker \in Processes /\ now'[Worker] = now[Worker] /\ tenant'[Worker] = tenant[Worker]
    BY <1>6, WorkerIs, TransactionCases
  <2>2. PeriodOf(cur'[Worker], now'[Worker]) = PeriodOf(cur'[Worker], now[Worker])
    BY <2>1
  <2>3. CASE pc[Worker] = "accrue" /\ cur'[Worker] = cur[Worker]
    <3>1. cur[Worker] \in Policies /\ Policy[cur[Worker]].tenant = tenant[Worker]
      BY <2>1, <2>3 DEF TInv, RunOK, Accruing
    <3>2. lastAccrued'[cur[Worker]] = lastAccrued[cur[Worker]]
      <4>1. ASSUME NEW w \in Processes, Publishing(w) PROVE lastAccrued'[cur[Worker]] = lastAccrued[cur[Worker]]
        <5>1. w # Worker /\ pc[w] = "accrue" /\ Publish(w)
          BY <1>6, <4>1 DEF Publishing
        <5>2. cur[w] # cur[Worker]
          BY <1>6, <2>1, <3>1, <5>1, WorkerAccrues
        <5>3. QED
          BY <3>1, <5>1, <5>2, PublishMoves
      <4>2. QED
        BY <4>1, DataCases
    <3>3. QED
      BY <1>6, <2>1, <2>3, <3>2 DEF CreditInv, Fresh, Period
  <2>4. ASSUME NEW p \in todo[Worker], CheckDue(Worker, p), Due(Worker, p), cur'[Worker] = p
        PROVE  Fresh(cur[Worker], Period(Worker))'
    <3>1. lastAccrued' = lastAccrued
      BY <2>4 DEF CheckDue, db
    <3>2. QED
      BY <2>1, <2>4, <3>1 DEF Due, Fresh, Period
  <2>5. QED
    BY <1>6, <2>1, <2>3, <2>4, TransactionCases
<1>7. QED
  BY <1>5, <1>6 DEF CreditInv, Fresh, Period

LEMMA CreditTells == TInv /\ CreditInv => PeriodsCredited
<1>1. SUFFICES ASSUME TInv, CreditInv, NEW p \in Policies, NEW e \in Employees, NEW d \in Starts
               PROVE  /\ Policy[p].tenant \notin ByHand => credits[p][e][d] <= 1
                      /\ (d = lastAccrued[p] /\ TenantOf[e] = Policy[p].tenant /\ Amount(p, e, d) > 0)
                           => credits[p][e][d] > 0
  BY DEF PeriodsCredited
<1>2. Policy[p].tenant \notin ByHand => credits[p][e][d] \in {0, 1}
  BY <1>1 DEF CreditInv
<1>3. d # None
  BY CalendarAssumption, AccrualAssumption DEF Starts
<1>4. ASSUME d = lastAccrued[p], TenantOf[e] = Policy[p].tenant, Amount(p, e, d) > 0
      PROVE  credits[p][e][d] > 0
  BY <1>1, <1>3, <1>4 DEF CreditInv, Paid
<1>5. QED
  BY <1>2, <1>4

(* Where only the one worker accrues, no employee gets a policy's accrual for a   *)
(* period twice, although ApplyAccruals reads LastAccruedOn outside of the        *)
(* transaction; and the period a policy was last accrued for has been credited to *)
(* everyone it pays, whoever raced, failed or died.                               *)
THEOREM CreditedOnce == Spec => []PeriodsCredited
<1>1. Init => CreditInv
  <2>1. SUFFICES ASSUME Init PROVE CreditInv
    OBVIOUS
  <2>2. \A p \in Policies : lastAccrued[p] = None
    BY <2>1 DEF Init
  <2>3. \A p \in Policies, e \in Employees, d \in Starts : credits[p][e][d] = 0
    BY <2>1 DEF Init
  <2>4. pc[Worker] # "accrue"
    BY <2>1, WorkerIs DEF Init, Start
  <2>5. QED
    BY <2>2, <2>3, <2>4 DEF CreditInv
<1>2. TInv /\ CreditInv /\ [Next]_vars => CreditInv'
  BY CreditStep
<1>3. QED
  BY <1>1, <1>2, CreditTells, Typed, PTL DEF Spec

-----------------------------------------------------------------------------
(* What job_runs shows *)

(* The run of the worker, and what only it accrues, stay as they are. *)
WorkerStays ==
  /\ pc'[Worker] = pc[Worker] /\ now'[Worker] = now[Worker] /\ tenant'[Worker] = tenant[Worker]
  /\ todo'[Worker] = todo[Worker] /\ cur'[Worker] = cur[Worker] /\ row' = row /\ listed' = listed
  /\ \A p \in Policies : Policy[p].tenant \notin ByHand => lastAccrued'[p] = lastAccrued[p]

LEMMA OthersLeave ==
  ASSUME TInv, NEW w \in Processes \ {Worker}, Elsewhere(w), row' = row, listed' = listed,
         lastAccrued' = lastAccrued \/ (pc[w] = "accrue" /\ Publish(w))
  PROVE  WorkerStays
<1>1. ASSUME pc[w] = "accrue", Publish(w), NEW p \in Policies, Policy[p].tenant \notin ByHand
      PROVE  lastAccrued'[p] = lastAccrued[p]
  <2>1. p # cur[w]
    BY <1>1, WorkerAccrues
  <2>2. QED
    BY <1>1, <2>1, PublishMoves
<1>2. QED
  BY <1>1, WorkerIs DEF WorkerStays, Elsewhere

LEMMA WorkerSteps ==
  ASSUME TInv, [Next]_vars
  PROVE  \/ WorkerStays \/ (\E t \in Tenants : Starting(Worker, t)) \/ Retaining \/ Retain \/ ServerRestart
         \/ (\E p \in Policies : CheckDue(Worker, p)) \/ Commit(Worker) \/ Complete(Worker)
         \/ Fail(Worker) \/ FailAfterCommit(Worker)
<1>1. UNCHANGED <<db, locals, pc, row, listed>> => WorkerStays
  BY DEF db, locals, WorkerStays
<1>2. NextDay => WorkerStays
  BY DEF NextDay, locals, WorkerStays
<1>3. "completed" \in Statuses /\ "failed" \in Statuses
  BY DEF Statuses
<1>4. ASSUME NEW w \in Processes \ {Worker}, NEW t \in Tenants, Starting(w, t) PROVE WorkerStays
  <2>1. Elsewhere(w) /\ row' = row /\ listed' = listed
    BY <1>4, BeginMoves DEF Starting, Busy
  <2>2. lastAccrued' = lastAccrued
    BY <1>4 DEF Starting, BeginAccruals, db
  <2>3. QED
    BY <2>1, <2>2, OthersLeave
<1>5. ASSUME NEW r \in Requests, NEW a \in Accounts, NEW n \in Adjustments, AdjustBalance(r, a, n) PROVE WorkerStays
  <2>1. r \in Processes \ {Worker} /\ Elsewhere(r)
    BY <1>5, AdjustMoves, WorkerIs
  <2>2. row' = row /\ listed' = listed /\ lastAccrued' = lastAccrued
    BY <1>5 DEF AdjustBalance
  <2>3. QED
    BY <2>1, <2>2, OthersLeave
<1>6. ASSUME NEW w \in Processes \ {Worker}, NEW p \in Policies, CheckDue(w, p) PROVE WorkerStays
  <2>1. Elsewhere(w) /\ row' = row /\ listed' = listed /\ lastAccrued' = lastAccrued
    BY <1>6, CheckDueMoves DEF CheckDue, db
  <2>2. QED
    BY <2>1, OthersLeave
<1>7. ASSUME NEW w \in Processes, NEW e \in Employees, UpsertBalance(w, e) PROVE WorkerStays
  <2>1. UNCHANGED <<now, tenant, todo, cur, pc, row, listed, lastAccrued>>
    BY <1>7 DEF UpsertBalance
  <2>2. QED
    BY <2>1 DEF WorkerStays
<1>8. ASSUME NEW w \in Processes \ {Worker}, Commit(w) PROVE WorkerStays
  <2>1. Elsewhere(w) /\ row' = row /\ listed' = listed /\ pc[w] = "accrue" /\ Publish(w)
    BY <1>8, CommitMoves DEF Commit
  <2>2. QED
    BY <2>1, OthersLeave
<1>9. ASSUME NEW w \in Processes \ {Worker}, Complete(w) \/ Fail(w) \/ FailAfterCommit(w) PROVE WorkerStays
  <2>1. Elsewhere(w) /\ row' = row /\ listed' = listed
    <3>1. EndRun(w, "completed") \/ EndRun(w, "failed")
      BY <1>9 DEF Complete, Fail, FailAfterCommit
    <3>2. QED
      BY <1>3, <3>1, EndMoves
  <2>2. lastAccrued' = lastAccrued \/ (pc[w] = "accrue" /\ Publish(w))
    BY <1>9 DEF Complete, Fail, FailAfterCommit, RollBack, db
  <2>3. QED
    BY <2>1, <2>2, OthersLeave
<1>10. QED
  BY <1>1, <1>2, <1>4, <1>5, <1>6, <1>7, <1>8, <1>9, NextCases

(* The policies that the worker's run answers for, those it has still to see to. *)
Own(p) == p \in listed /\ Policy[p].tenant \notin ByHand /\ PeriodOf(p, now[Worker]) # None
Ahead(p) == Busy(Worker) /\ (p \in todo[Worker] \/ (pc[Worker] = "accrue" /\ p = cur[Worker]))

LEMMA RowIs == RowInv <=> /\ Busy(Worker) => row = "running"
                          /\ pc[Worker] = "retain" => row = None
                          /\ \A p \in Policies : (Own(p) /\ (Busy(Worker) \/ row = "completed"))
                                                   => (RunAccrued(p) \/ Ahead(p))
BY DEF RowInv, Own, Ahead

LEMMA RowStep ==
  ASSUME TInv, RowInv, [Next]_vars
  PROVE  RowInv'
<1>1. /\ Busy(Worker) => row = "running"
      /\ pc[Worker] = "retain" => row = None
      /\ \A p \in Policies : (Own(p) /\ (Busy(Worker) \/ row = "completed")) => (RunAccrued(p) \/ Ahead(p))
  BY RowIs
<1>2. Worker \in Processes /\ LocalTypeOK /\ lastAccrued \in [Policies -> Int \cup {None}] /\ RunOK(Worker)
  BY WorkerIs, Parts DEF DbTypeOK
<1>3. "completed" \in Statuses /\ "failed" \in Statuses
  BY DEF Statuses
<1>4. None # "running" /\ None # "completed"
  BY AccrualAssumption
<1>5. ASSUME ~Busy(Worker)', pc'[Worker] # "retain", row' # "completed" PROVE RowInv'
  BY <1>5 DEF RowInv
<1>6. ASSUME ~Busy(Worker)', pc'[Worker] # "retain", row = "completed", lastAccrued' = lastAccrued,
             now'[Worker] = now[Worker], listed' = listed
      PROVE  RowInv'
  <2>1. ~Busy(Worker)
    BY <1>1, <1>6
  <2>2. \A p \in Policies : Own(p)' => RunAccrued(p)'
    <3>1. \A p \in Policies : Own(p) => RunAccrued(p)
      BY <1>1, <1>6, <2>1 DEF Ahead
    <3>2. QED
      BY <1>6, <3>1 DEF Own, RunAccrued
  <2>3. QED
    BY <1>6, <2>2 DEF RowInv, Own
<1>7. CASE WorkerStays
  <2>1. Busy(Worker)' = Busy(Worker) /\ \A p \in Policies : Own(p)' = Own(p) /\ Ahead(p)' = Ahead(p)
    BY <1>7 DEF WorkerStays, Busy, Own, Ahead
  <2>2. \A p \in Policies : Own(p) => RunAccrued(p)' = RunAccrued(p)
    BY <1>7 DEF WorkerStays, Own, RunAccrued
  <2>3. /\ Busy(Worker)' => row' = "running"
        /\ pc'[Worker] = "retain" => row' = None
    BY <1>1, <1>7, <2>1 DEF WorkerStays
  <2>4. \A p \in Policies : (Own(p)' /\ (Busy(Worker)' \/ row' = "completed")) => (RunAccrued(p)' \/ Ahead(p)')
    BY <1>1, <1>7, <2>1, <2>2 DEF WorkerStays
  <2>5. QED
    BY <2>3, <2>4 DEF RowInv, Own, Ahead
<1>8. ASSUME NEW t \in Tenants, Starting(Worker, t) PROVE RowInv'
  <2>1. /\ pc'[Worker] = "policies" /\ tenant'[Worker] = t /\ row' = "running"
        /\ listed' = todo'[Worker]
    BY <1>2, <1>8, BeginMoves DEF Starting, Busy
  <2>2. QED
    BY <2>1 DEF RowInv, Busy
<1>9. CASE Retaining
  <2>1. pc'[Worker] = "retain" /\ row' = None
    BY <1>9, RetainingMoves DEF Retaining
  <2>2. QED
    BY <1>4, <2>1 DEF RowInv, Busy
<1>10. CASE Retain
  <2>1. EndRun(Worker, "completed") /\ pc[Worker] = "retain"
    BY <1>10 DEF Retain
  <2>2. /\ pc'[Worker] = Home(Worker)
        /\ row' = IF Worker = Worker /\ row = "running" /\ server = "up" THEN "completed" ELSE row
    BY <1>2, <1>3, <2>1, EndMoves
  <2>3. row' = None
    BY <1>1, <1>4, <2>1, <2>2
  <2>4. QED
    BY <1>4, <1>5, <2>2, <2>3 DEF Home, Busy
<1>11. CASE ServerRestart
  <2>1. pc'[Worker] \in {"new", "idle", "done"}
    BY <1>2, <1>11, RestartMoves
  <2>2. UNCHANGED <<lastAccrued, now, row, listed>>
    BY <1>11 DEF ServerRestart
  <2>3. ~Busy(Worker)' /\ pc'[Worker] # "retain"
    BY <2>1 DEF Busy
  <2>4. QED
    BY <1>5, <1>6, <2>2, <2>3
<1>12. ASSUME NEW p \in Policies, CheckDue(Worker, p) PROVE RowInv'
  <2>1. /\ pc[Worker] = "policies" /\ now'[Worker] = now[Worker] /\ tenant'[Worker] = tenant[Worker]
        /\ todo'[Worker] = todo[Worker] \ {p}
        /\ IF Due(Worker, p) THEN pc'[Worker] = "accrue" /\ cur'[Worker] = p ELSE pc'[Worker] = "policies"
    BY <1>2, <1>12, CheckDueMoves
  <2>2. lastAccrued' = lastAccrued /\ row' = row /\ listed' = listed
    BY <1>12 DEF CheckDue, db
  <2>3. Busy(Worker) /\ Busy(Worker)' /\ pc'[Worker] # "retain" /\ row' = "running"
    BY <1>1, <2>1, <2>2 DEF Busy
  <2>4. ASSUME NEW q \in Policies, Own(q)' PROVE RunAccrued(q)' \/ Ahead(q)'
    <3>1. Own(q) /\ (RunAccrued(q)' = RunAccrued(q))
      BY <2>1, <2>2, <2>4 DEF Own, RunAccrued
    <3>2. CASE RunAccrued(q)
      BY <3>1, <3>2
    <3>3. CASE q # p /\ ~RunAccrued(q)
      <4>1. q \in todo[Worker]
        BY <1>1, <2>1, <2>3, <3>1, <3>3 DEF Ahead
      <4>2. QED
        BY <2>1, <2>3, <3>3, <4>1 DEF Ahead
    <3>4. CASE q = p /\ Due(Worker, p)
      BY <2>1, <2>3, <3>4 DEF Ahead
    <3>5. CASE q = p /\ ~Due(Worker, p)
      <4>1. PeriodOf(p, now[Worker]) # None /\ now[Worker] \in Days
        BY <1>2, <3>1, <3>5 DEF Own, LocalTypeOK
      <4>2. PeriodOf(p, now[Worker]) \in Int
        BY <4>1, PeriodUnknown, PeriodKnown
      <4>3. lastAccrued[p] # None /\ ~(lastAccrued[p] < PeriodOf(p, now[Worker])) /\ lastAccrued[p] \in Int
        BY <1>2, <3>5, <4>1 DEF Due
      <4>4. RunAccrued(p)
        BY <4>2, <4>3 DEF RunAccrued
      <4>5. QED
        BY <3>1, <3>5, <4>4
    <3>6. QED
      BY <3>2, <3>3, <3>4, <3>5
  <2>5. QED
    BY <2>3, <2>4 DEF RowInv, Own, Ahead
<1>13. CASE Commit(Worker)
  <2>1. /\ pc[Worker] = "accrue" /\ pc'[Worker] = "policies" /\ now'[Worker] = now[Worker]
        /\ tenant'[Worker] = tenant[Worker] /\ todo'[Worker] = todo[Worker]
    BY <1>2, <1>13, CommitMoves
  <2>2. Publish(Worker) /\ row' = row /\ listed' = listed
    BY <1>13 DEF Commit
  <2>3. /\ cur[Worker] \in Policies /\ Period(Worker) \in Int /\ Period(Worker) # None
        /\ lastAccrued'[cur[Worker]] = Period(Worker)
        /\ \A p \in Policies \ {cur[Worker]} : lastAccrued'[p] = lastAccrued[p]
    BY <1>2, <2>1, <2>2, PublishMoves
  <2>4. Busy(Worker) /\ Busy(Worker)' /\ pc'[Worker] # "retain" /\ row' = "running"
    BY <1>1, <2>1, <2>2 DEF Busy
  <2>5. ASSUME NEW q \in Policies, Own(q)' PROVE RunAccrued(q)' \/ Ahead(q)'
    <3>1. CASE q = cur[Worker]
      BY <2>1, <2>3, <3>1 DEF RunAccrued, Period
    <3>2. CASE q # cur[Worker]
      <4>1. Own(q) /\ (RunAccrued(q)' = RunAccrued(q))
        BY <2>1, <2>2, <2>3, <2>5, <3>2 DEF Own, RunAccrued
      <4>2. RunAccrued(q) \/ q \in todo[Worker]
        BY <1>1, <2>4, <3>2, <4>1 DEF Ahead
      <4>3. QED
        BY <2>1, <2>4, <4>1, <4>2 DEF Ahead
    <3>3. QED
      BY <3>1, <3>2
  <2>6. QED
    BY <2>4, <2>5 DEF RowInv, Own, Ahead
<1>14. CASE Complete(Worker)
  <2>1. EndRun(Worker, "completed") /\ pc[Worker] = "policies" /\ todo[Worker] = {} /\ server = "up" /\ lastAccrued' = lastAccrued
    BY <1>14 DEF Complete, Alive, db
  <2>2. /\ pc'[Worker] = Home(Worker)
        /\ row' = IF Worker = Worker /\ row = "running" /\ server = "up" THEN "completed" ELSE row
        /\ Worker = Worker /\ row' = "completed" => now'[Worker] = now[Worker] /\ listed' = listed
    BY <1>2, <1>3, <2>1, EndMoves
  <2>3. Busy(Worker) /\ row = "running"
    BY <1>1, <2>1 DEF Busy
  <2>4. now'[Worker] = now[Worker] /\ listed' = listed /\ pc'[Worker] = "idle"
    BY <2>1, <2>2, <2>3 DEF Home
  <2>5. \A p \in Policies : Own(p) => RunAccrued(p)
    BY <1>1, <2>1, <2>3 DEF Ahead
  <2>6. \A p \in Policies : Own(p)' => RunAccrued(p)'
    BY <2>1, <2>4, <2>5 DEF Own, RunAccrued
  <2>7. QED
    BY <2>4, <2>6 DEF RowInv, Own, Busy
<1>15. CASE Fail(Worker) \/ FailAfterCommit(Worker)
  <2>1. EndRun(Worker, "failed") /\ Busy(Worker)
    BY <1>15 DEF Fail, FailAfterCommit, Busy
  <2>2. /\ pc'[Worker] = Home(Worker)
        /\ row' = IF Worker = Worker /\ row = "running" /\ server = "up" THEN "failed" ELSE row
    BY <1>2, <1>3, <2>1, EndMoves
  <2>3. row' # "completed" /\ pc'[Worker] = "idle"
    BY <1>1, <2>1, <2>2 DEF Home
  <2>4. QED
    BY <1>5, <2>3 DEF Busy
<1>16. QED
  BY <1>7, <1>8, <1>9, <1>10, <1>11, <1>12, <1>13, <1>14, <1>15, WorkerSteps

(* A run of the worker that job_runs shows as completed has left behind none of   *)
(* the policies it was given, although every policy has a transaction of its own  *)
(* and runs before it may have failed, lost an answer or been cut short (runJob). *)
(* The policies that its list did not give (ListAccrualPolicies does not look at  *)
(* the error of its rows), and those accrued by hand too, are left out.           *)
THEOREM CompletedHonest == Spec => []CompletedMeansAccrued
<1>1. Init => RowInv
  <2>1. SUFFICES ASSUME Init PROVE RowInv
    OBVIOUS
  <2>2. pc[Worker] = "idle" /\ row = None
    BY <2>1, WorkerIs DEF Init, Start
  <2>3. QED
    BY <2>2, AccrualAssumption DEF RowInv, Busy
<1>2. TInv /\ RowInv /\ [Next]_vars => RowInv'
  BY RowStep
<1>3. TInv /\ RowInv => CompletedMeansAccrued
  BY Parts DEF RowTypeOK, RowInv, CompletedMeansAccrued, Busy, RunAccrued
<1>4. QED
  BY <1>1, <1>2, <1>3, Typed, PTL DEF Spec

-----------------------------------------------------------------------------
(* Lengths of leaves *)

(* The half days of a leave, and their numbers in the order of time. *)
HalfDays(first, last, startHalf, endHalf) ==
  {half \in Days \X {"am", "pm"} :
     /\ first <= half[1] /\ half[1] <= last
     /\ ~(startHalf /\ half = <<first, "am">>)
     /\ ~(endHalf /\ half = <<last, "pm">>)}
FromHalf(first, startHalf) == 2 * first + (IF startHalf THEN 1 ELSE 0)
ToHalf(last, endHalf) == 2 * last + (IF endHalf THEN 0 ELSE 1)
HalfDay(n) == <<n \div 2, IF n % 2 = 0 THEN "am" ELSE "pm">>

LEMMA HalfDayNumbers ==
  ASSUME NEW first \in Days, NEW last \in Days, NEW startHalf \in BOOLEAN, NEW endHalf \in BOOLEAN
  PROVE  /\ IsFiniteSet(FromHalf(first, startHalf)..ToHalf(last, endHalf))
         /\ Cardinality(HalfDays(first, last, startHalf, endHalf))
              = Cardinality(FromHalf(first, startHalf)..ToHalf(last, endHalf))
<1> DEFINE a == FromHalf(first, startHalf)
           b == ToHalf(last, endHalf)
           S == HalfDays(first, last, startHalf, endHalf)
           f == [n \in a..b |-> HalfDay(n)]
<1>1. first \in Nat /\ last \in Nat /\ first <= LastDay /\ last <= LastDay /\ LastDay \in Nat /\ Days = 0..LastDay
  BY AccrualAssumption DEF Days
<1>2. /\ a \in Nat /\ a >= 2 * first /\ a <= 2 * first + 1 /\ (startHalf <=> a = 2 * first + 1)
      /\ b \in Nat /\ b >= 2 * last /\ b <= 2 * last + 1 /\ (endHalf <=> b = 2 * last)
  BY <1>1 DEF FromHalf, ToHalf
<1> HIDE DEF a, b
<1>3. ASSUME NEW n \in a..b PROVE HalfDay(n) \in S
  <2>1. n \in Nat /\ a <= n /\ n <= b
    BY <1>2, <1>3
  <2> DEFINE d == n \div 2
             k == n % 2
  <2>2. d \in Nat /\ k \in {0, 1} /\ n = 2 * d + k
    BY <2>1
  <2>3. HalfDay(n) = <<d, IF k = 0 THEN "am" ELSE "pm">>
    BY DEF HalfDay
  <2> HIDE DEF d, k
  <2>4. first <= d /\ d <= last
    BY <1>1, <1>2, <2>1, <2>2
  <2>5. ~(startHalf /\ d = first /\ k = 0) /\ ~(endHalf /\ d = last /\ k = 1)
    BY <1>1, <1>2, <2>1, <2>2
  <2>6. d \in Days
    BY <1>1, <2>2, <2>4
  <2>7. QED
    BY <2>2, <2>3, <2>4, <2>5, <2>6 DEF HalfDays
<1>4. ASSUME NEW m \in a..b, NEW n \in a..b, HalfDay(m) = HalfDay(n) PROVE m = n
  <2>1. m \in Nat /\ n \in Nat
    BY <1>2, <1>4
  <2>2. m \div 2 = n \div 2 /\ ((m % 2 = 0) <=> (n % 2 = 0))
    BY <1>4 DEF HalfDay
  <2>3. QED
    BY <2>1, <2>2
<1>5. ASSUME NEW half \in S PROVE \E n \in a..b : HalfDay(n) = half
  <2>1. PICK d \in Days, h \in {"am", "pm"} : half = <<d, h>>
    BY <1>5 DEF HalfDays
  <2>2. first <= d /\ d <= last /\ ~(startHalf /\ d = first /\ h = "am") /\ ~(endHalf /\ d = last /\ h = "pm")
    BY <1>5, <2>1 DEF HalfDays
  <2>3. d \in Nat
    BY <1>1
  <2>4. CASE h = "am"
    <3>1. 2 * d \in a..b
      BY <1>1, <1>2, <2>2, <2>3, <2>4
    <3>2. (2 * d) \div 2 = d /\ (2 * d) % 2 = 0
      BY <2>3
    <3>3. QED
      BY <2>1, <2>4, <3>1, <3>2 DEF HalfDay
  <2>5. CASE h = "pm"
    <3>1. 2 * d + 1 \in a..b
      BY <1>1, <1>2, <2>2, <2>3, <2>5
    <3>2. (2 * d + 1) \div 2 = d /\ (2 * d + 1) % 2 = 1
      BY <2>3
    <3>3. QED
      BY <2>1, <2>5, <3>1, <3>2 DEF HalfDay
  <2>6. QED
    BY <2>4, <2>5
<1> HIDE DEF S
<1>6. f \in Bijection(a..b, S)
  <2>1. f \in [a..b -> S] /\ \A n \in a..b : f[n] = HalfDay(n)
    BY <1>3
  <2> HIDE DEF f
  <2>2. f \in Injection(a..b, S)
    BY <1>4, <2>1 DEF Injection, IsInjective
  <2>3. f \in Surjection(a..b, S)
    BY <1>5, <2>1 DEF Surjection
  <2>4. QED
    BY <2>2, <2>3 DEF Bijection
<1>7. ExistsBijection(a..b, S)
  BY <1>6 DEF ExistsBijection
<1>8. IsFiniteSet(a..b)
  BY <1>2, FS_Interval
<1>9. Cardinality(S) = Cardinality(a..b)
  BY <1>7, <1>8, FS_Bijection
<1>10. QED
  BY <1>8, <1>9 DEF S, a, b

LEMMA LengthIsHalfDays ==
  ASSUME NEW first \in Days, NEW last \in Days, NEW startHalf \in BOOLEAN, NEW endHalf \in BOOLEAN
  PROVE  RequestDays(first, last, startHalf, endHalf) = Cardinality(HalfDays(first, last, startHalf, endHalf))
<1> DEFINE a == FromHalf(first, startHalf)
           b == ToHalf(last, endHalf)
           s == IF startHalf THEN 1 ELSE 0
           e == IF endHalf THEN 1 ELSE 0
<1>1. first \in Nat /\ last \in Nat
  BY AccrualAssumption DEF Days
<1>2. a \in Int /\ b \in Int /\ a = 2 * first + s /\ b = 2 * last + 1 - e /\ s \in {0, 1} /\ e \in {0, 1}
  BY <1>1 DEF FromHalf, ToHalf
<1>3. Cardinality(HalfDays(first, last, startHalf, endHalf)) = IF a > b THEN 0 ELSE b - a + 1
  BY <1>2, HalfDayNumbers, FS_Interval
<1>4. RequestDays(first, last, startHalf, endHalf)
        = IF last < first \/ (first = last /\ s = 1 /\ e = 1) THEN 0 ELSE 2 * (last - first + 1) - s - e
  BY DEF RequestDays
<1> HIDE DEF a, b, s, e
<1>5. (last < first \/ (first = last /\ s = 1 /\ e = 1)) <=> a > b
  BY <1>1, <1>2
<1>6. ~(a > b) => 2 * (last - first + 1) - s - e = b - a + 1
  BY <1>1, <1>2
<1>7. QED
  BY <1>3, <1>4, <1>5, <1>6

(* CalculateRequestDays gives any leave the number of its half days, and refuses  *)
(* only the empty one.                                                            *)
THEOREM LengthsCount == Spec => []DaysAreHalfDays
<1>1. TInv => DaysAreHalfDays
  <2>1. SUFFICES ASSUME TInv, NEW end \in Days, NEW startHalf \in BOOLEAN, NEW endHalf \in BOOLEAN
                 PROVE  RequestDays(today, end, startHalf, endHalf) = Cardinality(HalfDays(today, end, startHalf, endHalf))
    BY DEF DaysAreHalfDays, HalfDays
  <2>2. today \in Days
    BY <2>1 DEF TInv, TypeOK
  <2>3. QED
    BY <2>2, LengthIsHalfDays
<1>2. QED
  BY <1>1, Typed, PTL
=============================================================================
