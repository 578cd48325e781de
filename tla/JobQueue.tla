------------------------------ MODULE JobQueue ------------------------------
(* The background jobs of one server process: two tickers that enqueue a job    *)
(* per tenant or retention policy, a bounded queue and the worker that empties  *)
(* it, and the process itself, which is shut down and started again. A job in   *)
(* the queue is lost with the process.                                          *)
EXTENDS Naturals, Sequences

CONSTANTS
  Tenants,
  RetentionPolicies, \* [tenant, category] of the retention policies with a positive number of days
  QueueSize          \* capacity of the queue channel

JobLeaveAccrual == "leave_accrual"
JobRetention == "gdpr_retention"
JobTypes == {JobLeaveAccrual, JobRetention}

AccrualJobs == {[type |-> JobLeaveAccrual, tenant |-> t] : t \in Tenants}

(* listRetentionPolicies, of those that keep data for a positive number of days. *)
RetentionJobsOf(t) ==
  {[type |-> JobRetention, tenant |-> t, category |-> p.category] : p \in {q \in RetentionPolicies : q.tenant = t}}
RetentionJobs == UNION {RetentionJobsOf(t) : t \in Tenants}
Jobs == AccrualJobs \cup RetentionJobs

ASSUME QueueAssumption ==
  /\ QueueSize \in Nat \ {0}
  /\ \A p \in RetentionPolicies : p.tenant \in Tenants

VARIABLES
  queue,    \* the channel
  round,    \* ticker -> jobs of its current tick that it has not enqueued yet
  server    \* "up" or "stopping" (signal received)

queueVars == <<queue, round, server>>

QueueTypeOK ==
  /\ queue \in Seq(Jobs) /\ Len(queue) <= QueueSize
  /\ round \in [JobTypes -> SUBSET Jobs]
  /\ server \in {"up", "stopping"}

QueueInit ==
  /\ queue = <<>>
  /\ round = [type \in JobTypes |-> {}]
  /\ server = "up"

(* A tick of scheduleAccruals: every tenant. *)
AccrualTick ==
  /\ server = "up" /\ round[JobLeaveAccrual] = {}
  /\ round' = [round EXCEPT ![JobLeaveAccrual] = AccrualJobs]
  /\ UNCHANGED <<queue, server>>

(* A tick of scheduleRetention: the tenants whose policies cannot be read are left out. *)
RetentionTick ==
  /\ server = "up" /\ round[JobRetention] = {}
  /\ \E found \in SUBSET Tenants :
       round' = [round EXCEPT ![JobRetention] = UNION {RetentionJobsOf(t) : t \in found}]
  /\ UNCHANGED <<queue, server>>

(* Mutant: nothing is dropped. *)
EnqueueUnbounded(type, job) ==
  /\ job \in round[type]
  /\ round' = [round EXCEPT ![type] = @ \ {job}]
  /\ queue' = Append(queue, job)
  /\ UNCHANGED server

(* Enqueue never waits: when the queue is full the job is dropped. *)
Enqueue(type, job) ==
  /\ job \in round[type]
  /\ round' = [round EXCEPT ![type] = @ \ {job}]
  /\ queue' = IF Len(queue) < QueueSize THEN Append(queue, job) ELSE queue
  /\ UNCHANGED server

(* The worker receives the oldest job. *)
Dequeue(job) ==
  /\ server = "up" /\ queue # <<>> /\ job = Head(queue)
  /\ queue' = Tail(queue)
  /\ UNCHANGED <<round, server>>

Dropped == queue' = <<>> /\ round' = [type \in JobTypes |-> {}]

(* SIGTERM: worker and tickers return, what they had queued is not run any more; *)
(* requests in flight are waited for.                                            *)
Shutdown ==
  /\ server = "up"
  /\ server' = "stopping"
  /\ Dropped

(* The process ends, at the latest when the shutdown's timeout expires, or dies; *)
(* another one is started.                                                       *)
Restart ==
  /\ server' = "up"
  /\ Dropped
=============================================================================
