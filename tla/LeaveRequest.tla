---------------------------- MODULE LeaveRequest ----------------------------
(* Leave requests and the balances they draw on: submission, approval by a     *)
(* manager and by HR, rejection and cancellation. Every handler reads the      *)
(* request's status once, then issues its writes as separate statements that   *)
(* do not look at the status again. The increments of a balance row are        *)
(* single UPDATE statements. Audit rows, notifications and supporting          *)
(* documents are left out: no statement below reads them back.                 *)
EXTENDS Integers, FiniteSets

CONSTANTS
  Requests,      \* HTTP requests, each served once by a goroutine of its own
  Leaves,        \* ids of leave_requests rows
  Accounts,      \* (employee, leave type) pairs: rows of leave_balances
  AccountOf,     \* the account a leave draws on
  DaysOf,        \* its length in half days
  PolicyAnswers, \* what RequiresHRApproval may answer for an account's leave type: FALSE
                 \* when the lookup fails, either when its policies disagree
  Calm,          \* leaves whose requests come one at a time, from a page that shows the
                 \* leave's current status, and run to their end
  None

Ops == {"create", "approve", "reject", "cancel"}
Roles == {"employee", "manager", "hr"}

ASSUME LeaveAssumption ==
  /\ AccountOf \in [Leaves -> Accounts]
  /\ DaysOf \in [Leaves -> Nat \ {0}]
  /\ PolicyAnswers \in [Accounts -> (SUBSET BOOLEAN) \ {{}}]
ASSUME CalmAssumption ==
  \* a balance row is either touched by calm leaves only, or by none
  /\ Calm \subseteq Leaves
  /\ \A l \in Calm, m \in Leaves : AccountOf[l] = AccountOf[m] => m \in Calm
ASSUME NoneAssumption == None \notin Leaves

VARIABLES
  status,    \* leave_requests.status, "none" before the row exists
  hasRow,    \* whether the account has a leave_balances row
  pending,   \* leave_balances.pending
  used,      \* leave_balances.used
  approvals, \* leave_approvals rows that approve: the approver's role per leave
  req,       \* what an HTTP request asks for: kind, leave, role of the caller
  pc,        \* the statement it issues next
  next       \* the status an approval has decided to set

db == <<status, hasRow, pending, used, approvals>>
vars == <<status, hasRow, pending, used, approvals, req, pc, next>>

Statuses == {"pending", "pending_hr", "approved", "rejected", "cancelled"}
Open == {"pending", "pending_hr"}
Done == {"ok", "refused", "failed"}
Labels == {"new", "reserve", "route", "setApproved", "recordApproval", "book",
           "setRejected", "recordRejection", "setCancelled", "release"} \cup Done

Init ==
  /\ status = [l \in Leaves |-> "none"]
  /\ hasRow \in [Accounts -> BOOLEAN]
  /\ pending = [a \in Accounts |-> 0]
  /\ used = [a \in Accounts |-> 0]
  /\ approvals = [l \in Leaves |-> {}]
  /\ req = [r \in Requests |-> None]
  /\ pc = [r \in Requests |-> "new"]
  /\ next = [r \in Requests |-> None]

-----------------------------------------------------------------------------
(* Helpers *)

InFlight(r) == pc[r] \notin Done \cup {"new"}
Leave(r) == req[r].leave
Account(r) == AccountOf[Leave(r)]
Days(r) == DaysOf[Leave(r)]

(* The buttons the leave page shows for a leave of status s. *)
Offered(op, role, s) ==
  \/ op \in {"approve", "reject"} /\ role \in {"manager", "hr"} /\ s = "pending"
  \/ op \in {"approve", "reject"} /\ role = "hr" /\ s = "pending_hr"
  \/ op = "cancel" /\ role # "hr" /\ s = "pending"

Arrive(r, op, l, role, label) ==
  /\ pc[r] = "new"
  /\ op # "create" => status[l] # "none"
  /\ l \in Calm => /\ \A q \in Requests : InFlight(q) => Leave(q) # l
                   /\ op # "create" => Offered(op, role, status[l])
  /\ req' = [req EXCEPT ![r] = [op |-> op, leave |-> l, role |-> role]]
  /\ pc' = [pc EXCEPT ![r] = label]

Move(r, from, to) ==
  /\ pc[r] = from
  /\ pc' = [pc EXCEPT ![r] = to]

SetStatus(r, s) == status' = [status EXCEPT ![Leave(r)] = s]

-----------------------------------------------------------------------------
(* POST /leave/requests: CreateRequest *)

(* The policy lookup before it does not matter: without a manager the request  *)
(* goes to HR whatever the lookup says, with one it goes to the manager.       *)
CreateInsert(r, l) ==
  /\ status[l] = "none"
  /\ Arrive(r, "create", l, "employee", "reserve")
  /\ status' = [status EXCEPT ![l] = "pending"]
  /\ UNCHANGED <<hasRow, pending, used, approvals, next>>

(* AddPendingBalance: INSERT ... ON CONFLICT DO UPDATE pending = pending + days. *)
CreateReserve(r) ==
  /\ Move(r, "reserve", "route")
  /\ hasRow' = [hasRow EXCEPT ![Account(r)] = TRUE]
  /\ pending' = [pending EXCEPT ![Account(r)] = @ + Days(r)]
  /\ UNCHANGED <<status, used, approvals, req, next>>

(* A manager with a user account gets an approval row of status pending;        *)
(* otherwise, and when the lookup fails, the request is handed to HR.           *)
CreateRoute(r) ==
  /\ Move(r, "route", "ok")
  /\ \/ UNCHANGED status
     \/ SetStatus(r, "pending_hr")
  /\ UNCHANGED <<hasRow, pending, used, approvals, req, next>>

-----------------------------------------------------------------------------
(* POST /leave/requests/{id}/approve: ApproveRequest *)

(* Mutant: the role is forgotten, every approval is final. *)
ApproveStartFinal(r, l, role) ==
  /\ role \in {"manager", "hr"}
  /\ Arrive(r, "approve", l, role, "setApproved")
  /\ next' = [next EXCEPT ![r] = "approved"]
  /\ UNCHANGED db

(* RequestInfo, RequiresHRApproval and everything decided from them. A manager   *)
(* is refused when the request is at HR, or is not of an employee of theirs.     *)
ApproveStart(r, l, role) ==
  /\ role \in {"manager", "hr"}
  /\ \/ role = "manager" /\ Arrive(r, "approve", l, role, "refused") /\ UNCHANGED next
     \/ /\ status[l] = "pending_hr" => role = "hr"
        /\ Arrive(r, "approve", l, role, "setApproved")
        /\ \E requiresHR \in PolicyAnswers[AccountOf[l]] :
             next' = [next EXCEPT ![r] =
               IF requiresHR /\ role # "hr" THEN "pending_hr" ELSE "approved"]
  /\ UNCHANGED db

(* UpdateRequestStatus, whatever the status has become. *)
ApproveSet(r) ==
  /\ Move(r, "setApproved", "recordApproval")
  /\ SetStatus(r, next[r])
  /\ UNCHANGED <<hasRow, pending, used, approvals, req, next>>

(* Mutant: a manager's approval books the days before HR has approved. *)
ApproveRecordBooks(r) ==
  /\ Move(r, "recordApproval", "book")
  /\ approvals' = [approvals EXCEPT ![Leave(r)] = @ \cup {req[r].role}]
  /\ UNCHANGED <<status, hasRow, pending, used, req, next>>

(* InsertApproval; only a final approval goes on to the balance. *)
ApproveRecord(r) ==
  /\ Move(r, "recordApproval", IF next[r] = "approved" THEN "book" ELSE "ok")
  /\ approvals' = [approvals EXCEPT ![Leave(r)] = @ \cup {req[r].role}]
  /\ UNCHANGED <<status, hasRow, pending, used, req, next>>

(* Mutant: the days move from used to pending. *)
ApproveBookSwapped(r) ==
  /\ Move(r, "book", "ok")
  /\ pending' = [pending EXCEPT ![Account(r)] = @ + Days(r)]
  /\ used' = [used EXCEPT ![Account(r)] = @ - Days(r)]
  /\ UNCHANGED <<status, hasRow, approvals, req, next>>

(* UpdateBalanceOnApproval: an UPDATE, without effect when there is no row. *)
ApproveBook(r) ==
  /\ Move(r, "book", "ok")
  /\ IF hasRow[Account(r)]
       THEN /\ pending' = [pending EXCEPT ![Account(r)] = @ - Days(r)]
            /\ used' = [used EXCEPT ![Account(r)] = @ + Days(r)]
       ELSE UNCHANGED <<pending, used>>
  /\ UNCHANGED <<status, hasRow, approvals, req, next>>

-----------------------------------------------------------------------------
(* POST /leave/requests/{id}/reject: RejectRequest looks at no status at all,   *)
(* only at whether a manager is the employee's.                                 *)

RejectStart(r, l, role) ==
  /\ role \in {"manager", "hr"}
  /\ \/ role = "manager" /\ Arrive(r, "reject", l, role, "refused")
     \/ Arrive(r, "reject", l, role, "setRejected")
  /\ UNCHANGED <<db, next>>

RejectSet(r) ==
  /\ Move(r, "setRejected", "recordRejection")
  /\ SetStatus(r, "rejected")
  /\ UNCHANGED <<hasRow, pending, used, approvals, req, next>>

RejectRecord(r) ==
  /\ Move(r, "recordRejection", "release")
  /\ UNCHANGED <<db, req, next>>

(* POST /leave/requests/{id}/cancel: CancelRequest refuses an approved request. *)
CancelStart(r, l, role) ==
  /\ Arrive(r, "cancel", l, role,
            IF status[l] = "approved" THEN "refused" ELSE "setCancelled")
  /\ UNCHANGED <<db, next>>

CancelSet(r) ==
  /\ Move(r, "setCancelled", "release")
  /\ SetStatus(r, "cancelled")
  /\ UNCHANGED <<hasRow, pending, used, approvals, req, next>>

(* Mutant: the reservation is not given back. *)
ReleaseNothing(r) == Move(r, "release", "ok") /\ UNCHANGED <<db, req, next>>

(* UpdateBalanceOnReject, of a rejection and of a cancellation. *)
Release(r) ==
  /\ Move(r, "release", "ok")
  /\ pending' = IF hasRow[Account(r)]
                  THEN [pending EXCEPT ![Account(r)] = @ - Days(r)]
                  ELSE pending
  /\ UNCHANGED <<status, hasRow, used, approvals, req, next>>

-----------------------------------------------------------------------------

(* AdjustBalance and an accrual create the row of an account that has none. *)
CreateBalanceRow(a) ==
  /\ ~hasRow[a]
  /\ hasRow' = [hasRow EXCEPT ![a] = TRUE]
  /\ UNCHANGED <<status, pending, used, approvals, req, pc, next>>

(* A statement fails, the client disconnects or the process dies: nothing is    *)
(* undone and nothing resumes the request.                                      *)
Fail(r) ==
  /\ InFlight(r) /\ Leave(r) \notin Calm
  /\ pc' = [pc EXCEPT ![r] = "failed"]
  /\ UNCHANGED <<db, req, next>>

Create(r) == (\E l \in Leaves : CreateInsert(r, l)) \/ CreateReserve(r) \/ CreateRoute(r)

Approve(r) == \/ \E l \in Leaves, role \in Roles : ApproveStart(r, l, role)
              \/ ApproveSet(r) \/ ApproveRecord(r) \/ ApproveBook(r)

Reject(r) == \/ \E l \in Leaves, role \in Roles : RejectStart(r, l, role)
             \/ RejectSet(r) \/ RejectRecord(r)

Cancel(r) == \/ \E l \in Leaves, role \in Roles : CancelStart(r, l, role)
             \/ CancelSet(r)

Next == \/ \E r \in Requests : Create(r) \/ Approve(r) \/ Reject(r) \/ Cancel(r)
                               \/ Release(r) \/ Fail(r)
        \/ \E a \in Accounts : CreateBalanceRow(a)

Spec == Init /\ [][Next]_vars

-----------------------------------------------------------------------------
(* Properties *)

TypeOK ==
  /\ status \in [Leaves -> Statuses \cup {"none"}]
  /\ hasRow \in [Accounts -> BOOLEAN]
  /\ pending \in [Accounts -> Int]
  /\ used \in [Accounts -> Nat]
  /\ approvals \in [Leaves -> SUBSET Roles]
  /\ req \in [Requests -> [op : Ops, leave : Leaves, role : Roles] \cup {None}]
  /\ pc \in [Requests -> Labels]
  /\ next \in [Requests -> {"approved", "pending_hr", None}]

(* The state of a calm leave as its balance row reflects it: a status that has   *)
(* been written while the balance has not is not reflected yet.                  *)
Reflected(l) ==
  LET Underway(labels) == \E r \in Requests : pc[r] \in labels /\ Leave(r) = l
  IN IF status[l] = "none" \/ Underway({"reserve"}) THEN "unsubmitted"
     ELSE IF \/ status[l] \in Open
             \/ Underway({"recordApproval", "book", "recordRejection", "release"}) THEN "open"
     ELSE IF status[l] = "approved" THEN "granted"
     ELSE "closed"

CalmAccounts == {AccountOf[l] : l \in Calm}

Ledger == INSTANCE LeaveLedger WITH
  Leaves <- Calm, Accounts <- CalmAccounts,
  state <- [l \in Calm |-> Reflected(l)],
  pending <- [a \in CalmAccounts |-> pending[a]],
  used <- [a \in CalmAccounts |-> used[a]]

(* Calm leaves keep the ledger's promise although their status and their balance *)
(* are written by separate statements, other leaves of the same account are      *)
(* served at the same time, and requests race and die on other accounts.         *)
LedgerSpec == Ledger!Spec

(* A calm account always adds up to its leaves ("expected used=0.5 pending=0     *)
(* after approval+rejection flow").                                              *)
Balanced == Ledger!Balanced

(* A leave whose policy requires HR becomes approved only by an HR user's        *)
(* request, however requests race and fail ("hr approval required"). A lookup    *)
(* that fails answers FALSE, so only accounts whose lookup is sure are meant.    *)
ApprovedByHR ==
  [][\A l \in Leaves :
       /\ PolicyAnswers[AccountOf[l]] = {TRUE}
       /\ status'[l] = "approved" /\ status[l] # "approved"
       => \E r \in Requests : /\ pc[r] = "setApproved" /\ pc'[r] # pc[r]
                              /\ Leave(r) = l /\ req[r].role = "hr"]_vars

(* An approved leave is cancelled by HR only ("approved requests require HR      *)
(* cancellation").                                                               *)
ApprovedCancelledByHROnly ==
  [][\A l \in Leaves : status[l] = "approved" /\ status'[l] = "cancelled"
       => \E r \in Requests : /\ pc[r] = "setCancelled" /\ pc'[r] # pc[r]
                              /\ Leave(r) = l /\ req[r].role = "hr"]_vars
=============================================================================
