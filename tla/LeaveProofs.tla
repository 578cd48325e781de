---------------------------- MODULE LeaveProofs ----------------------------
(* Proofs about LeaveRequest for any leaves, accounts, requests and policies. *)
EXTENDS LeaveRequest, FiniteSetTheorems, TLAPS

(* What a request knows at the labels that use it. *)
RequestOK(r) ==
  /\ pc[r] # "new" => req[r] \in [op : Ops, leave : Leaves, role : Roles]
  /\ pc[r] \in {"setApproved", "recordApproval", "book"} =>
       /\ next[r] \in {"approved", "pending_hr"}
       /\ PolicyAnswers[AccountOf[Leave(r)]] = {TRUE} /\ next[r] = "approved"
            => req[r].role = "hr"
  /\ pc[r] = "book" => next[r] = "approved"

LocalInv == \A r \in Requests : RequestOK(r)

(* Requests about a calm leave come one at a time, and the status each one saw  *)
(* is the status until it writes one of its own.                                *)
CalmInv ==
  /\ \A q, r \in Requests :
       InFlight(q) /\ InFlight(r) /\ Leave(q) = Leave(r) /\ Leave(r) \in Calm => q = r
  /\ \A r \in Requests : InFlight(r) /\ Leave(r) \in Calm =>
       /\ pc[r] \in {"reserve", "route", "setCancelled"} => status[Leave(r)] = "pending"
       /\ pc[r] \in {"setApproved", "setRejected"} => status[Leave(r)] \in Open
       /\ pc[r] \in {"recordApproval", "book"} => status[Leave(r)] = next[r]
       /\ pc[r] \in {"recordRejection", "release"}
            => status[Leave(r)] \in {"rejected", "cancelled"}

(* The balance row of a calm leave exists once its days are reserved. *)
RowInv ==
  \A l \in Calm :
    \/ status[l] = "none" \/ hasRow[AccountOf[l]]
    \/ \E r \in Requests : pc[r] = "reserve" /\ Leave(r) = l

IInv == TypeOK /\ LocalInv /\ CalmInv /\ RowInv
-----------------------------------------------------------------------------
USE DEF Labels, Done, Ops, Statuses, Roles, Open, Move, Leave

(* The inductive invariant holds initially. *)
LEMMA InitIInv == Init => IInv
BY NoneAssumption, LeaveAssumption, CalmAssumption
DEF Init, IInv, TypeOK, LocalInv, RequestOK, CalmInv, RowInv, InFlight

(* Past its arrival, a request is about a leave with an account and a length. *)
LEMMA RequestFacts ==
  ASSUME NEW r \in Requests, LocalInv, pc[r] # "new"
  PROVE  /\ Leave(r) \in Leaves /\ req[r].role \in Roles
         /\ Account(r) \in Accounts /\ Days(r) \in Nat \ {0}
BY LeaveAssumption DEF LocalInv, RequestOK, Account, Days

(* Every statement of a handler keeps the types. *)
LEMMA TypeStep == IInv /\ [Next]_vars => TypeOK'
<1> SUFFICES ASSUME IInv, [Next]_vars PROVE TypeOK'
  OBVIOUS
<1> USE DEF IInv
<1>1. ASSUME NEW r \in Requests, NEW l \in Leaves, CreateInsert(r, l) PROVE TypeOK'
  BY <1>1, LeaveAssumption DEF CreateInsert, Arrive, TypeOK, LocalInv, RequestOK, Account, Days, db
<1>2. ASSUME NEW r \in Requests, CreateReserve(r) PROVE TypeOK'
  <2>1. Account(r) \in Accounts /\ Days(r) \in Nat
    BY <1>2, RequestFacts DEF CreateReserve
  <2>2. QED
    BY <1>2, <2>1 DEF CreateReserve, TypeOK
<1>3. ASSUME NEW r \in Requests, CreateRoute(r) PROVE TypeOK'
  BY <1>3, LeaveAssumption DEF CreateRoute, SetStatus, TypeOK, LocalInv, RequestOK, Account, Days, db
<1>4. ASSUME NEW r \in Requests, NEW l \in Leaves, NEW role \in Roles, ApproveStart(r, l, role) PROVE TypeOK'
  BY <1>4, LeaveAssumption DEF ApproveStart, Arrive, TypeOK, LocalInv, RequestOK, Account, Days, db
<1>5. ASSUME NEW r \in Requests, ApproveSet(r) PROVE TypeOK'
  BY <1>5, LeaveAssumption DEF ApproveSet, SetStatus, TypeOK, LocalInv, RequestOK, Account, Days, db
<1>6. ASSUME NEW r \in Requests, ApproveRecord(r) PROVE TypeOK'
  BY <1>6, LeaveAssumption DEF ApproveRecord, TypeOK, LocalInv, RequestOK, Account, Days, db
<1>7. ASSUME NEW r \in Requests, ApproveBook(r) PROVE TypeOK'
  <2>1. Account(r) \in Accounts /\ Days(r) \in Nat
    BY <1>7, RequestFacts DEF ApproveBook
  <2>2. QED
    BY <1>7, <2>1 DEF ApproveBook, TypeOK
<1>8. ASSUME NEW r \in Requests, NEW l \in Leaves, NEW role \in Roles, RejectStart(r, l, role) PROVE TypeOK'
  BY <1>8, LeaveAssumption DEF RejectStart, Arrive, TypeOK, LocalInv, RequestOK, Account, Days, db
<1>9. ASSUME NEW r \in Requests, RejectSet(r) PROVE TypeOK'
  BY <1>9, LeaveAssumption DEF RejectSet, SetStatus, TypeOK, LocalInv, RequestOK, Account, Days, db
<1>10. ASSUME NEW r \in Requests, RejectRecord(r) PROVE TypeOK'
  BY <1>10, LeaveAssumption DEF RejectRecord, TypeOK, LocalInv, RequestOK, Account, Days, db
<1>11. ASSUME NEW r \in Requests, NEW l \in Leaves, NEW role \in Roles, CancelStart(r, l, role) PROVE TypeOK'
  BY <1>11, LeaveAssumption DEF CancelStart, Arrive, TypeOK, LocalInv, RequestOK, Account, Days, db
<1>12. ASSUME NEW r \in Requests, CancelSet(r) PROVE TypeOK'
  BY <1>12, LeaveAssumption DEF CancelSet, SetStatus, TypeOK, LocalInv, RequestOK, Account, Days, db
<1>13. ASSUME NEW r \in Requests, Release(r) PROVE TypeOK'
  <2>1. Account(r) \in Accounts /\ Days(r) \in Nat
    BY <1>13, RequestFacts DEF Release
  <2>2. QED
    BY <1>13, <2>1 DEF Release, TypeOK
<1>14. ASSUME NEW r \in Requests, Fail(r) PROVE TypeOK'
  BY <1>14, LeaveAssumption DEF Fail, InFlight, TypeOK, LocalInv, RequestOK, Account, Days, db
<1>15. ASSUME NEW a \in Accounts, CreateBalanceRow(a) PROVE TypeOK'
  BY <1>15, LeaveAssumption DEF CreateBalanceRow, TypeOK, LocalInv, RequestOK, Account, Days, db
<1>16. CASE UNCHANGED vars
  BY <1>16 DEF vars, TypeOK, LocalInv, RequestOK, Account, Days
<1>17. QED
  BY <1>1, <1>2, <1>3, <1>4, <1>5, <1>6, <1>7, <1>8, <1>9, <1>10, <1>11, <1>12, <1>13, <1>14, <1>15, <1>16 DEF Next, Create, Approve, Reject, Cancel

(* A read-only arrival keeps what holds of calm leaves: the status the page showed *)
(* is the status the handler starts from.                                          *)
LEMMA ArriveCalm ==
  ASSUME TypeOK, LocalInv, CalmInv, NEW r \in Requests, NEW l \in Leaves,
         Leave(r)' = l, status' = status,
         pc'[r] \in Done \cup {"setApproved", "setRejected", "setCancelled"},
         \A q \in Requests \ {r} : pc'[q] = pc[q] /\ req'[q] = req[q] /\ next'[q] = next[q],
         l \in Calm => /\ \A q \in Requests : InFlight(q) => Leave(q) # l
                       /\ pc'[r] = "setCancelled" => status[l] = "pending"
                       /\ pc'[r] \in {"setApproved", "setRejected"} => status[l] \in Open
  PROVE  CalmInv'
<1>1. \A q \in Requests \ {r} : Leave(q)' = Leave(q) /\ pc'[q] = pc[q]
  OBVIOUS
<1>2. \A q \in Requests \ {r} : InFlight(q)' <=> InFlight(q)
  BY <1>1 DEF InFlight
<1>3. ASSUME NEW p \in Requests, NEW q \in Requests, InFlight(p)', InFlight(q)',
             Leave(p)' = Leave(q)', Leave(q)' \in Calm
      PROVE  p = q
  BY <1>3, <1>1, <1>2 DEF CalmInv
<1>4. ASSUME NEW q \in Requests, InFlight(q)', Leave(q)' \in Calm
      PROVE  /\ pc'[q] \in {"reserve", "route", "setCancelled"} => status'[Leave(q)'] = "pending"
             /\ pc'[q] \in {"setApproved", "setRejected"} => status'[Leave(q)'] \in Open
             /\ pc'[q] \in {"recordApproval", "book"} => status'[Leave(q)'] = next'[q]
             /\ pc'[q] \in {"recordRejection", "release"}
                  => status'[Leave(q)'] \in {"rejected", "cancelled"}
  <2>1. CASE q = r
    BY <1>4, <2>1
  <2>2. CASE q # r
    BY <1>4, <1>1, <1>2, <2>2 DEF CalmInv
  <2>3. QED
    BY <2>1, <2>2
<1>5. QED
  BY <1>3, <1>4 DEF CalmInv

(* A status is only overwritten after the reservation of its leave. *)
LEMMA OverwriteRow ==
  ASSUME TypeOK, LocalInv, CalmInv, RowInv, NEW r \in Requests,
         pc[r] \in {"route", "setApproved", "setRejected", "setCancelled"},
         \A q \in Requests \ {r} : pc'[q] = pc[q],
         \A l \in Leaves \ {Leave(r)} : status'[l] = status[l],
         hasRow' = hasRow, req' = req
  PROVE  RowInv'
<1> SUFFICES ASSUME NEW l \in Calm
             PROVE  \/ status'[l] = "none" \/ hasRow[AccountOf[l]]
                    \/ \E q \in Requests : pc'[q] = "reserve" /\ Leave(q) = l
  BY DEF RowInv
<1>1. CASE l = Leave(r)
  <2>1. InFlight(r)
    BY DEF InFlight
  <2>2. status[l] # "none"
    BY <1>1, <2>1 DEF CalmInv
  <2>3. ~ \E q \in Requests : pc[q] = "reserve" /\ Leave(q) = l
    BY <1>1, <2>1 DEF CalmInv, InFlight
  <2>4. QED
    BY <2>2, <2>3 DEF RowInv
<1>2. CASE l # Leave(r)
  <2>1. status'[l] = status[l]
    BY <1>2, CalmAssumption DEF TypeOK
  <2>2. \A q \in Requests : pc[q] = "reserve" => pc'[q] = "reserve"
    BY DEF TypeOK
  <2>3. QED
    BY <2>1, <2>2 DEF RowInv
<1>3. QED
  BY <1>1, <1>2

(* A request that moves to another label keeps what that label needs.           *)
LEMMA MoveLocal ==
  ASSUME TypeOK, LocalInv, NEW r \in Requests, NEW label,
         pc[r] # "new", pc' = [pc EXCEPT ![r] = label], req' = req, next' = next,
         \/ label \notin {"setApproved", "recordApproval", "book"}
         \/ pc[r] = "setApproved" /\ label = "recordApproval"
         \/ pc[r] = "recordApproval" /\ label = "book" /\ next[r] = "approved"
  PROVE  LocalInv'
<1>1. RequestOK(r)'
  BY DEF LocalInv, RequestOK, TypeOK
<1>2. ASSUME NEW q \in Requests, q # r PROVE RequestOK(q)'
  BY <1>2 DEF LocalInv, RequestOK, TypeOK
<1>3. QED
  BY <1>1, <1>2 DEF LocalInv

(* A request that arrives knows what it asks for; one that is not yet granted    *)
(* needs no more.                                                                *)
LEMMA ArriveLocal ==
  ASSUME TypeOK, LocalInv, next' = next,
         NEW r \in Requests, NEW op \in Ops, NEW l \in Leaves, NEW role \in Roles,
         NEW label \in Done \cup {"reserve", "setRejected", "setCancelled"},
         Arrive(r, op, l, role, label)
  PROVE  LocalInv'
<1>1. RequestOK(r)'
  BY DEF Arrive, RequestOK, TypeOK
<1>2. ASSUME NEW q \in Requests, q # r PROVE RequestOK(q)'
  BY <1>2 DEF Arrive, LocalInv, RequestOK, TypeOK
<1>3. QED
  BY <1>1, <1>2 DEF LocalInv

(* Every statement leaves its request with what the next label needs. *)
LEMMA LocalStep == IInv /\ [Next]_vars => LocalInv'
<1> SUFFICES ASSUME IInv, [Next]_vars PROVE LocalInv'
  OBVIOUS
<1> USE DEF IInv
<1>1. ASSUME NEW r \in Requests, NEW l \in Leaves, CreateInsert(r, l) PROVE LocalInv'
  BY <1>1, ArriveLocal DEF CreateInsert
<1>2. ASSUME NEW r \in Requests, CreateReserve(r) PROVE LocalInv'
  BY <1>2, MoveLocal DEF CreateReserve
<1>3. ASSUME NEW r \in Requests, CreateRoute(r) PROVE LocalInv'
  BY <1>3, MoveLocal DEF CreateRoute
<1>4. ASSUME NEW r \in Requests, NEW l \in Leaves, NEW role \in Roles, ApproveStart(r, l, role) PROVE LocalInv'
  <2>1. CASE Arrive(r, "approve", l, role, "refused") /\ UNCHANGED next
    BY <2>1, ArriveLocal
  <2>2. ASSUME NEW requiresHR \in PolicyAnswers[AccountOf[l]],
               Arrive(r, "approve", l, role, "setApproved"),
               next' = [next EXCEPT ![r] =
                 IF requiresHR /\ role # "hr" THEN "pending_hr" ELSE "approved"]
        PROVE  LocalInv'
    <3>1. PolicyAnswers[AccountOf[l]] = {TRUE} => requiresHR
      OBVIOUS
    <3>2. RequestOK(r)'
      BY <2>2, <3>1 DEF Arrive, RequestOK, TypeOK
    <3>3. ASSUME NEW q \in Requests, q # r PROVE RequestOK(q)'
      BY <2>2, <3>3 DEF Arrive, LocalInv, RequestOK, TypeOK
    <3>4. QED
      BY <3>2, <3>3 DEF LocalInv
  <2>3. QED
    BY <1>4, <2>1, <2>2 DEF ApproveStart
<1>5. ASSUME NEW r \in Requests, ApproveSet(r) PROVE LocalInv'
  BY <1>5, MoveLocal DEF ApproveSet
<1>6. ASSUME NEW r \in Requests, ApproveRecord(r) PROVE LocalInv'
  BY <1>6, MoveLocal DEF ApproveRecord
<1>7. ASSUME NEW r \in Requests, ApproveBook(r) PROVE LocalInv'
  BY <1>7, MoveLocal DEF ApproveBook
<1>8. ASSUME NEW r \in Requests, NEW l \in Leaves, NEW role \in Roles, RejectStart(r, l, role) PROVE LocalInv'
  BY <1>8, ArriveLocal DEF RejectStart
<1>9. ASSUME NEW r \in Requests, RejectSet(r) PROVE LocalInv'
  BY <1>9, MoveLocal DEF RejectSet
<1>10. ASSUME NEW r \in Requests, RejectRecord(r) PROVE LocalInv'
  BY <1>10, MoveLocal DEF RejectRecord
<1>11. ASSUME NEW r \in Requests, NEW l \in Leaves, NEW role \in Roles, CancelStart(r, l, role) PROVE LocalInv'
  BY <1>11, ArriveLocal DEF CancelStart
<1>12. ASSUME NEW r \in Requests, CancelSet(r) PROVE LocalInv'
  BY <1>12, MoveLocal DEF CancelSet
<1>13. ASSUME NEW r \in Requests, Release(r) PROVE LocalInv'
  BY <1>13, MoveLocal DEF Release
<1>14. ASSUME NEW r \in Requests, Fail(r) PROVE LocalInv'
  BY <1>14, MoveLocal DEF Fail, InFlight
<1>15. ASSUME NEW a \in Accounts, CreateBalanceRow(a) PROVE LocalInv'
  BY <1>15, LeaveAssumption, NoneAssumption DEF CreateBalanceRow, LocalInv, RequestOK, TypeOK, db
<1>16. CASE UNCHANGED vars
  BY <1>16 DEF vars, LocalInv, RequestOK, TypeOK
<1>17. QED
  BY <1>1, <1>2, <1>3, <1>4, <1>5, <1>6, <1>7, <1>8, <1>9, <1>10, <1>11, <1>12, <1>13, <1>14, <1>15, <1>16 DEF Next, Create, Approve, Reject, Cancel

(* Nothing interferes with the request a calm leave is in. *)
LEMMA CalmStep == IInv /\ [Next]_vars => CalmInv'
<1> SUFFICES ASSUME IInv, [Next]_vars PROVE CalmInv'
  OBVIOUS
<1> USE DEF IInv
<1>1. ASSUME NEW r \in Requests, NEW l \in Leaves, CreateInsert(r, l) PROVE CalmInv'
  BY <1>1, NoneAssumption, CalmAssumption DEF CreateInsert, Arrive, CalmInv, LocalInv, RequestOK, TypeOK, InFlight, db
<1>2. ASSUME NEW r \in Requests, CreateReserve(r) PROVE CalmInv'
  BY <1>2, NoneAssumption, CalmAssumption DEF CreateReserve, CalmInv, LocalInv, RequestOK, TypeOK, InFlight, db
<1>3. ASSUME NEW r \in Requests, CreateRoute(r) PROVE CalmInv'
  BY <1>3, NoneAssumption, CalmAssumption DEF CreateRoute, SetStatus, CalmInv, LocalInv, RequestOK, TypeOK, InFlight, db
<1>4. ASSUME NEW r \in Requests, NEW l \in Leaves, NEW role \in Roles, ApproveStart(r, l, role) PROVE CalmInv'
  <2>1. Leave(r)' = l /\ status' = status
    BY <1>4 DEF ApproveStart, Arrive, TypeOK, db
  <2>2. \A q \in Requests \ {r} : pc'[q] = pc[q] /\ req'[q] = req[q] /\ next'[q] = next[q]
    BY <1>4 DEF ApproveStart, Arrive, TypeOK
  <2>3. pc'[r] \in Done \cup {"setApproved", "setRejected", "setCancelled"}
    BY <1>4 DEF ApproveStart, Arrive, TypeOK
  <2>4. l \in Calm =>
          /\ \A q \in Requests : InFlight(q) => Leave(q) # l
          /\ pc'[r] = "setCancelled" => status[l] = "pending"
          /\ pc'[r] \in {"setApproved", "setRejected"} => status[l] \in Open
    BY <1>4 DEF ApproveStart, Arrive, Offered, TypeOK
  <2>5. QED
    BY <2>1, <2>2, <2>3, <2>4, ArriveCalm
<1>5. ASSUME NEW r \in Requests, ApproveSet(r) PROVE CalmInv'
  BY <1>5, NoneAssumption, CalmAssumption DEF ApproveSet, SetStatus, CalmInv, LocalInv, RequestOK, TypeOK, InFlight, db
<1>6. ASSUME NEW r \in Requests, ApproveRecord(r) PROVE CalmInv'
  BY <1>6, NoneAssumption, CalmAssumption DEF ApproveRecord, CalmInv, LocalInv, RequestOK, TypeOK, InFlight, db
<1>7. ASSUME NEW r \in Requests, ApproveBook(r) PROVE CalmInv'
  BY <1>7, NoneAssumption, CalmAssumption DEF ApproveBook, CalmInv, LocalInv, RequestOK, TypeOK, InFlight, db
<1>8. ASSUME NEW r \in Requests, NEW l \in Leaves, NEW role \in Roles, RejectStart(r, l, role) PROVE CalmInv'
  <2>1. Leave(r)' = l /\ status' = status
    BY <1>8 DEF RejectStart, Arrive, TypeOK, db
  <2>2. \A q \in Requests \ {r} : pc'[q] = pc[q] /\ req'[q] = req[q] /\ next'[q] = next[q]
    BY <1>8 DEF RejectStart, Arrive, TypeOK
  <2>3. pc'[r] \in Done \cup {"setApproved", "setRejected", "setCancelled"}
    BY <1>8 DEF RejectStart, Arrive, TypeOK
  <2>4. l \in Calm =>
          /\ \A q \in Requests : InFlight(q) => Leave(q) # l
          /\ pc'[r] = "setCancelled" => status[l] = "pending"
          /\ pc'[r] \in {"setApproved", "setRejected"} => status[l] \in Open
    BY <1>8 DEF RejectStart, Arrive, Offered, TypeOK
  <2>5. QED
    BY <2>1, <2>2, <2>3, <2>4, ArriveCalm
<1>9. ASSUME NEW r \in Requests, RejectSet(r) PROVE CalmInv'
  BY <1>9, NoneAssumption, CalmAssumption DEF RejectSet, SetStatus, CalmInv, LocalInv, RequestOK, TypeOK, InFlight, db
<1>10. ASSUME NEW r \in Requests, RejectRecord(r) PROVE CalmInv'
  BY <1>10, NoneAssumption, CalmAssumption DEF RejectRecord, CalmInv, LocalInv, RequestOK, TypeOK, InFlight, db
<1>11. ASSUME NEW r \in Requests, NEW l \in Leaves, NEW role \in Roles, CancelStart(r, l, role) PROVE CalmInv'
  <2>1. Leave(r)' = l /\ status' = status
    BY <1>11 DEF CancelStart, Arrive, TypeOK, db
  <2>2. \A q \in Requests \ {r} : pc'[q] = pc[q] /\ req'[q] = req[q] /\ next'[q] = next[q]
    BY <1>11 DEF CancelStart, Arrive, TypeOK
  <2>3. pc'[r] \in Done \cup {"setApproved", "setRejected", "setCancelled"}
    BY <1>11 DEF CancelStart, Arrive, TypeOK
  <2>4. l \in Calm =>
          /\ \A q \in Requests : InFlight(q) => Leave(q) # l
          /\ pc'[r] = "setCancelled" => status[l] = "pending"
          /\ pc'[r] \in {"setApproved", "setRejected"} => status[l] \in Open
    BY <1>11 DEF CancelStart, Arrive, Offered, TypeOK
  <2>5. QED
    BY <2>1, <2>2, <2>3, <2>4, ArriveCalm
<1>12. ASSUME NEW r \in Requests, CancelSet(r) PROVE CalmInv'
  BY <1>12, NoneAssumption, CalmAssumption DEF CancelSet, SetStatus, CalmInv, LocalInv, RequestOK, TypeOK, InFlight, db
<1>13. ASSUME NEW r \in Requests, Release(r) PROVE CalmInv'
  BY <1>13, NoneAssumption, CalmAssumption DEF Release, CalmInv, LocalInv, RequestOK, TypeOK, InFlight, db
<1>14. ASSUME NEW r \in Requests, Fail(r) PROVE CalmInv'
  BY <1>14, NoneAssumption, CalmAssumption DEF Fail, CalmInv, LocalInv, RequestOK, TypeOK, InFlight, db
<1>15. ASSUME NEW a \in Accounts, CreateBalanceRow(a) PROVE CalmInv'
  BY <1>15, NoneAssumption, CalmAssumption DEF CreateBalanceRow, CalmInv, LocalInv, RequestOK, TypeOK, InFlight, db
<1>16. CASE UNCHANGED vars
  BY <1>16 DEF vars, CalmInv, LocalInv, RequestOK, TypeOK, InFlight
<1>17. QED
  BY <1>1, <1>2, <1>3, <1>4, <1>5, <1>6, <1>7, <1>8, <1>9, <1>10, <1>11, <1>12, <1>13, <1>14, <1>15, <1>16 DEF Next, Create, Approve, Reject, Cancel

(* A statement that writes neither a status nor the existence of a balance row,  *)
(* and leaves the requests that are about to reserve alone, keeps RowInv.        *)
LEMMA RowKept ==
  ASSUME RowInv, status' = status, hasRow' = hasRow,
         \A q \in Requests : pc[q] = "reserve" => pc'[q] = "reserve" /\ req'[q] = req[q]
  PROVE  RowInv'
BY DEF RowInv

(* A reservation creates the balance row, which stays. *)
LEMMA RowStep == IInv /\ [Next]_vars => RowInv'
<1> SUFFICES ASSUME IInv, [Next]_vars PROVE RowInv'
  OBVIOUS
<1> USE DEF IInv
<1>1. ASSUME NEW r \in Requests, NEW l \in Leaves, CreateInsert(r, l) PROVE RowInv'
  BY <1>1, LeaveAssumption, CalmAssumption DEF CreateInsert, Arrive, RowInv, LocalInv, RequestOK, TypeOK, Account, db
<1>2. ASSUME NEW r \in Requests, CreateReserve(r) PROVE RowInv'
  BY <1>2, LeaveAssumption, CalmAssumption DEF CreateReserve, RowInv, LocalInv, RequestOK, TypeOK, Account, db
<1>3. ASSUME NEW r \in Requests, CreateRoute(r) PROVE RowInv'
  <2>1. CASE UNCHANGED status
    BY <1>3, <2>1 DEF CreateRoute, RowInv, TypeOK
  <2>2. CASE SetStatus(r, "pending_hr")
    BY <1>3, <2>2, OverwriteRow DEF CreateRoute, SetStatus, TypeOK
  <2>3. QED
    BY <1>3, <2>1, <2>2 DEF CreateRoute
<1>4. ASSUME NEW r \in Requests, NEW l \in Leaves, NEW role \in Roles, ApproveStart(r, l, role) PROVE RowInv'
  <2>1. status' = status /\ hasRow' = hasRow
    BY <1>4 DEF ApproveStart, Arrive, db
  <2>2. \A q \in Requests : pc[q] = "reserve" => pc'[q] = "reserve" /\ req'[q] = req[q]
    BY <1>4 DEF ApproveStart, Arrive, TypeOK
  <2>3. QED
    BY <2>1, <2>2, RowKept
<1>5. ASSUME NEW r \in Requests, ApproveSet(r) PROVE RowInv'
  BY <1>5, OverwriteRow DEF ApproveSet, SetStatus, TypeOK
<1>6. ASSUME NEW r \in Requests, ApproveRecord(r) PROVE RowInv'
  <2>1. status' = status /\ hasRow' = hasRow
    BY <1>6 DEF ApproveRecord, db
  <2>2. \A q \in Requests : pc[q] = "reserve" => pc'[q] = "reserve" /\ req'[q] = req[q]
    BY <1>6 DEF ApproveRecord, TypeOK
  <2>3. QED
    BY <2>1, <2>2, RowKept
<1>7. ASSUME NEW r \in Requests, ApproveBook(r) PROVE RowInv'
  <2>1. status' = status /\ hasRow' = hasRow
    BY <1>7 DEF ApproveBook, db
  <2>2. \A q \in Requests : pc[q] = "reserve" => pc'[q] = "reserve" /\ req'[q] = req[q]
    BY <1>7 DEF ApproveBook, TypeOK
  <2>3. QED
    BY <2>1, <2>2, RowKept
<1>8. ASSUME NEW r \in Requests, NEW l \in Leaves, NEW role \in Roles, RejectStart(r, l, role) PROVE RowInv'
  <2>1. status' = status /\ hasRow' = hasRow
    BY <1>8 DEF RejectStart, Arrive, db
  <2>2. \A q \in Requests : pc[q] = "reserve" => pc'[q] = "reserve" /\ req'[q] = req[q]
    BY <1>8 DEF RejectStart, Arrive, TypeOK
  <2>3. QED
    BY <2>1, <2>2, RowKept
<1>9. ASSUME NEW r \in Requests, RejectSet(r) PROVE RowInv'
  BY <1>9, OverwriteRow DEF RejectSet, SetStatus, TypeOK
<1>10. ASSUME NEW r \in Requests, RejectRecord(r) PROVE RowInv'
  <2>1. status' = status /\ hasRow' = hasRow
    BY <1>10 DEF RejectRecord, db
  <2>2. \A q \in Requests : pc[q] = "reserve" => pc'[q] = "reserve" /\ req'[q] = req[q]
    BY <1>10 DEF RejectRecord, TypeOK
  <2>3. QED
    BY <2>1, <2>2, RowKept
<1>11. ASSUME NEW r \in Requests, NEW l \in Leaves, NEW role \in Roles, CancelStart(r, l, role) PROVE RowInv'
  <2>1. status' = status /\ hasRow' = hasRow
    BY <1>11 DEF CancelStart, Arrive, db
  <2>2. \A q \in Requests : pc[q] = "reserve" => pc'[q] = "reserve" /\ req'[q] = req[q]
    BY <1>11 DEF CancelStart, Arrive, TypeOK
  <2>3. QED
    BY <2>1, <2>2, RowKept
<1>12. ASSUME NEW r \in Requests, CancelSet(r) PROVE RowInv'
  BY <1>12, OverwriteRow DEF CancelSet, SetStatus, TypeOK
<1>13. ASSUME NEW r \in Requests, Release(r) PROVE RowInv'
  <2>1. status' = status /\ hasRow' = hasRow
    BY <1>13 DEF Release, db
  <2>2. \A q \in Requests : pc[q] = "reserve" => pc'[q] = "reserve" /\ req'[q] = req[q]
    BY <1>13 DEF Release, TypeOK
  <2>3. QED
    BY <2>1, <2>2, RowKept
<1>14. ASSUME NEW r \in Requests, Fail(r) PROVE RowInv'
  BY <1>14, LeaveAssumption, CalmAssumption DEF Fail, InFlight, RowInv, LocalInv, RequestOK, TypeOK, Account, db
<1>15. ASSUME NEW a \in Accounts, CreateBalanceRow(a) PROVE RowInv'
  BY <1>15, LeaveAssumption, CalmAssumption DEF CreateBalanceRow, RowInv, LocalInv, RequestOK, TypeOK, Account, db
<1>16. CASE UNCHANGED vars
  BY <1>16 DEF vars, RowInv, LocalInv, RequestOK, TypeOK, Account
<1>17. QED
  BY <1>1, <1>2, <1>3, <1>4, <1>5, <1>6, <1>7, <1>8, <1>9, <1>10, <1>11, <1>12, <1>13, <1>14, <1>15, <1>16 DEF Next, Create, Approve, Reject, Cancel

-----------------------------------------------------------------------------
(* The invariant and what follows from it *)

(* Every reachable state satisfies the inductive invariant. *)
THEOREM Invariance == Spec => []IInv
<1>1. IInv /\ [Next]_vars => IInv'
  BY TypeStep, LocalStep, CalmStep, RowStep DEF IInv
<1>2. QED
  BY InitIInv, <1>1, PTL DEF Spec

(* Statuses, balances and requests keep their types; in particular the booked   *)
(* days of an account are never negative, whatever races and fails.             *)
THEOREM TypeCorrect == Spec => []TypeOK
<1>1. IInv => TypeOK
  BY DEF IInv
<1>2. QED
  BY Invariance, <1>1, PTL

(* A leave whose policy requires HR is approved by HR only, for any number of   *)
(* requests that race and fail in any order.                                    *)
THEOREM HRApproves == Spec => ApprovedByHR
<1> DEFINE Step == \A l \in Leaves :
       /\ PolicyAnswers[AccountOf[l]] = {TRUE}
       /\ status'[l] = "approved" /\ status[l] # "approved"
       => \E r \in Requests : /\ pc[r] = "setApproved" /\ pc'[r] # pc[r]
                              /\ Leave(r) = l /\ req[r].role = "hr"
<1>1. IInv /\ [Next]_vars => [Step]_vars
  <2> SUFFICES ASSUME IInv, Next, NEW l \in Leaves,
                      PolicyAnswers[AccountOf[l]] = {TRUE},
                      status'[l] = "approved", status[l] # "approved"
               PROVE  \E r \in Requests : /\ pc[r] = "setApproved" /\ pc'[r] # pc[r]
                                          /\ Leave(r) = l /\ req[r].role = "hr"
    OBVIOUS
  <2> USE DEF IInv
  <2>1. ASSUME NEW r \in Requests, NEW m \in Leaves, CreateInsert(r, m) PROVE FALSE
    BY <2>1 DEF CreateInsert, TypeOK
  <2>2. ASSUME NEW r \in Requests, CreateRoute(r) PROVE FALSE
    BY <2>2 DEF CreateRoute, SetStatus, TypeOK
  <2>3. ASSUME NEW r \in Requests, ApproveSet(r)
        PROVE  /\ pc[r] = "setApproved" /\ pc'[r] # pc[r]
               /\ Leave(r) = l /\ req[r].role = "hr"
    <3>1. Leave(r) = l /\ next[r] = "approved"
      BY <2>3 DEF ApproveSet, SetStatus, TypeOK
    <3>2. req[r].role = "hr"
      BY <2>3, <3>1 DEF ApproveSet, LocalInv, RequestOK
    <3>3. QED
      BY <2>3, <3>1, <3>2 DEF ApproveSet, TypeOK
  <2>4. ASSUME NEW r \in Requests, RejectSet(r) \/ CancelSet(r) PROVE FALSE
    BY <2>4 DEF RejectSet, CancelSet, SetStatus, TypeOK
  <2>5. ASSUME NEW r \in Requests, NEW m \in Leaves, NEW role \in Roles,
               ApproveStart(r, m, role) \/ RejectStart(r, m, role) \/ CancelStart(r, m, role)
        PROVE  FALSE
    BY <2>5 DEF ApproveStart, RejectStart, CancelStart, db
  <2>6. ASSUME NEW r \in Requests,
               CreateReserve(r) \/ ApproveRecord(r) \/ ApproveBook(r) \/ RejectRecord(r)
                 \/ Release(r) \/ Fail(r)
        PROVE  FALSE
    BY <2>6 DEF CreateReserve, ApproveRecord, ApproveBook, RejectRecord, Release, Fail, db
  <2>7. ASSUME NEW a \in Accounts, CreateBalanceRow(a) PROVE FALSE
    BY <2>7 DEF CreateBalanceRow
  <2>8. QED
    BY <2>1, <2>2, <2>3, <2>4, <2>5, <2>6, <2>7 DEF Next, Create, Approve, Reject, Cancel
<1>2. QED
  BY Invariance, <1>1, PTL DEF Spec, ApprovedByHR

-----------------------------------------------------------------------------
(* Refinement: calm leaves implement LeaveLedger *)

(* What Reflected is for a leave that at most one request, at label, is about. *)
Shown(s, label) ==
  IF s = "none" \/ label = "reserve" THEN "unsubmitted"
  ELSE IF s \in Open \/ label \in {"recordApproval", "book", "recordRejection", "release"}
    THEN "open"
  ELSE IF s = "approved" THEN "granted" ELSE "closed"

(* No request in flight other than r is about l, and r, if it has arrived, is. *)
Alone(r, l) ==
  /\ \A q \in Requests \ {r} : InFlight(q) => Leave(q) # l
  /\ pc[r] = "new" \/ Leave(r) = l

(* The only request about a leave determines what is reflected of it. *)
LEMMA ReflectedAlone ==
  ASSUME NEW r \in Requests, NEW l, Alone(r, l)
  PROVE  Reflected(l) = Shown(status[l], pc[r])
BY DEF Reflected, Shown, Alone, InFlight

(* The same of the state a step leads to. *)
LEMMA ReflectedAloneNext ==
  ASSUME NEW r \in Requests, NEW l, Alone(r, l)'
  PROVE  Reflected(l)' = Shown(status'[l], pc'[r])
BY DEF Reflected, Shown, Alone, InFlight

(* A step of a request about another leave leaves l as it is. *)
LEMMA ReflectedElsewhere ==
  ASSUME NEW r \in Requests, NEW l, status'[l] = status[l],
         \A q \in Requests \ {r} : pc'[q] = pc[q] /\ req'[q] = req[q],
         pc[r] = "new" \/ Leave(r) # l, Leave(r)' # l
  PROVE  Reflected(l)' = Reflected(l)
BY DEF Reflected

(* In a step r is alone with the calm leave l, before and after, and what is      *)
(* reflected of other calm leaves stays.                                          *)
Serves(r, l) ==
  /\ Alone(r, l) /\ Alone(r, l)'
  /\ \A m \in Calm \ {l} : Reflected(m)' = Reflected(m)

(* That is so of every step that changes only r and the status of its leave.      *)
LEMMA ServesAlone ==
  ASSUME IInv, NEW r \in Requests, NEW l \in Calm,
         \A q \in Requests \ {r} : pc'[q] = pc[q] /\ req'[q] = req[q],
         \A m \in Leaves \ {l} : status'[m] = status[m],
         Leave(r)' = l,
         \/ InFlight(r) /\ Leave(r) = l
         \/ pc[r] = "new" /\ \A q \in Requests : InFlight(q) => Leave(q) # l
  PROVE  Serves(r, l)
<1>1. \A q \in Requests \ {r} : InFlight(q) => Leave(q) # l
  BY DEF IInv, CalmInv
<1>2. Alone(r, l)
  BY <1>1 DEF Alone
<1>3. Alone(r, l)'
  BY <1>1 DEF Alone, InFlight
<1>4. ASSUME NEW m \in Calm, m # l PROVE Reflected(m)' = Reflected(m)
  <2>1. status'[m] = status[m]
    BY <1>4, CalmAssumption
  <2>2. QED
    BY <1>4, <2>1, ReflectedElsewhere
<1>5. QED
  BY <1>2, <1>3, <1>4 DEF Serves

(* A step that changes neither what is reflected nor a calm balance is a stutter. *)
LEMMA LedgerStutter ==
  ASSUME \A m \in Calm : Reflected(m)' = Reflected(m),
         \A a \in CalmAccounts : pending'[a] = pending[a] /\ used'[a] = used[a]
  PROVE  UNCHANGED Ledger!vars
BY DEF Ledger!vars

(* A step of request r touches nothing but its leave, its account and itself. *)
Local(r, l) ==
  /\ Leave(r)' = l
  /\ \/ InFlight(r) /\ Leave(r) = l
     \/ pc[r] = "new" /\ (l \in Calm => \A q \in Requests : InFlight(q) => Leave(q) # l)
  /\ \A q \in Requests \ {r} : pc'[q] = pc[q] /\ req'[q] = req[q]
  /\ \A m \in Leaves \ {l} : status'[m] = status[m]
  /\ \A a \in Accounts \ {AccountOf[l]} : pending'[a] = pending[a] /\ used'[a] = used[a]

(* Arrivals are local. *)
LEMMA ArrivalLocal ==
  ASSUME IInv, NEW r \in Requests, NEW l \in Leaves, NEW role \in Roles,
         CreateInsert(r, l) \/ ApproveStart(r, l, role) \/ RejectStart(r, l, role)
           \/ CancelStart(r, l, role)
  PROVE  Local(r, l)
<1> USE DEF IInv, TypeOK, Local, Arrive, db
<1>1. CASE CreateInsert(r, l)
  BY <1>1 DEF CreateInsert
<1>2. CASE ApproveStart(r, l, role)
  BY <1>2 DEF ApproveStart
<1>3. CASE RejectStart(r, l, role)
  BY <1>3 DEF RejectStart
<1>4. CASE CancelStart(r, l, role)
  BY <1>4 DEF CancelStart
<1>5. QED
  BY <1>1, <1>2, <1>3, <1>4

(* So are the statements of a request in flight. *)
LEMMA StatementLocal ==
  ASSUME IInv, NEW r \in Requests,
         CreateReserve(r) \/ CreateRoute(r) \/ ApproveSet(r) \/ ApproveRecord(r)
           \/ ApproveBook(r) \/ RejectSet(r) \/ RejectRecord(r) \/ CancelSet(r)
           \/ Release(r) \/ Fail(r)
  PROVE  Leave(r) \in Leaves /\ InFlight(r) /\ Local(r, Leave(r))
<1> USE DEF IInv, TypeOK, Local, InFlight, SetStatus, Account, db
<1>1. Leave(r) \in Leaves
  BY RequestFacts DEF CreateReserve, CreateRoute, ApproveSet, ApproveRecord, ApproveBook,
     RejectSet, RejectRecord, CancelSet, Release, Fail
<1>2. CASE CreateReserve(r) \/ CreateRoute(r)
  BY <1>1, <1>2 DEF CreateReserve, CreateRoute
<1>3. CASE ApproveSet(r) \/ ApproveRecord(r)
  BY <1>1, <1>3 DEF ApproveSet, ApproveRecord
<1>4. CASE ApproveBook(r)
  BY <1>1, <1>4 DEF ApproveBook
<1>5. CASE RejectSet(r) \/ RejectRecord(r) \/ CancelSet(r)
  BY <1>1, <1>5 DEF RejectSet, RejectRecord, CancelSet
<1>6. CASE Release(r) \/ Fail(r)
  BY <1>1, <1>6 DEF Release, Fail
<1>7. QED
  BY <1>2, <1>3, <1>4, <1>5, <1>6

(* A local step about a leave that is not calm is a stutter of the ledger. *)
LEMMA WildStutter ==
  ASSUME IInv, NEW r \in Requests, NEW l \in Leaves \ Calm, Local(r, l)
  PROVE  UNCHANGED Ledger!vars
<1>1. ASSUME NEW m \in Calm PROVE Reflected(m)' = Reflected(m)
  <2>1. m # l /\ status'[m] = status[m]
    BY CalmAssumption DEF Local
  <2>2. QED
    BY <2>1, ReflectedElsewhere DEF Local
<1>2. ASSUME NEW a \in CalmAccounts PROVE pending'[a] = pending[a] /\ used'[a] = used[a]
  <2>1. a \in Accounts /\ a # AccountOf[l]
    BY LeaveAssumption, CalmAssumption DEF CalmAccounts
  <2>2. QED
    BY <2>1 DEF Local
<1>3. QED
  BY <1>1, <1>2, LedgerStutter

(* Nor does the ledger see a local step that shows the same of its calm leave. *)
LEMMA CalmStutter ==
  ASSUME IInv, NEW r \in Requests, NEW l \in Calm, Local(r, l),
         Shown(status'[l], pc'[r]) = Shown(status[l], pc[r]),
         pending' = pending, used' = used
  PROVE  UNCHANGED Ledger!vars
<1>1. Serves(r, l)
  BY ServesAlone DEF Local
<1>2. Reflected(l)' = Reflected(l)
  BY <1>1, ReflectedAlone, ReflectedAloneNext DEF Serves
<1>3. QED
  BY <1>1, <1>2, LedgerStutter DEF Serves

(* A reservation submits the leave: it was written as pending and nobody else has *)
(* seen it.                                                                       *)
LEMMA ReserveSubmits ==
  ASSUME IInv, NEW r \in Requests, NEW l \in Calm, Leave(r) = l, CreateReserve(r)
  PROVE  Ledger!Next
<1>1. Serves(r, l)
  BY StatementLocal, ServesAlone DEF Local
<1>2. Reflected(l) = "unsubmitted"
  BY <1>1, ReflectedAlone DEF Serves, Shown, CreateReserve
<1>3. status'[l] = "pending" /\ pc'[r] = "route"
  BY DEF IInv, CalmInv, TypeOK, CreateReserve, InFlight
<1>4. Reflected(l)' = "open"
  BY <1>1, <1>3, ReflectedAloneNext DEF Serves, Shown
<1>5. /\ pending' = [pending EXCEPT ![AccountOf[l]] = @ + DaysOf[l]]
      /\ used' = used
  BY DEF CreateReserve, Account, Days
<1>6. Ledger!Submit(l)
  <2>1. AccountOf[l] \in Accounts /\ AccountOf[l] \in CalmAccounts /\ CalmAccounts \subseteq Accounts
    BY LeaveAssumption, CalmAssumption DEF CalmAccounts
  <2>2. [m \in Calm |-> Reflected(m)]' = [[m \in Calm |-> Reflected(m)] EXCEPT ![l] = "open"]
    BY <1>1, <1>4 DEF Serves
  <2>3. [a \in CalmAccounts |-> pending[a]]'
          = [[a \in CalmAccounts |-> pending[a]] EXCEPT ![AccountOf[l]] = @ + DaysOf[l]]
    BY <2>1, <1>5 DEF IInv, TypeOK
  <2>4. [a \in CalmAccounts |-> used[a]]' = [a \in CalmAccounts |-> used[a]]
    BY <2>1, <1>5 DEF IInv, TypeOK
  <2>5. QED
    BY <1>2, <2>2, <2>3, <2>4 DEF Ledger!Submit
<1>7. QED
  BY <1>6 DEF Ledger!Next

(* The booking of a final approval grants the leave. *)
LEMMA BookGrants ==
  ASSUME IInv, NEW r \in Requests, NEW l \in Calm, Leave(r) = l, ApproveBook(r)
  PROVE  Ledger!Next
<1>1. Serves(r, l)
  BY StatementLocal, ServesAlone DEF Local
<1>2. pc[r] = "book" /\ pc'[r] = "ok" /\ status[l] = "approved" /\ status' = status
  <2>1. pc[r] = "book" /\ pc'[r] = "ok" /\ status' = status
    BY DEF IInv, TypeOK, ApproveBook
  <2>2. next[r] = "approved"
    BY <2>1 DEF IInv, LocalInv, RequestOK
  <2>3. status[l] = next[r]
    BY <2>1 DEF IInv, CalmInv, InFlight
  <2>4. QED
    BY <2>1, <2>2, <2>3
<1>3. Reflected(l) = "open"
  BY <1>1, <1>2, ReflectedAlone DEF Serves, Shown
<1>4. Reflected(l)' = "granted"
  BY <1>1, <1>2, ReflectedAloneNext DEF Serves, Shown
<1>5. hasRow[AccountOf[l]]
  BY <1>1, <1>2 DEF IInv, RowInv, Serves, Alone, InFlight
<1>6. /\ pending' = [pending EXCEPT ![AccountOf[l]] = @ - DaysOf[l]]
      /\ used' = [used EXCEPT ![AccountOf[l]] = @ + DaysOf[l]]
  BY <1>5 DEF ApproveBook, Account, Days
<1>7. Ledger!Grant(l)
  <2>1. AccountOf[l] \in Accounts /\ AccountOf[l] \in CalmAccounts /\ CalmAccounts \subseteq Accounts
    BY LeaveAssumption, CalmAssumption DEF CalmAccounts
  <2>2. [m \in Calm |-> Reflected(m)]' = [[m \in Calm |-> Reflected(m)] EXCEPT ![l] = "granted"]
    BY <1>1, <1>4 DEF Serves
  <2>3. [a \in CalmAccounts |-> pending[a]]'
          = [[a \in CalmAccounts |-> pending[a]] EXCEPT ![AccountOf[l]] = @ - DaysOf[l]]
    BY <2>1, <1>6 DEF IInv, TypeOK
  <2>4. [a \in CalmAccounts |-> used[a]]' = [[a \in CalmAccounts |-> used[a]] EXCEPT ![AccountOf[l]] = @ + DaysOf[l]]
    BY <2>1, <1>6 DEF IInv, TypeOK
  <2>5. QED
    BY <1>3, <2>2, <2>3, <2>4 DEF Ledger!Grant
<1>8. QED
  BY <1>7 DEF Ledger!Next

(* A release closes the leave, rejected or cancelled. *)
LEMMA ReleaseCloses ==
  ASSUME IInv, NEW r \in Requests, NEW l \in Calm, Leave(r) = l, Release(r)
  PROVE  Ledger!Next
<1>1. Serves(r, l)
  BY StatementLocal, ServesAlone DEF Local
<1>2. pc[r] = "release" /\ pc'[r] = "ok" /\ status[l] \in {"rejected", "cancelled"}
      /\ status' = status
  BY DEF IInv, CalmInv, TypeOK, Release, InFlight
<1>3. Reflected(l) = "open"
  BY <1>1, <1>2, ReflectedAlone DEF Serves, Shown
<1>4. Reflected(l)' = "closed"
  BY <1>1, <1>2, ReflectedAloneNext DEF Serves, Shown
<1>5. hasRow[AccountOf[l]]
  BY <1>1, <1>2 DEF IInv, RowInv, Serves, Alone, InFlight
<1>6. pending' = [pending EXCEPT ![AccountOf[l]] = @ - DaysOf[l]] /\ used' = used
  BY <1>5 DEF Release, Account, Days
<1>7. Ledger!Close(l)
  <2>1. AccountOf[l] \in Accounts /\ AccountOf[l] \in CalmAccounts /\ CalmAccounts \subseteq Accounts
    BY LeaveAssumption, CalmAssumption DEF CalmAccounts
  <2>2. [m \in Calm |-> Reflected(m)]' = [[m \in Calm |-> Reflected(m)] EXCEPT ![l] = "closed"]
    BY <1>1, <1>4 DEF Serves
  <2>3. [a \in CalmAccounts |-> pending[a]]'
          = [[a \in CalmAccounts |-> pending[a]] EXCEPT ![AccountOf[l]] = @ - DaysOf[l]]
    BY <2>1, <1>6 DEF IInv, TypeOK
  <2>4. [a \in CalmAccounts |-> used[a]]' = [a \in CalmAccounts |-> used[a]]
    BY <2>1, <1>6 DEF IInv, TypeOK
  <2>5. QED
    BY <1>3, <2>2, <2>3, <2>4 DEF Ledger!Close
<1>8. QED
  BY <1>7 DEF Ledger!Next

(* Every other statement leaves the ledger alone. *)
LEMMA ArrivalStutters ==
  ASSUME IInv, NEW r \in Requests, NEW l \in Leaves, NEW role \in Roles,
         CreateInsert(r, l) \/ ApproveStart(r, l, role) \/ RejectStart(r, l, role)
           \/ CancelStart(r, l, role)
  PROVE  UNCHANGED Ledger!vars
<1>1. Local(r, l)
  BY ArrivalLocal
<1>2. CASE l \notin Calm
  BY <1>1, <1>2, WildStutter
<1>3. pc[r] = "new" /\ pending' = pending /\ used' = used
  BY DEF CreateInsert, ApproveStart, RejectStart, CancelStart, Arrive, db
<1>4. CASE CreateInsert(r, l)
  <2>1. status[l] = "none" /\ pc'[r] = "reserve"
    BY <1>4 DEF CreateInsert, Arrive, IInv, TypeOK
  <2>2. Shown(status'[l], pc'[r]) = Shown(status[l], pc[r])
    BY <2>1 DEF Shown
  <2>3. QED
    BY <1>1, <1>2, <1>3, <2>2, CalmStutter
<1>5. CASE ApproveStart(r, l, role) \/ RejectStart(r, l, role) \/ CancelStart(r, l, role)
  <2>1. status' = status /\ pc'[r] \in {"setApproved", "setRejected", "setCancelled", "refused"}
    BY <1>5 DEF ApproveStart, RejectStart, CancelStart, Arrive, IInv, TypeOK, db
  <2>2. Shown(status'[l], pc'[r]) = Shown(status[l], pc[r])
    BY <1>3, <2>1 DEF Shown
  <2>3. QED
    BY <1>1, <1>2, <1>3, <2>2, CalmStutter
<1>6. QED
  BY <1>4, <1>5

(* The statements that change no balance row are stutters too.                    *)
LEMMA StatementStutters ==
  ASSUME IInv, NEW r \in Requests, NEW l, Leave(r) = l,
         CreateRoute(r) \/ ApproveSet(r) \/ ApproveRecord(r) \/ RejectSet(r)
           \/ RejectRecord(r) \/ CancelSet(r) \/ Fail(r)
  PROVE  UNCHANGED Ledger!vars
<1>1. l \in Leaves /\ InFlight(r) /\ Local(r, l)
  BY StatementLocal
<1>2. CASE l \notin Calm
  BY <1>1, <1>2, WildStutter
<1>3. ASSUME l \in Calm PROVE Shown(status'[l], pc'[r]) = Shown(status[l], pc[r])
  <2>1. CASE CreateRoute(r)
    BY <1>1, <1>3, <2>1 DEF IInv, CalmInv, TypeOK, CreateRoute, SetStatus, Shown
  <2>2. CASE ApproveSet(r)
    <3>1. status[l] \in Open /\ next[r] \in {"approved", "pending_hr"} /\ pc[r] = "setApproved"
      BY <1>1, <1>3, <2>2 DEF IInv, CalmInv, LocalInv, RequestOK, ApproveSet
    <3>2. status'[l] = next[r] /\ pc'[r] = "recordApproval"
      BY <1>1, <2>2 DEF IInv, TypeOK, ApproveSet, SetStatus
    <3>3. QED
      BY <3>1, <3>2 DEF Shown
  <2>3. CASE ApproveRecord(r)
    <3>1. /\ next[r] \in {"approved", "pending_hr"} /\ status[l] = next[r]
          /\ pc[r] = "recordApproval"
      BY <1>1, <1>3, <2>3 DEF IInv, CalmInv, LocalInv, RequestOK, ApproveRecord
    <3>2. status' = status /\ pc'[r] = IF next[r] = "approved" THEN "book" ELSE "ok"
      BY <2>3 DEF IInv, TypeOK, ApproveRecord
    <3>3. QED
      BY <3>1, <3>2 DEF Shown
  <2>4. CASE RejectSet(r)
    BY <1>1, <1>3, <2>4 DEF IInv, CalmInv, TypeOK, RejectSet, SetStatus, Shown
  <2>5. CASE RejectRecord(r)
    BY <1>1, <1>3, <2>5 DEF IInv, CalmInv, TypeOK, RejectRecord, Shown, db
  <2>6. CASE CancelSet(r)
    BY <1>1, <1>3, <2>6 DEF IInv, CalmInv, TypeOK, CancelSet, SetStatus, Shown
  <2>7. CASE Fail(r)
    BY <1>3, <2>7 DEF Fail
  <2>8. QED
    BY <2>1, <2>2, <2>3, <2>4, <2>5, <2>6, <2>7
<1>4. pending' = pending /\ used' = used
  BY DEF CreateRoute, ApproveSet, ApproveRecord, RejectSet, RejectRecord, CancelSet, Fail, db
<1>5. QED
  BY <1>1, <1>2, <1>3, <1>4, CalmStutter

(* The request machinery implements the ledger on the calm leaves: although a     *)
(* decision and its booking are separate statements, with other leaves of the     *)
(* account served in between and everything else racing and failing, the balance  *)
(* rows of calm accounts change only by whole submissions, grants and closures.   *)
THEOREM ImplementsLedger == Spec => LedgerSpec
<1>1. Init => Ledger!Init
  BY CalmAssumption, LeaveAssumption
  DEF Init, Ledger!Init, Reflected, CalmAccounts
<1>2. IInv /\ [Next]_vars => [Ledger!Next]_(Ledger!vars)
  <2> SUFFICES ASSUME IInv, [Next]_vars PROVE Ledger!Next \/ UNCHANGED Ledger!vars
    OBVIOUS
  <2>1. ASSUME NEW r \in Requests, NEW l \in Leaves, NEW role \in Roles,
               CreateInsert(r, l) \/ ApproveStart(r, l, role) \/ RejectStart(r, l, role)
                 \/ CancelStart(r, l, role)
        PROVE  UNCHANGED Ledger!vars
    BY <2>1, ArrivalStutters
  <2>2. ASSUME NEW r \in Requests,
               CreateRoute(r) \/ ApproveSet(r) \/ ApproveRecord(r) \/ RejectSet(r)
                 \/ RejectRecord(r) \/ CancelSet(r) \/ Fail(r)
        PROVE  UNCHANGED Ledger!vars
    BY <2>2, StatementStutters
  <2>3. ASSUME NEW r \in Requests, CreateReserve(r) \/ ApproveBook(r) \/ Release(r),
               Leave(r) \notin Calm
        PROVE  UNCHANGED Ledger!vars
    BY <2>3, StatementLocal, WildStutter
  <2>4. ASSUME NEW r \in Requests, CreateReserve(r) \/ ApproveBook(r) \/ Release(r),
               Leave(r) \in Calm
        PROVE  Ledger!Next
    BY <2>4, ReserveSubmits, BookGrants, ReleaseCloses
  <2>5. ASSUME NEW a \in Accounts, CreateBalanceRow(a) PROVE UNCHANGED Ledger!vars
    <3>1. \A m \in Calm : Reflected(m)' = Reflected(m)
      BY <2>5 DEF CreateBalanceRow, Reflected
    <3>2. QED
      BY <2>5, <3>1, LedgerStutter DEF CreateBalanceRow
  <2>6. CASE UNCHANGED vars
    <3>1. \A m \in Calm : Reflected(m)' = Reflected(m)
      BY <2>6 DEF vars, Reflected
    <3>2. QED
      BY <2>6, <3>1, LedgerStutter DEF vars
  <2>7. ASSUME NEW r \in Requests, NEW l \in Leaves, CreateInsert(r, l)
        PROVE  UNCHANGED Ledger!vars
    BY <2>1, <2>7
  <2>8. QED
    BY <2>1, <2>2, <2>3, <2>4, <2>5, <2>6, <2>7 DEF Next, Create, Approve, Reject, Cancel
<1>3. QED
  BY <1>1, <1>2, Invariance, PTL DEF Spec, LedgerSpec, Ledger!Spec


-----------------------------------------------------------------------------
(* The half days of one leave: as many as it has. *)
LEMMA OneLeave ==
  ASSUME NEW l \in Calm
  PROVE  IsFiniteSet({l} \X (1..DaysOf[l])) /\ Cardinality({l} \X (1..DaysOf[l])) = DaysOf[l]
<1>1. PICK n \in Nat \ {0} : DaysOf[l] = n
  BY LeaveAssumption, CalmAssumption
<1> DEFINE days == 1..n
<1>2. IsFiniteSet(days) /\ Cardinality(days) = n
  <2>1. IsFiniteSet(days) /\ Cardinality(days) = IF 1 > n THEN 0 ELSE n - 1 + 1
    BY FS_Interval
  <2>2. QED
    BY <2>1
<1>3. IsFiniteSet({l}) /\ Cardinality({l}) = 1
  BY FS_Singleton
<1> HIDE DEF days
<1>4. IsFiniteSet({l} \X days) /\ Cardinality({l} \X days) = 1 * n
  BY <1>2, <1>3, FS_Product
<1>5. QED
  BY <1>1, <1>4 DEF days

(* Sets of pairs of which one grows by a leave, or shrinks by one. *)
LEMMA Gained ==
  ASSUME NEW S, IsFiniteSet(S), NEW l \in Calm, \A n : <<l, n>> \notin S
  PROVE  /\ IsFiniteSet(S \cup ({l} \X (1..DaysOf[l])))
         /\ Cardinality(S \cup ({l} \X (1..DaysOf[l]))) = Cardinality(S) + DaysOf[l]
<1> DEFINE block == {l} \X (1..DaysOf[l])
<1>1. IsFiniteSet(block) /\ Cardinality(block) = DaysOf[l] /\ DaysOf[l] \in Nat
  BY OneLeave, LeaveAssumption, CalmAssumption
<1>2. S \cap block = {}
  OBVIOUS
<1> HIDE DEF block
<1>3. /\ IsFiniteSet(S \cup block)
      /\ Cardinality(S \cup block) = Cardinality(S) + Cardinality(block) - Cardinality({})
  BY <1>1, <1>2, FS_Union
<1>4. Cardinality(S) \in Nat /\ Cardinality({}) = 0
  BY FS_CardinalityType, FS_EmptySet
<1>5. QED
  BY <1>1, <1>3, <1>4 DEF block

LEMMA Lost ==
  ASSUME NEW S, IsFiniteSet(S), NEW l \in Calm, {l} \X (1..DaysOf[l]) \subseteq S
  PROVE  /\ IsFiniteSet(S \ ({l} \X (1..DaysOf[l])))
         /\ Cardinality(S \ ({l} \X (1..DaysOf[l]))) = Cardinality(S) - DaysOf[l]
<1> DEFINE block == {l} \X (1..DaysOf[l])
<1>1. IsFiniteSet(block) /\ Cardinality(block) = DaysOf[l] /\ DaysOf[l] \in Nat
  BY OneLeave, LeaveAssumption, CalmAssumption
<1> HIDE DEF block
<1>2. S \cap block = block
  BY DEF block
<1>3. IsFiniteSet(S \ block) /\ Cardinality(S \ block) = Cardinality(S) - Cardinality(block)
  BY <1>2, FS_Difference
<1>4. QED
  BY <1>1, <1>3 DEF block

-----------------------------------------------------------------------------
(* The rows add up, and what they add up is finite: the number of leaves is not   *)
(* bounded, but only those submitted so far count.                                *)
Tally(a, s, n) == IsFiniteSet(Ledger!HalfDays(a, s)) /\ n = Cardinality(Ledger!HalfDays(a, s))

BalanceInv ==
  \A a \in CalmAccounts : Tally(a, "open", pending[a]) /\ Tally(a, "granted", used[a])

(* Of the leaves, l alone goes from one state of the ledger to another. *)
Moves(l, from, to) ==
  /\ Reflected(l) = from /\ Reflected(l)' = to
  /\ \A m \in Calm \ {l} : Reflected(m)' = Reflected(m)

Block(l) == {l} \X (1..DaysOf[l])

LEMMA HalfDaysMember ==
  ASSUME NEW a, NEW s, NEW x
  PROVE  x \in Ledger!HalfDays(a, s) <=>
           \E l \in Calm : AccountOf[l] = a /\ Reflected(l) = s /\ x \in Block(l)
BY DEF Ledger!HalfDays, Block

LEMMA HalfDaysMemberNext ==
  ASSUME NEW a, NEW s, NEW x
  PROVE  x \in Ledger!HalfDays(a, s)' <=>
           \E l \in Calm : AccountOf[l] = a /\ Reflected(l)' = s /\ x \in Block(l)
BY DEF Ledger!HalfDays, Block

LEMMA HalfDaysMoved ==
  ASSUME NEW l \in Calm, NEW from, NEW to, from # to, Moves(l, from, to), NEW a, NEW s
  PROVE  Ledger!HalfDays(a, s)' =
           IF a = AccountOf[l] /\ s = to THEN Ledger!HalfDays(a, s) \cup Block(l)
           ELSE IF a = AccountOf[l] /\ s = from THEN Ledger!HalfDays(a, s) \ Block(l)
           ELSE Ledger!HalfDays(a, s)
<1>1. ASSUME NEW m \in Calm, NEW x, x \in Block(l), x \in Block(m) PROVE m = l
  BY <1>1 DEF Block
<1> DEFINE before == Ledger!HalfDays(a, s)
           after == Ledger!HalfDays(a, s)'
<1>2. \A x : x \in before <=> \E m \in Calm : AccountOf[m] = a /\ Reflected(m) = s /\ x \in Block(m)
  BY HalfDaysMember
<1>3. \A x : x \in after <=> \E m \in Calm : AccountOf[m] = a /\ Reflected(m)' = s /\ x \in Block(m)
  BY HalfDaysMemberNext
<1> HIDE DEF before, after
<1>4. CASE a = AccountOf[l] /\ s = to
  <2>1. \A x : x \in after <=> x \in before \/ x \in Block(l)
    BY <1>1, <1>2, <1>3, <1>4 DEF Moves
  <2>2. QED
    BY <2>1, <1>4 DEF before, after
<1>5. CASE a = AccountOf[l] /\ s = from
  <2>1. \A x : x \in after <=> x \in before /\ x \notin Block(l)
    BY <1>1, <1>2, <1>3, <1>5 DEF Moves
  <2>2. after = before \ Block(l)
    BY <2>1
  <2>3. QED
    BY <2>2, <1>5 DEF before, after
<1>6. CASE a # AccountOf[l] \/ s \notin {from, to}
  <2>1. \A x : x \in after <=> x \in before
    BY <1>2, <1>3, <1>6 DEF Moves
  <2>2. after = before
    BY <2>1
  <2>3. QED
    BY <2>2, <1>6 DEF before, after
<1>7. QED
  BY <1>4, <1>5, <1>6


(* A submission adds the leave to the open ones of its account, a grant and a     *)
(* closure take it away from them, a grant adds it to the granted ones.           *)
LEMMA TallyJoins ==
  ASSUME NEW l \in Calm, NEW from, NEW to, from # to, Moves(l, from, to), NEW n,
         Tally(AccountOf[l], to, n)
  PROVE  Tally(AccountOf[l], to, n + DaysOf[l])'
<1> DEFINE before == Ledger!HalfDays(AccountOf[l], to)
           after == Ledger!HalfDays(AccountOf[l], to)'
<1>1. after = before \cup Block(l)
  BY HalfDaysMoved
<1>2. \A k : <<l, k>> \notin before
  BY HalfDaysMember DEF Moves, Block
<1>3. IsFiniteSet(before) /\ n = Cardinality(before)
  BY DEF Tally
<1> HIDE DEF before, after
<1>4. /\ IsFiniteSet(before \cup Block(l))
      /\ Cardinality(before \cup Block(l)) = Cardinality(before) + DaysOf[l]
  BY <1>2, <1>3, Gained DEF Block
<1>5. IsFiniteSet(after) /\ n + DaysOf[l] = Cardinality(after)
  BY <1>1, <1>3, <1>4
<1>6. QED
  BY <1>5 DEF Tally, after

LEMMA TallyLeaves ==
  ASSUME NEW l \in Calm, NEW from, NEW to, from # to, Moves(l, from, to), NEW n,
         Tally(AccountOf[l], from, n)
  PROVE  Tally(AccountOf[l], from, n - DaysOf[l])'
<1> DEFINE before == Ledger!HalfDays(AccountOf[l], from)
           after == Ledger!HalfDays(AccountOf[l], from)'
<1>1. after = before \ Block(l)
  BY HalfDaysMoved
<1>2. Block(l) \subseteq before
  BY HalfDaysMember DEF Moves
<1>3. IsFiniteSet(before) /\ n = Cardinality(before)
  BY DEF Tally
<1> HIDE DEF before, after
<1>4. /\ IsFiniteSet(before \ Block(l))
      /\ Cardinality(before \ Block(l)) = Cardinality(before) - DaysOf[l]
  BY <1>2, <1>3, Lost DEF Block
<1>5. IsFiniteSet(after) /\ n - DaysOf[l] = Cardinality(after)
  BY <1>1, <1>3, <1>4
<1>6. QED
  BY <1>5 DEF Tally, after

LEMMA TallyApart ==
  ASSUME NEW l \in Calm, NEW from, NEW to, from # to, Moves(l, from, to), NEW n, NEW a, NEW s,
         a # AccountOf[l] \/ s \notin {from, to}, Tally(a, s, n)
  PROVE  Tally(a, s, n)'
<1>1. Ledger!HalfDays(a, s)' = Ledger!HalfDays(a, s)
  BY HalfDaysMoved
<1>2. QED
  BY <1>1 DEF Tally

(* What the steps of the ledger are about, in terms of its implementation. *)
LEMMA LedgerMoves ==
  ASSUME NEW l \in Calm, NEW from, NEW to,
         [m \in Calm |-> Reflected(m)][l] = from,
         [m \in Calm |-> Reflected(m)]' = [[m \in Calm |-> Reflected(m)] EXCEPT ![l] = to]
  PROVE  Moves(l, from, to)
<1> DEFINE shown == [m \in Calm |-> Reflected(m)]
           next1 == [m \in Calm |-> Reflected(m)']
<1>1. next1 = [shown EXCEPT ![l] = to]
  OBVIOUS
<1>2. next1[l] = to /\ \A m \in Calm \ {l} : next1[m] = shown[m]
  BY <1>1
<1>3. QED
  BY <1>2 DEF Moves


(* What a step does to one balance, and to that of every other account. *)
LEMMA BalanceMoves ==
  ASSUME NEW row, NEW row1, NEW b \in CalmAccounts, NEW n,
         [a \in CalmAccounts |-> row1[a]] = [[a \in CalmAccounts |-> row[a]] EXCEPT ![b] = n]
  PROVE  row1[b] = n /\ \A a \in CalmAccounts \ {b} : row1[a] = row[a]
<1> DEFINE before == [a \in CalmAccounts |-> row[a]]
           after == [a \in CalmAccounts |-> row1[a]]
<1>1. after[b] = n /\ \A a \in CalmAccounts \ {b} : after[a] = before[a]
  OBVIOUS
<1>2. QED
  BY <1>1

(* What a balance that counts the leaves in state s becomes when l moves. *)
After(l, from, to, s, a, n) ==
  IF a = AccountOf[l] /\ s = to THEN n + DaysOf[l]
  ELSE IF a = AccountOf[l] /\ s = from THEN n - DaysOf[l]
  ELSE n

(* A step of the ledger keeps the balance rows what the leaves add up to. *)
LEMMA BalanceStep == BalanceInv /\ [Ledger!Next]_(Ledger!vars) => BalanceInv'
<1> SUFFICES ASSUME BalanceInv, [Ledger!Next]_(Ledger!vars) PROVE BalanceInv'
  OBVIOUS
<1>1. ASSUME NEW l \in Calm, NEW b, b = AccountOf[l], NEW from, NEW to, from # to, Moves(l, from, to),
             NEW s \in {"open", "granted"}, NEW a \in CalmAccounts, NEW n, Tally(a, s, n), NEW m,
             m = IF a = b /\ s = to THEN n + DaysOf[l] ELSE IF a = b /\ s = from THEN n - DaysOf[l] ELSE n
      PROVE  Tally(a, s, m)'
  <2>1. CASE a = b /\ s = to
    BY <1>1, <2>1, TallyJoins
  <2>2. CASE a = b /\ s = from
    BY <1>1, <2>2, TallyLeaves
  <2>3. CASE a # b \/ s \notin {from, to}
    BY <1>1, <2>3, TallyApart
  <2>4. QED
    BY <2>1, <2>2, <2>3
<1>2. ASSUME NEW l \in Calm, NEW from, NEW to, from # to, Moves(l, from, to),
             \A a \in CalmAccounts : /\ pending'[a] = After(l, from, to, "open", a, pending[a])
                                     /\ used'[a] = After(l, from, to, "granted", a, used[a])
      PROVE  BalanceInv'
  <2> SUFFICES ASSUME NEW a \in CalmAccounts
               PROVE  Tally(a, "open", pending[a])' /\ Tally(a, "granted", used[a])'
    BY DEF BalanceInv
  <2>1. PICK p, q : p = pending[a] /\ q = used[a]
    OBVIOUS
  <2>2. PICK p1, q1 : p1 = pending'[a] /\ q1 = used'[a]
    OBVIOUS
  <2>3. Tally(a, "open", p) /\ Tally(a, "granted", q)
    BY <2>1 DEF BalanceInv
  <2>4. /\ p1 = After(l, from, to, "open", a, p)
        /\ q1 = After(l, from, to, "granted", a, q)
    BY <1>2, <2>1, <2>2
  <2>5. Tally(a, "open", p1)' /\ Tally(a, "granted", q1)'
    BY <1>1, <1>2, <2>3, <2>4 DEF After
  <2>6. QED
    BY <2>2, <2>5 DEF Tally
<1>3. \A l \in Calm : AccountOf[l] \in CalmAccounts
  BY DEF CalmAccounts
<1>4. ASSUME NEW l \in Calm, Ledger!Submit(l) PROVE BalanceInv'
  <2>1. Moves(l, "unsubmitted", "open")
    BY <1>4, LedgerMoves DEF Ledger!Submit
  <2>2. /\ pending'[AccountOf[l]] = pending[AccountOf[l]] + DaysOf[l]
        /\ \A a \in CalmAccounts \ {AccountOf[l]} : pending'[a] = pending[a]
    BY <1>3, <1>4, BalanceMoves DEF Ledger!Submit
  <2>3. \A a \in CalmAccounts : used'[a] = used[a]
    BY <1>4 DEF Ledger!Submit
  <2>4. QED
    BY <1>2, <2>1, <2>2, <2>3 DEF After
<1>5. ASSUME NEW l \in Calm, Ledger!Grant(l) PROVE BalanceInv'
  <2>1. Moves(l, "open", "granted")
    BY <1>5, LedgerMoves DEF Ledger!Grant
  <2>2. /\ pending'[AccountOf[l]] = pending[AccountOf[l]] - DaysOf[l]
        /\ \A a \in CalmAccounts \ {AccountOf[l]} : pending'[a] = pending[a]
    BY <1>3, <1>5, BalanceMoves DEF Ledger!Grant
  <2>3. /\ used'[AccountOf[l]] = used[AccountOf[l]] + DaysOf[l]
        /\ \A a \in CalmAccounts \ {AccountOf[l]} : used'[a] = used[a]
    BY <1>3, <1>5, BalanceMoves DEF Ledger!Grant
  <2>4. QED
    BY <1>2, <2>1, <2>2, <2>3 DEF After
<1>6. ASSUME NEW l \in Calm, Ledger!Close(l) PROVE BalanceInv'
  <2>1. Moves(l, "open", "closed")
    BY <1>6, LedgerMoves DEF Ledger!Close
  <2>2. /\ pending'[AccountOf[l]] = pending[AccountOf[l]] - DaysOf[l]
        /\ \A a \in CalmAccounts \ {AccountOf[l]} : pending'[a] = pending[a]
    BY <1>3, <1>6, BalanceMoves DEF Ledger!Close
  <2>3. \A a \in CalmAccounts : used'[a] = used[a]
    BY <1>6 DEF Ledger!Close
  <2>4. QED
    BY <1>2, <2>1, <2>2, <2>3 DEF After
<1>7. CASE UNCHANGED Ledger!vars
  <2>1. \A l \in Calm : Reflected(l)' = Reflected(l)
    <3> DEFINE shown == [m \in Calm |-> Reflected(m)]
               next1 == [m \in Calm |-> Reflected(m)']
    <3>1. next1 = shown
      BY <1>7 DEF Ledger!vars
    <3>2. \A l \in Calm : next1[l] = shown[l]
      BY <3>1
    <3>3. QED
      BY <3>2
  <2>2. \A a \in CalmAccounts : pending'[a] = pending[a] /\ used'[a] = used[a]
    <3>1. \A b \in CalmAccounts : [a \in CalmAccounts |-> pending'[a]][b] = [a \in CalmAccounts |-> pending[a]][b]
                               /\ [a \in CalmAccounts |-> used'[a]][b] = [a \in CalmAccounts |-> used[a]][b]
      BY <1>7 DEF Ledger!vars
    <3>2. QED
      BY <3>1
  <2>3. ASSUME NEW a, NEW s PROVE Ledger!HalfDays(a, s)' = Ledger!HalfDays(a, s)
    <3> DEFINE before == Ledger!HalfDays(a, s)
               after == Ledger!HalfDays(a, s)'
    <3>1. \A x : x \in after <=> x \in before
      BY <2>1, HalfDaysMember, HalfDaysMemberNext
    <3> HIDE DEF before, after
    <3>2. after = before
      BY <3>1
    <3>3. QED
      BY <3>2 DEF before, after
  <2>4. QED
    BY <2>2, <2>3 DEF BalanceInv, Tally
<1>8. QED
  BY <1>4, <1>5, <1>6, <1>7 DEF Ledger!Next

(* The balance row of a calm account always is what its leaves add up to. *)
THEOREM BalanceKept == Spec => []Balanced
<1>1. Ledger!Init => BalanceInv
  <2> SUFFICES ASSUME Ledger!Init, NEW a \in CalmAccounts
               PROVE  Tally(a, "open", pending[a]) /\ Tally(a, "granted", used[a])
    BY DEF BalanceInv
  <2>1. \A l \in Calm : Reflected(l) = "unsubmitted"
    BY DEF Ledger!Init
  <2>2. Ledger!HalfDays(a, "open") = {} /\ Ledger!HalfDays(a, "granted") = {}
    BY <2>1, HalfDaysMember
  <2>3. pending[a] = 0 /\ used[a] = 0
    BY DEF Ledger!Init
  <2>4. QED
    BY <2>2, <2>3, FS_EmptySet DEF Tally
<1>2. BalanceInv => Balanced
  <2>1. \A S : Ledger!Cardinality(S) = Cardinality(S)
    BY DEF Ledger!Cardinality, Cardinality
  <2>2. QED
    BY <2>1 DEF BalanceInv, Tally, Balanced, Ledger!Balanced
<1>3. QED
  BY <1>1, <1>2, BalanceStep, ImplementsLedger, PTL DEF LedgerSpec, Ledger!Spec
=============================================================================
