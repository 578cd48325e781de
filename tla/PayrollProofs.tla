--------------------------- MODULE PayrollProofs ---------------------------
(* Proofs about PayrollPeriod for any number of requests, employees, periods *)
(* and keys, any overlap of requests and failures at any statement.          *)
EXTENDS PayrollPeriod, TLAPS

(* A request's kind decides the statements it issues. *)
KindOf(l) ==
  CASE l \in {"list", "loop", "upsert"} -> {"run"}
    [] l \in {"lock", "insert", "count", "commit", "publish"} -> {"finalize"}
    [] l \in {"redraft", "purgeResults", "purgePayslips"} -> {"reopen"}
    [] l \in {"render", "attach"} -> {"finalize", "payslip"}
    [] OTHER -> Ops

RequestOK(r) ==
  pc[r] # "new" => /\ req[r] \in [op : Ops, period : Periods, key : Keys \cup {None}]
                   /\ req[r].op \in KindOf(pc[r])
                   /\ req[r].op = "finalize" => req[r].key \in Keys

(* What a request holds at the labels that use it. *)
HoldingOK(r) ==
  /\ pc[r] \in {"loop", "upsert"} => todo[r] \subseteq Employees
  /\ pc[r] \in {"count", "commit", "render", "attach"} => todo[r] \subseteq SlipIds
  /\ pc[r] = "publish" => todo[r] = {}
  /\ pc[r] = "upsert" => cur[r] \in Employees /\ val[r] \in Amounts
  /\ pc[r] = "attach" => val[r] \in Amounts

LocalInv == \A r \in Requests : RequestOK(r) /\ HoldingOK(r)

(* A transaction that passed the status check owns the row of its period, and *)
(* the committed status it has read is still there.                           *)
LockInv ==
  \A r \in Requests : pc[r] \in InTransaction =>
    lock[Period(r)] = r /\ status[Period(r)] = "reviewed"

(* Answers rest on commits: a key is bound, and a request is past its commit,  *)
(* only for periods whose finalization has committed.                          *)
AnswerInv ==
  /\ \A k \in Keys : idem[k] # Unused => finalizations[idem[k]] > 0
  /\ \A r \in Requests :
       pc[r] \in {"publish", "render", "attach", "ok"} /\ req[r].op = "finalize"
         => finalizations[req[r].period] > 0

IInv == TypeOK /\ LocalInv /\ LockInv /\ AnswerInv

-----------------------------------------------------------------------------
USE DEF Labels, Done, InTransaction, Ops, Statuses, Move, Period

(* The inductive invariant holds initially. *)
LEMMA InitIInv == Init => IInv
BY NoneAssumption, BoundAssumption
DEF Init, IInv, TypeOK, LocalInv, RequestOK, HoldingOK, LockInv, AnswerInv, Amounts, SlipIds

(* Every statement of a handler keeps the types. *)
LEMMA TypeStep == IInv /\ [Next]_vars => TypeOK'
<1> SUFFICES ASSUME IInv, [Next]_vars PROVE TypeOK'
  OBVIOUS
<1> USE DEF IInv
<1>1. ASSUME NEW p \in Periods, NEW e \in Employees, AddInput(p, e) PROVE TypeOK'
  <2>1. inputs[p][e] + 1 \in Amounts
    BY <1>1, BoundAssumption DEF AddInput, TypeOK, Amounts
  <2>2. inputs' \in [Periods -> [Employees -> Amounts]]
    BY <1>1, <2>1 DEF AddInput, TypeOK
  <2>3. QED
    BY <1>1, <2>2 DEF AddInput, TypeOK, locals
<1>2. ASSUME NEW r \in Requests, NEW p \in Periods, RunStart(r, p) PROVE TypeOK'
  BY <1>2 DEF RunStart, Arrive, TypeOK, LocalInv, RequestOK, HoldingOK, db, locals
<1>3. ASSUME NEW r \in Requests, RunList(r) PROVE TypeOK'
  <2>1. todo' \in [Requests -> (SUBSET Employees) \cup (SUBSET SlipIds)]
    BY <1>3 DEF RunList, TypeOK
  <2>2. pc' \in [Requests -> Labels]
    BY <1>3 DEF RunList, TypeOK
  <2>3. UNCHANGED <<db, req, cur, val>>
    BY <1>3 DEF RunList
  <2>4. QED
    BY <2>1, <2>2, <2>3 DEF TypeOK, db
<1>4. ASSUME NEW r \in Requests, NEW e \in Employees, RunCompute(r, e) PROVE TypeOK'
  <2>1. todo[r] \subseteq Employees
    BY <1>4 DEF RunCompute, LocalInv, RequestOK, HoldingOK
  <2>2. PICK amount \in Amounts : Take(r, e, amount)
    BY <1>4 DEF RunCompute
  <2>3. /\ todo' \in [Requests -> (SUBSET Employees) \cup (SUBSET SlipIds)]
        /\ cur' \in [Requests -> Employees \cup SlipIds \cup {None}]
        /\ val' \in [Requests -> Amounts \cup {None}]
    BY <2>1, <2>2 DEF Take, TypeOK
  <2>4. pc' \in [Requests -> Labels] /\ UNCHANGED <<db, req>>
    BY <1>4 DEF RunCompute, TypeOK
  <2>5. QED
    BY <2>3, <2>4 DEF TypeOK, db
<1>5. ASSUME NEW r \in Requests, RunUpsert(r) PROVE TypeOK'
  BY <1>5 DEF RunUpsert, PutDown, RowFree, TypeOK, LocalInv, RequestOK, HoldingOK, db, locals
<1>6. ASSUME NEW r \in Requests, RunReview(r) PROVE TypeOK'
  BY <1>6 DEF RunReview, RowFree, TypeOK, LocalInv, RequestOK, HoldingOK, db, locals
<1>7. ASSUME NEW r \in Requests, NEW p \in Periods, NEW k \in Keys, FinalizeStart(r, p, k) PROVE TypeOK'
  <2>1. UNCHANGED <<status, finalizations, inputs, net, payslips, lock, idem, todo, cur, val>>
    BY <1>7 DEF FinalizeStart, db
  <2>2. PICK l \in Labels : Arrive(r, "finalize", p, k, l)
    BY <1>7 DEF FinalizeStart
  <2>3. req' \in [Requests -> [op : Ops, period : Periods, key : Keys \cup {None}] \cup {None}]
    BY <2>2 DEF Arrive, TypeOK
  <2>4. pc' \in [Requests -> Labels]
    BY <2>2 DEF Arrive, TypeOK
  <2>5. QED
    BY <2>1, <2>3, <2>4 DEF TypeOK
<1>8. ASSUME NEW r \in Requests, FinalizeLock(r) PROVE TypeOK'
  <2>1. pc' \in [Requests -> Labels]
    <3>1. PICK l \in {"insert", "refused"} : pc' = [pc EXCEPT ![r] = l]
      BY <1>8 DEF FinalizeLock
    <3>2. QED
      BY <3>1 DEF TypeOK
  <2>2. lock' \in [Periods -> Requests \cup {None}]
    <3>1. lock' = lock \/ lock' = [lock EXCEPT ![Period(r)] = r]
      BY <1>8 DEF FinalizeLock
    <3>2. QED
      BY <3>1 DEF TypeOK
  <2>3. UNCHANGED <<status, finalizations, inputs, net, payslips, idem, req, todo, cur, val>>
    BY <1>8 DEF FinalizeLock
  <2>4. QED
    BY <2>1, <2>2, <2>3 DEF TypeOK
<1>9. ASSUME NEW r \in Requests, FinalizeInsert(r) PROVE TypeOK'
  <2>1. Period(r) \in Periods
    BY <1>9 DEF FinalizeInsert, LocalInv, RequestOK
  <2>2. finalizations[Period(r)] + 1 \in Nat
    BY <2>1 DEF TypeOK
  <2>3. todo'[r] \subseteq SlipIds
    BY <1>9, <2>1, <2>2 DEF FinalizeInsert, TypeOK, SlipIds
  <2>4. QED
    BY <1>9, <2>3 DEF FinalizeInsert, TypeOK, db
<1>10. ASSUME NEW r \in Requests, FinalizeCount(r) PROVE TypeOK'
  BY <1>10 DEF FinalizeCount, SlipsOf, TypeOK, LocalInv, RequestOK, HoldingOK, db, locals
<1>11. ASSUME NEW r \in Requests, FinalizeCommit(r) PROVE TypeOK'
  <2>1. Period(r) \in Periods /\ todo[r] \subseteq SlipIds
    BY <1>11 DEF FinalizeCommit, LocalInv, RequestOK, HoldingOK
  <2>2. /\ DOMAIN payslips' \subseteq SlipIds
        /\ payslips' \in [DOMAIN payslips' -> Amounts \cup {None}]
    BY <1>11, <2>1 DEF FinalizeCommit, TypeOK
  <2>3. /\ status' \in [Periods -> Statuses] /\ finalizations' \in [Periods -> Nat]
        /\ lock' \in [Periods -> Requests \cup {None}]
    <3>1. /\ status' = [status EXCEPT ![Period(r)] = "finalized"]
          /\ finalizations' = [finalizations EXCEPT ![Period(r)] = @ + 1]
          /\ lock' = [lock EXCEPT ![Period(r)] = None]
      BY <1>11 DEF FinalizeCommit
    <3>2. QED
      BY <3>1, <2>1 DEF TypeOK
  <2>4. /\ pc' \in [Requests -> Labels]
        /\ todo' \in [Requests -> (SUBSET Employees) \cup (SUBSET SlipIds)]
    BY <1>11 DEF FinalizeCommit, TypeOK
  <2>5. UNCHANGED <<inputs, net, idem, req, cur, val>>
    BY <1>11 DEF FinalizeCommit
  <2>6. QED
    BY <2>2, <2>3, <2>4, <2>5 DEF TypeOK
<1>12. ASSUME NEW r \in Requests, FinalizePublish(r) PROVE TypeOK'
  BY <1>12 DEF FinalizePublish, SlipsOf, TypeOK, db
<1>13. ASSUME NEW r \in Requests, FinalizeSave(r) PROVE TypeOK'
  BY <1>13 DEF FinalizeSave, IdemStore!Save, IdemStore!SaveConflicts, TypeOK, LocalInv, RequestOK, HoldingOK, db, locals
<1>14. ASSUME NEW r \in Requests, NEW p \in Periods, ReopenStart(r, p) PROVE TypeOK'
  BY <1>14 DEF ReopenStart, Arrive, TypeOK, LocalInv, RequestOK, HoldingOK, db, locals
<1>15. ASSUME NEW r \in Requests, ReopenDraft(r) PROVE TypeOK'
  BY <1>15 DEF ReopenDraft, RowFree, TypeOK, LocalInv, RequestOK, HoldingOK, db, locals
<1>16. ASSUME NEW r \in Requests, ReopenPurgeResults(r) PROVE TypeOK'
  <2>1. net' \in [Periods -> [Employees -> Amounts \cup {None}]]
    <3> DEFINE blank == [e \in Employees |-> None]
    <3>1. blank \in [Employees -> Amounts \cup {None}]
      OBVIOUS
    <3>2. net' = [net EXCEPT ![Period(r)] = blank] \/ net' = net
      BY <1>16 DEF ReopenPurgeResults
    <3> HIDE DEF blank
    <3>3. QED
      BY <3>1, <3>2 DEF TypeOK
  <2>2. /\ pc' \in [Requests -> Labels]
        /\ UNCHANGED <<status, finalizations, inputs, payslips, lock, idem, req, todo, cur, val>>
    BY <1>16 DEF ReopenPurgeResults, TypeOK
  <2>3. QED
    BY <2>1, <2>2 DEF TypeOK
<1>17. ASSUME NEW r \in Requests, ReopenPurgePayslips(r) PROVE TypeOK'
  BY <1>17 DEF ReopenPurgePayslips, TypeOK, LocalInv, RequestOK, HoldingOK, db, locals
<1>18. ASSUME NEW r \in Requests, NEW i \in DOMAIN payslips, PayslipStart(r, i) PROVE TypeOK'
  <2>1. i \in SlipIds /\ i.period \in Periods
    BY <1>18 DEF TypeOK, SlipIds
  <2>2. QED
    BY <1>18, <2>1 DEF PayslipStart, Arrive, TypeOK, db
<1>19. ASSUME NEW r \in Requests, NEW i \in todo[r], RenderPayslip(r, i) PROVE TypeOK'
  <2>1. todo[r] \subseteq SlipIds
    BY <1>19 DEF RenderPayslip, LocalInv, HoldingOK
  <2>2. i.period \in Periods /\ i.emp \in Employees /\ i \in SlipIds
    BY <2>1 DEF SlipIds
  <2>3. net[i.period][i.emp] \in Amounts \cup {None}
    BY <2>2 DEF TypeOK
  <2>4. todo[r] \ {i} \in SUBSET SlipIds
    BY <2>1
  <2>5. /\ todo' = [todo EXCEPT ![r] = @ \ {i}]
        /\ cur' = cur \/ cur' = [cur EXCEPT ![r] = i]
        /\ val' = val \/ val' = [val EXCEPT ![r] = net[i.period][i.emp]]
        /\ pc' \in [Requests -> Labels]
        /\ UNCHANGED <<db, req>>
    BY <1>19 DEF RenderPayslip, Take, TypeOK
  <2>6. todo' \in [Requests -> (SUBSET Employees) \cup (SUBSET SlipIds)]
    BY <2>4, <2>5 DEF TypeOK
  <2>7. cur' \in [Requests -> Employees \cup SlipIds \cup {None}]
    BY <2>2, <2>5 DEF TypeOK
  <2>8. val' \in [Requests -> Amounts \cup {None}]
    BY <2>3, <2>5 DEF TypeOK
  <2>9. QED
    BY <2>5, <2>6, <2>7, <2>8 DEF TypeOK, db
<1>20. ASSUME NEW r \in Requests, AttachPayslip(r) PROVE TypeOK'
  <2>1. val[r] \in Amounts
    BY <1>20 DEF AttachPayslip, LocalInv, HoldingOK
  <2>2. /\ DOMAIN payslips' \subseteq SlipIds
        /\ payslips' \in [DOMAIN payslips' -> Amounts \cup {None}]
    BY <1>20, <2>1 DEF AttachPayslip, TypeOK
  <2>3. QED
    BY <1>20, <2>2 DEF AttachPayslip, PutDown, TypeOK
<1>21. ASSUME NEW r \in Requests, Fail(r) PROVE TypeOK'
  BY <1>21 DEF Fail, PutDown, InFlight, TypeOK, LocalInv, RequestOK, HoldingOK, db, locals
<1>22. CASE UNCHANGED vars
  BY <1>22 DEF vars, TypeOK, LocalInv, RequestOK, HoldingOK
<1>23. QED
  BY <1>1, <1>2, <1>3, <1>4, <1>5, <1>6, <1>7, <1>8, <1>9, <1>10, <1>11, <1>12, <1>13, <1>14, <1>15, <1>16, <1>17, <1>18, <1>19, <1>20, <1>21, <1>22 DEF Next, Run, Finalize, Reopen, Payslip

(* Every statement leaves its request with what the next label needs. *)
LEMMA LocalStep == IInv /\ [Next]_vars => LocalInv'
<1> SUFFICES ASSUME IInv, [Next]_vars PROVE LocalInv'
  OBVIOUS
<1> USE DEF IInv
<1>1. ASSUME NEW p \in Periods, NEW e \in Employees, AddInput(p, e) PROVE LocalInv'
  BY <1>1 DEF AddInput, LocalInv, RequestOK, HoldingOK, KindOf, TypeOK, db, locals
<1>2. ASSUME NEW r \in Requests, NEW p \in Periods, RunStart(r, p) PROVE LocalInv'
  BY <1>2 DEF RunStart, Arrive, LocalInv, RequestOK, HoldingOK, KindOf, TypeOK, db, locals
<1>3. ASSUME NEW r \in Requests, RunList(r) PROVE LocalInv'
  BY <1>3 DEF RunList, LocalInv, RequestOK, HoldingOK, KindOf, TypeOK, db, locals
<1>4. ASSUME NEW r \in Requests, NEW e \in Employees, RunCompute(r, e) PROVE LocalInv'
  BY <1>4 DEF RunCompute, Take, LocalInv, RequestOK, HoldingOK, KindOf, TypeOK, db, locals
<1>5. ASSUME NEW r \in Requests, RunUpsert(r) PROVE LocalInv'
  BY <1>5 DEF RunUpsert, PutDown, RowFree, LocalInv, RequestOK, HoldingOK, KindOf, TypeOK, db, locals
<1>6. ASSUME NEW r \in Requests, RunReview(r) PROVE LocalInv'
  BY <1>6 DEF RunReview, RowFree, LocalInv, RequestOK, HoldingOK, KindOf, TypeOK, db, locals
<1>7. ASSUME NEW r \in Requests, NEW p \in Periods, NEW k \in Keys, FinalizeStart(r, p, k) PROVE LocalInv'
  <2>1. PICK l \in {"ok", "refused", "lock"} : Arrive(r, "finalize", p, k, l)
    BY <1>7 DEF FinalizeStart
  <2>2. UNCHANGED <<todo, cur, val>>
    BY <1>7 DEF FinalizeStart
  <2>3. RequestOK(r)' /\ HoldingOK(r)'
    BY <2>1, <2>2 DEF Arrive, RequestOK, HoldingOK, KindOf, TypeOK
  <2>4. ASSUME NEW q \in Requests, q # r PROVE RequestOK(q)' /\ HoldingOK(q)'
    BY <2>1, <2>2, <2>4 DEF Arrive, LocalInv, RequestOK, HoldingOK, TypeOK
  <2>5. QED
    BY <2>3, <2>4 DEF LocalInv
<1>8. ASSUME NEW r \in Requests, FinalizeLock(r) PROVE LocalInv'
  <2>1. \A q \in Requests : req'[q] = req[q] /\ todo'[q] = todo[q] /\ cur'[q] = cur[q] /\ val'[q] = val[q]
    BY <1>8 DEF FinalizeLock
  <2>2. pc[r] = "lock" /\ \E l \in {"insert", "refused"} : pc' = [pc EXCEPT ![r] = l]
    BY <1>8 DEF FinalizeLock
  <2>3. RequestOK(r)' /\ HoldingOK(r)'
    BY <2>1, <2>2 DEF LocalInv, RequestOK, HoldingOK, KindOf, TypeOK
  <2>4. ASSUME NEW q \in Requests, q # r PROVE RequestOK(q)' /\ HoldingOK(q)'
    BY <2>1, <2>2, <2>4 DEF LocalInv, RequestOK, HoldingOK, TypeOK
  <2>5. QED
    BY <2>3, <2>4 DEF LocalInv
<1>9. ASSUME NEW r \in Requests, FinalizeInsert(r) PROVE LocalInv'
  <2>1. Period(r) \in Periods /\ finalizations[Period(r)] + 1 \in Nat
    BY <1>9 DEF FinalizeInsert, LocalInv, RequestOK, TypeOK
  <2>2. todo'[r] \subseteq SlipIds
    BY <1>9, <2>1 DEF FinalizeInsert, TypeOK, SlipIds
  <2>3. QED
    BY <1>9, <2>2 DEF FinalizeInsert, LocalInv, RequestOK, HoldingOK, KindOf, TypeOK, db
<1>10. ASSUME NEW r \in Requests, FinalizeCount(r) PROVE LocalInv'
  BY <1>10 DEF FinalizeCount, SlipsOf, LocalInv, RequestOK, HoldingOK, KindOf, TypeOK, db, locals
<1>11. ASSUME NEW r \in Requests, FinalizeCommit(r) PROVE LocalInv'
  BY <1>11 DEF FinalizeCommit, LocalInv, RequestOK, HoldingOK, KindOf, TypeOK, db, locals
<1>12. ASSUME NEW r \in Requests, FinalizePublish(r) PROVE LocalInv'
  BY <1>12 DEF FinalizePublish, SlipsOf, LocalInv, RequestOK, HoldingOK, KindOf, TypeOK, db, locals
<1>13. ASSUME NEW r \in Requests, FinalizeSave(r) PROVE LocalInv'
  BY <1>13 DEF FinalizeSave, IdemStore!Save, IdemStore!SaveConflicts, LocalInv, RequestOK, HoldingOK, KindOf, TypeOK, db, locals
<1>14. ASSUME NEW r \in Requests, NEW p \in Periods, ReopenStart(r, p) PROVE LocalInv'
  BY <1>14 DEF ReopenStart, Arrive, LocalInv, RequestOK, HoldingOK, KindOf, TypeOK, db, locals
<1>15. ASSUME NEW r \in Requests, ReopenDraft(r) PROVE LocalInv'
  BY <1>15 DEF ReopenDraft, RowFree, LocalInv, RequestOK, HoldingOK, KindOf, TypeOK, db, locals
<1>16. ASSUME NEW r \in Requests, ReopenPurgeResults(r) PROVE LocalInv'
  BY <1>16 DEF ReopenPurgeResults, LocalInv, RequestOK, HoldingOK, KindOf, TypeOK, db, locals
<1>17. ASSUME NEW r \in Requests, ReopenPurgePayslips(r) PROVE LocalInv'
  BY <1>17 DEF ReopenPurgePayslips, LocalInv, RequestOK, HoldingOK, KindOf, TypeOK, db, locals
<1>18. ASSUME NEW r \in Requests, NEW i \in DOMAIN payslips, PayslipStart(r, i) PROVE LocalInv'
  <2>1. i \in SlipIds /\ i.period \in Periods
    BY <1>18 DEF TypeOK, SlipIds
  <2>2. QED
    BY <1>18, <2>1 DEF PayslipStart, Arrive, LocalInv, RequestOK, HoldingOK, KindOf, TypeOK, db
<1>19. ASSUME NEW r \in Requests, NEW i \in todo[r], RenderPayslip(r, i) PROVE LocalInv'
  <2>1. todo[r] \subseteq SlipIds
    BY <1>19 DEF RenderPayslip, LocalInv, HoldingOK
  <2>2. i.period \in Periods /\ i.emp \in Employees
    BY <2>1 DEF SlipIds
  <2>3. net[i.period][i.emp] \in Amounts \cup {None}
    BY <2>2 DEF TypeOK
  <2>4. todo' = [todo EXCEPT ![r] = @ \ {i}]
    BY <1>19 DEF RenderPayslip, Take
  <2>5. QED
    BY <1>19, <2>1, <2>3, <2>4
    DEF RenderPayslip, Take, LocalInv, RequestOK, HoldingOK, KindOf, TypeOK, db
<1>20. ASSUME NEW r \in Requests, AttachPayslip(r) PROVE LocalInv'
  BY <1>20 DEF AttachPayslip, PutDown, LocalInv, RequestOK, HoldingOK, KindOf, TypeOK, db, locals
<1>21. ASSUME NEW r \in Requests, Fail(r) PROVE LocalInv'
  BY <1>21 DEF Fail, PutDown, InFlight, LocalInv, RequestOK, HoldingOK, KindOf, TypeOK, db, locals
<1>22. CASE UNCHANGED vars
  BY <1>22 DEF vars, LocalInv, RequestOK, HoldingOK, KindOf, TypeOK
<1>23. QED
  BY <1>1, <1>2, <1>3, <1>4, <1>5, <1>6, <1>7, <1>8, <1>9, <1>10, <1>11, <1>12, <1>13, <1>14, <1>15, <1>16, <1>17, <1>18, <1>19, <1>20, <1>21, <1>22 DEF Next, Run, Finalize, Reopen, Payslip

(* No statement takes the row or the status away from an open transaction. *)
LEMMA LockStep == IInv /\ [Next]_vars => LockInv'
<1> SUFFICES ASSUME IInv, [Next]_vars PROVE LockInv'
  OBVIOUS
<1> USE DEF IInv
<1>1. ASSUME NEW p \in Periods, NEW e \in Employees, AddInput(p, e) PROVE LockInv'
  BY <1>1, NoneAssumption DEF AddInput, LockInv, LocalInv, RequestOK, KindOf, TypeOK, db, locals
<1>2. ASSUME NEW r \in Requests, NEW p \in Periods, RunStart(r, p) PROVE LockInv'
  BY <1>2, NoneAssumption DEF RunStart, Arrive, LockInv, LocalInv, RequestOK, KindOf, TypeOK, db, locals
<1>3. ASSUME NEW r \in Requests, RunList(r) PROVE LockInv'
  BY <1>3, NoneAssumption DEF RunList, LockInv, LocalInv, RequestOK, KindOf, TypeOK, db, locals
<1>4. ASSUME NEW r \in Requests, NEW e \in Employees, RunCompute(r, e) PROVE LockInv'
  BY <1>4, NoneAssumption DEF RunCompute, Take, LockInv, LocalInv, RequestOK, KindOf, TypeOK, db, locals
<1>5. ASSUME NEW r \in Requests, RunUpsert(r) PROVE LockInv'
  BY <1>5, NoneAssumption DEF RunUpsert, PutDown, RowFree, LockInv, LocalInv, RequestOK, KindOf, TypeOK, db, locals
<1>6. ASSUME NEW r \in Requests, RunReview(r) PROVE LockInv'
  BY <1>6, NoneAssumption DEF RunReview, RowFree, LockInv, LocalInv, RequestOK, KindOf, TypeOK, db, locals
<1>7. ASSUME NEW r \in Requests, NEW p \in Periods, NEW k \in Keys, FinalizeStart(r, p, k) PROVE LockInv'
  <2>1. PICK l \in {"ok", "refused", "lock"} : Arrive(r, "finalize", p, k, l)
    BY <1>7 DEF FinalizeStart
  <2>2. lock' = lock /\ status' = status
    BY <1>7 DEF FinalizeStart, db
  <2>3. QED
    BY <2>1, <2>2 DEF Arrive, LockInv, TypeOK
<1>8. ASSUME NEW r \in Requests, FinalizeLock(r) PROVE LockInv'
  BY <1>8, NoneAssumption DEF FinalizeLock, RowFree, LockInv, LocalInv, RequestOK, KindOf, TypeOK, db, locals
<1>9. ASSUME NEW r \in Requests, FinalizeInsert(r) PROVE LockInv'
  BY <1>9, NoneAssumption DEF FinalizeInsert, LockInv, LocalInv, RequestOK, KindOf, TypeOK, db, locals
<1>10. ASSUME NEW r \in Requests, FinalizeCount(r) PROVE LockInv'
  BY <1>10, NoneAssumption DEF FinalizeCount, SlipsOf, LockInv, LocalInv, RequestOK, KindOf, TypeOK, db, locals
<1>11. ASSUME NEW r \in Requests, FinalizeCommit(r) PROVE LockInv'
  BY <1>11, NoneAssumption DEF FinalizeCommit, LockInv, LocalInv, RequestOK, KindOf, TypeOK, db, locals
<1>12. ASSUME NEW r \in Requests, FinalizePublish(r) PROVE LockInv'
  BY <1>12, NoneAssumption DEF FinalizePublish, SlipsOf, LockInv, LocalInv, RequestOK, KindOf, TypeOK, db, locals
<1>13. ASSUME NEW r \in Requests, FinalizeSave(r) PROVE LockInv'
  BY <1>13, NoneAssumption DEF FinalizeSave, IdemStore!Save, IdemStore!SaveConflicts, LockInv, LocalInv, RequestOK, KindOf, TypeOK, db, locals
<1>14. ASSUME NEW r \in Requests, NEW p \in Periods, ReopenStart(r, p) PROVE LockInv'
  BY <1>14, NoneAssumption DEF ReopenStart, Arrive, LockInv, LocalInv, RequestOK, KindOf, TypeOK, db, locals
<1>15. ASSUME NEW r \in Requests, ReopenDraft(r) PROVE LockInv'
  BY <1>15, NoneAssumption DEF ReopenDraft, RowFree, LockInv, LocalInv, RequestOK, KindOf, TypeOK, db, locals
<1>16. ASSUME NEW r \in Requests, ReopenPurgeResults(r) PROVE LockInv'
  BY <1>16, NoneAssumption DEF ReopenPurgeResults, LockInv, LocalInv, RequestOK, KindOf, TypeOK, db, locals
<1>17. ASSUME NEW r \in Requests, ReopenPurgePayslips(r) PROVE LockInv'
  BY <1>17, NoneAssumption DEF ReopenPurgePayslips, LockInv, LocalInv, RequestOK, KindOf, TypeOK, db, locals
<1>18. ASSUME NEW r \in Requests, NEW i \in DOMAIN payslips, PayslipStart(r, i) PROVE LockInv'
  BY <1>18, NoneAssumption DEF PayslipStart, Arrive, LockInv, LocalInv, RequestOK, KindOf, TypeOK, db, locals
<1>19. ASSUME NEW r \in Requests, NEW i \in todo[r], RenderPayslip(r, i) PROVE LockInv'
  BY <1>19, NoneAssumption DEF RenderPayslip, Take, LockInv, LocalInv, RequestOK, KindOf, TypeOK, db, locals
<1>20. ASSUME NEW r \in Requests, AttachPayslip(r) PROVE LockInv'
  BY <1>20, NoneAssumption DEF AttachPayslip, PutDown, LockInv, LocalInv, RequestOK, KindOf, TypeOK, db, locals
<1>21. ASSUME NEW r \in Requests, Fail(r) PROVE LockInv'
  BY <1>21, NoneAssumption DEF Fail, PutDown, InFlight, LockInv, LocalInv, RequestOK, KindOf, TypeOK, db, locals
<1>22. CASE UNCHANGED vars
  BY <1>22 DEF vars, LockInv, LocalInv, RequestOK, KindOf, TypeOK
<1>23. QED
  BY <1>1, <1>2, <1>3, <1>4, <1>5, <1>6, <1>7, <1>8, <1>9, <1>10, <1>11, <1>12, <1>13, <1>14, <1>15, <1>16, <1>17, <1>18, <1>19, <1>20, <1>21, <1>22 DEF Next, Run, Finalize, Reopen, Payslip

(* No statement binds a key or passes the commit point without a commit. *)
LEMMA AnswerStep == IInv /\ [Next]_vars => AnswerInv'
<1> SUFFICES ASSUME IInv, [Next]_vars PROVE AnswerInv'
  OBVIOUS
<1> USE DEF IInv
<1>1. ASSUME NEW p \in Periods, NEW e \in Employees, AddInput(p, e) PROVE AnswerInv'
  BY <1>1, NoneAssumption DEF AddInput, AnswerInv, LocalInv, RequestOK, KindOf, TypeOK, db, locals
<1>2. ASSUME NEW r \in Requests, NEW p \in Periods, RunStart(r, p) PROVE AnswerInv'
  BY <1>2, NoneAssumption DEF RunStart, Arrive, AnswerInv, LocalInv, RequestOK, KindOf, TypeOK, db, locals
<1>3. ASSUME NEW r \in Requests, RunList(r) PROVE AnswerInv'
  BY <1>3, NoneAssumption DEF RunList, AnswerInv, LocalInv, RequestOK, KindOf, TypeOK, db, locals
<1>4. ASSUME NEW r \in Requests, NEW e \in Employees, RunCompute(r, e) PROVE AnswerInv'
  BY <1>4, NoneAssumption DEF RunCompute, Take, AnswerInv, LocalInv, RequestOK, KindOf, TypeOK, db, locals
<1>5. ASSUME NEW r \in Requests, RunUpsert(r) PROVE AnswerInv'
  BY <1>5, NoneAssumption DEF RunUpsert, PutDown, RowFree, AnswerInv, LocalInv, RequestOK, KindOf, TypeOK, db, locals
<1>6. ASSUME NEW r \in Requests, RunReview(r) PROVE AnswerInv'
  BY <1>6, NoneAssumption DEF RunReview, RowFree, AnswerInv, LocalInv, RequestOK, KindOf, TypeOK, db, locals
<1>7. ASSUME NEW r \in Requests, NEW p \in Periods, NEW k \in Keys, FinalizeStart(r, p, k) PROVE AnswerInv'
  <2>1. PICK l \in {"ok", "refused", "lock"} :
          Arrive(r, "finalize", p, k, l) /\ (l = "ok" => idem[k] = p)
    BY <1>7 DEF FinalizeStart, IdemStore!Check
  <2>2. idem' = idem /\ finalizations' = finalizations
    BY <1>7 DEF FinalizeStart, db
  <2>3. l = "ok" => finalizations[p] > 0
    BY <2>1, NoneAssumption DEF AnswerInv
  <2>4. QED
    BY <2>1, <2>2, <2>3 DEF Arrive, AnswerInv, TypeOK
<1>8. ASSUME NEW r \in Requests, FinalizeLock(r) PROVE AnswerInv'
  BY <1>8, NoneAssumption DEF FinalizeLock, RowFree, AnswerInv, LocalInv, RequestOK, KindOf, TypeOK, db, locals
<1>9. ASSUME NEW r \in Requests, FinalizeInsert(r) PROVE AnswerInv'
  BY <1>9, NoneAssumption DEF FinalizeInsert, AnswerInv, LocalInv, RequestOK, KindOf, TypeOK, db, locals
<1>10. ASSUME NEW r \in Requests, FinalizeCount(r) PROVE AnswerInv'
  BY <1>10, NoneAssumption DEF FinalizeCount, SlipsOf, AnswerInv, LocalInv, RequestOK, KindOf, TypeOK, db, locals
<1>11. ASSUME NEW r \in Requests, FinalizeCommit(r) PROVE AnswerInv'
  BY <1>11, NoneAssumption DEF FinalizeCommit, AnswerInv, LocalInv, RequestOK, KindOf, TypeOK, db, locals
<1>12. ASSUME NEW r \in Requests, FinalizePublish(r) PROVE AnswerInv'
  BY <1>12, NoneAssumption DEF FinalizePublish, SlipsOf, AnswerInv, LocalInv, RequestOK, KindOf, TypeOK, db, locals
<1>13. ASSUME NEW r \in Requests, FinalizeSave(r) PROVE AnswerInv'
  <2>1. finalizations' = finalizations /\ req' = req
    BY <1>13 DEF FinalizeSave
  <2>2. pc[r] = "render" /\ req[r].op = "finalize" /\ finalizations[Period(r)] > 0
    BY <1>13 DEF FinalizeSave, AnswerInv
  <2>3. \A k \in Keys : idem'[k] = idem[k] \/ idem'[k] = Period(r)
    BY <1>13 DEF FinalizeSave, IdemStore!Save, TypeOK
  <2>4. \A q \in Requests \ {r} : pc'[q] = pc[q]
    BY <1>13 DEF FinalizeSave, TypeOK
  <2>5. QED
    BY <2>1, <2>2, <2>3, <2>4 DEF AnswerInv
<1>14. ASSUME NEW r \in Requests, NEW p \in Periods, ReopenStart(r, p) PROVE AnswerInv'
  BY <1>14, NoneAssumption DEF ReopenStart, Arrive, AnswerInv, LocalInv, RequestOK, KindOf, TypeOK, db, locals
<1>15. ASSUME NEW r \in Requests, ReopenDraft(r) PROVE AnswerInv'
  BY <1>15, NoneAssumption DEF ReopenDraft, RowFree, AnswerInv, LocalInv, RequestOK, KindOf, TypeOK, db, locals
<1>16. ASSUME NEW r \in Requests, ReopenPurgeResults(r) PROVE AnswerInv'
  BY <1>16, NoneAssumption DEF ReopenPurgeResults, AnswerInv, LocalInv, RequestOK, KindOf, TypeOK, db, locals
<1>17. ASSUME NEW r \in Requests, ReopenPurgePayslips(r) PROVE AnswerInv'
  BY <1>17, NoneAssumption DEF ReopenPurgePayslips, AnswerInv, LocalInv, RequestOK, KindOf, TypeOK, db, locals
<1>18. ASSUME NEW r \in Requests, NEW i \in DOMAIN payslips, PayslipStart(r, i) PROVE AnswerInv'
  BY <1>18, NoneAssumption DEF PayslipStart, Arrive, AnswerInv, LocalInv, RequestOK, KindOf, TypeOK, db, locals
<1>19. ASSUME NEW r \in Requests, NEW i \in todo[r], RenderPayslip(r, i) PROVE AnswerInv'
  BY <1>19, NoneAssumption DEF RenderPayslip, Take, AnswerInv, LocalInv, RequestOK, KindOf, TypeOK, db, locals
<1>20. ASSUME NEW r \in Requests, AttachPayslip(r) PROVE AnswerInv'
  BY <1>20, NoneAssumption DEF AttachPayslip, PutDown, AnswerInv, LocalInv, RequestOK, KindOf, TypeOK, db, locals
<1>21. ASSUME NEW r \in Requests, Fail(r) PROVE AnswerInv'
  BY <1>21, NoneAssumption DEF Fail, PutDown, InFlight, AnswerInv, LocalInv, RequestOK, KindOf, TypeOK, db, locals
<1>22. CASE UNCHANGED vars
  BY <1>22 DEF vars, AnswerInv, LocalInv, RequestOK, KindOf, TypeOK
<1>23. QED
  BY <1>1, <1>2, <1>3, <1>4, <1>5, <1>6, <1>7, <1>8, <1>9, <1>10, <1>11, <1>12, <1>13, <1>14, <1>15, <1>16, <1>17, <1>18, <1>19, <1>20, <1>21, <1>22 DEF Next, Run, Finalize, Reopen, Payslip


(* The invariant is inductive. *)
LEMMA IInvStep == IInv /\ [Next]_vars => IInv'
BY TypeStep, LocalStep, LockStep, AnswerStep DEF IInv

(* The inductive invariant holds in every reachable state. *)
THEOREM Invariance == Spec => []IInv
BY InitIInv, IInvStep, PTL DEF Spec

(* The variables keep their types in every behaviour. *)
THEOREM TypeCorrect == Spec => []TypeOK
<1>1. IInv => TypeOK
  BY DEF IInv
<1>2. QED
  BY Invariance, <1>1, PTL

(* A finalize request that is answered with success is answered truthfully. *)
THEOREM SuccessTruthful == Spec => []SuccessIsTruthful
<1>1. IInv => SuccessIsTruthful
  BY DEF IInv, AnswerInv, SuccessIsTruthful
<1>2. QED
  BY Invariance, <1>1, PTL

(* No interleaving makes a period finalized that was not reviewed: the row lock *)
(* keeps the status the transaction has checked until it commits.               *)
THEOREM FinalizedFromReviewed == Spec => FinalizeOnlyFromReviewed
<1> DEFINE A == \A p \in Periods : status'[p] = "finalized" /\ status[p] # "finalized"
                                  => status[p] = "reviewed"
<1>1. ASSUME IInv, [Next]_vars PROVE A
  <2> SUFFICES ASSUME NEW p \in Periods, status'[p] = "finalized", status[p] # "finalized"
               PROVE status[p] = "reviewed"
    OBVIOUS
  <2>1. PICK r \in Requests : RunReview(r) \/ ReopenDraft(r) \/ FinalizeCommit(r)
    BY <1>1 DEF Next, Run, Finalize, Reopen, Payslip, vars, db, locals, AddInput, RunStart,
      RunList, RunCompute, RunUpsert, FinalizeStart, FinalizeLock, FinalizeInsert,
      FinalizeCount, FinalizePublish, FinalizeSave, ReopenStart, ReopenPurgeResults,
      ReopenPurgePayslips, PayslipStart, RenderPayslip, AttachPayslip, Fail
  <2>2. CASE RunReview(r)
    BY <2>2, <1>1 DEF RunReview, IInv, TypeOK
  <2>3. CASE ReopenDraft(r)
    BY <2>3, <1>1 DEF ReopenDraft, IInv, TypeOK
  <2>4. CASE FinalizeCommit(r)
    <3>1. status[Period(r)] = "reviewed"
      BY <2>4, <1>1 DEF FinalizeCommit, IInv, LockInv
    <3>2. status' = [status EXCEPT ![Period(r)] = "finalized"]
      BY <2>4 DEF FinalizeCommit
    <3>3. QED
      BY <3>1, <3>2, <1>1 DEF IInv, TypeOK
  <2>5. QED
    BY <2>1, <2>2, <2>3, <2>4
<1>2. IInv /\ [Next]_vars => [A]_vars
  BY <1>1
<1>3. QED
  BY Invariance, <1>2, PTL DEF Spec, FinalizeOnlyFromReviewed

(* A key that answers for a period answers for it for ever. *)
THEOREM KeysNeverRebound == Spec => KeyNeverRebound
<1> DEFINE A == \A k \in Keys : idem[k] # Unused => idem'[k] = idem[k]
<1>1. ASSUME IInv, [Next]_vars PROVE A
  <2>1. idem' = idem \/ \E r \in Requests : FinalizeSave(r)
    BY <1>1, ZenonT(30) DEF Next, Run, Finalize, Reopen, Payslip, vars, db, locals, AddInput, RunStart,
      RunList, RunCompute, RunUpsert, RunReview, FinalizeStart, FinalizeLock, FinalizeInsert,
      FinalizeCount, FinalizeCommit, FinalizePublish, ReopenStart, ReopenDraft,
      ReopenPurgeResults, ReopenPurgePayslips, PayslipStart, RenderPayslip, AttachPayslip, Fail
  <2>2. ASSUME NEW r \in Requests, FinalizeSave(r) PROVE A
    BY <2>2, <1>1 DEF FinalizeSave, IdemStore!Save, IdemStore!SaveConflicts, IInv, TypeOK
  <2>3. QED
    BY <2>1, <2>2, SMTT(30)
<1>2. IInv /\ [Next]_vars => [A]_vars
  BY <1>1
<1>3. QED
  BY Invariance, <1>2, PTL DEF Spec, KeyNeverRebound

-----------------------------------------------------------------------------
(* What holds where requests are of one kind at a time and no reopening stops   *)
(* half way.                                                                    *)
Discipline == MayOverlap \subseteq OneKindAtATime /\ "reopen" \notin FaultyOps

Running == {"list", "loop", "upsert"}
Purging == {"purgeResults", "purgePayslips"}
Reopening == {"redraft"} \cup Purging

KindInv ==
  \A q, r \in Requests : InFlight(q) /\ InFlight(r) =>
    req[q].op = req[r].op \/ "payslip" \in {req[q].op, req[r].op}

(* The status that a run or a reopening has seen when it began still allows it. *)
StageInv ==
  \A r \in Requests :
    /\ pc[r] \in Running => status[Period(r)] # "finalized"
    /\ pc[r] = "redraft" => status[Period(r)] \in {"finalized", "draft"}
    /\ pc[r] \in Purging => status[Period(r)] = "draft"

(* Payslips are there in a finalized period, and until a reopening has purged them. *)
SlipInv ==
  \A p \in Periods : SlipsOf(p) # {} =>
    status[p] = "finalized" \/ (\E r \in Requests : pc[r] \in Purging /\ Period(r) = p)

(* No slip is of a round that is still to come: a stale one is never reissued. *)
RoundInv ==
  /\ \A i \in DOMAIN payslips : i.round <= finalizations[i.period]
  /\ \A r \in Requests :
       /\ pc[r] \in {"render", "attach"} => \A i \in todo[r] : i.round <= finalizations[i.period]
       /\ pc[r] = "attach" => cur[r] \in SlipIds /\ cur[r].round <= finalizations[cur[r].period]

PaidIn(p) == {e \in Employees : net[p][e] # None}
NextSlips(p) == {[period |-> p, round |-> finalizations[p] + 1, emp |-> e] : e \in PaidIn(p)}

(* The rows a transaction has inserted are those of the results there are now. *)
InsertInv ==
  \A r \in Requests : /\ pc[r] \in {"count", "commit"} => todo[r] = NextSlips(Period(r))
                      /\ pc[r] = "commit" => todo[r] # {}

(* A file about to be attached to a slip of a finalized period shows the result. *)
AttachInv ==
  \A r \in Requests :
    pc[r] = "attach" /\ cur[r] \in DOMAIN payslips /\ status[cur[r].period] = "finalized"
      => val[r] = net[cur[r].period][cur[r].emp]

CInv == /\ KindInv /\ StageInv /\ SlipInv /\ RoundInv /\ InsertInv /\ AttachInv
        /\ OnePayslipEach /\ FileShowsResult

-----------------------------------------------------------------------------
LEMMA InitCInv == Init => CInv
BY NoneAssumption DEF Init, CInv, KindInv, StageInv, SlipInv, RoundInv, InsertInv, AttachInv,
  OnePayslipEach, FileShowsResult, SlipsOf, InFlight, Running, Purging

(* What request r may do. *)
Own(r) ==
  \/ \E p \in Periods : RunStart(r, p) \/ ReopenStart(r, p) \/ \E k \in Keys : FinalizeStart(r, p, k)
  \/ RunList(r) \/ RunUpsert(r) \/ RunReview(r) \/ \E e \in Employees : RunCompute(r, e)
  \/ FinalizeLock(r) \/ FinalizeInsert(r) \/ FinalizeCount(r) \/ FinalizeCommit(r)
  \/ FinalizePublish(r) \/ FinalizeSave(r)
  \/ ReopenDraft(r) \/ ReopenPurgeResults(r) \/ ReopenPurgePayslips(r)
  \/ (\E i \in DOMAIN payslips : PayslipStart(r, i)) \/ (\E i \in todo[r] : RenderPayslip(r, i))
  \/ AttachPayslip(r) \/ Fail(r)

LEMMA StepIsOwn ==
  [Next]_vars => \/ \E r \in Requests : Own(r)
                 \/ UNCHANGED <<status, finalizations, net, payslips, locals>>
BY DEF Next, Run, Finalize, Reopen, Payslip, Own, vars, locals, AddInput

(* A step of a request leaves what the others know alone. *)
LEMMA OthersStay ==
  ASSUME TypeOK, NEW r \in Requests, Own(r), NEW q \in Requests \ {r}
  PROVE  pc'[q] = pc[q] /\ req'[q] = req[q] /\ todo'[q] = todo[q] /\ cur'[q] = cur[q] /\ val'[q] = val[q]
<1>1. \A s \in Requests : s # r => pc'[s] = pc[s] /\ req'[s] = req[s]
  BY SMTT(30) DEF Own, TypeOK, RunStart, Arrive, RunList, RunCompute, RunUpsert, RunReview, FinalizeStart, FinalizeLock,
    FinalizeInsert, FinalizeCount, FinalizeCommit, FinalizePublish, FinalizeSave, ReopenStart, ReopenDraft,
    ReopenPurgeResults, ReopenPurgePayslips, PayslipStart, RenderPayslip, AttachPayslip, Fail
<1>2. \A s \in Requests : s # r => todo'[s] = todo[s] /\ cur'[s] = cur[s] /\ val'[s] = val[s]
  BY SMTT(30) DEF Own, TypeOK, Take, PutDown, RunStart, RunList, RunCompute, RunUpsert, RunReview, FinalizeStart, FinalizeLock,
    FinalizeInsert, FinalizeCount, FinalizeCommit, FinalizePublish, FinalizeSave, ReopenStart, ReopenDraft,
    ReopenPurgeResults, ReopenPurgePayslips, PayslipStart, RenderPayslip, AttachPayslip, Fail
<1>3. QED
  BY <1>1, <1>2

(* Which statements write the status, a result, the payslips. *)
LEMMA Writers ==
  ASSUME NEW r \in Requests, Own(r)
  PROVE  /\ RunReview(r) \/ FinalizeCommit(r) \/ ReopenDraft(r) \/ status' = status
         /\ RunUpsert(r) \/ ReopenPurgeResults(r) \/ net' = net
         /\ FinalizeCommit(r) \/ ReopenPurgePayslips(r) \/ AttachPayslip(r) \/ payslips' = payslips
         /\ FinalizeCommit(r) \/ finalizations' = finalizations
<1>1. CASE \/ \E p \in Periods : RunStart(r, p) \/ ReopenStart(r, p) \/ \E k \in Keys : FinalizeStart(r, p, k)
           \/ RunList(r) \/ RunUpsert(r) \/ RunReview(r) \/ \E e \in Employees : RunCompute(r, e)
  BY <1>1 DEF db, RunStart, ReopenStart, FinalizeStart, RunList, RunUpsert, RunReview, RunCompute
<1>2. CASE \/ FinalizeLock(r) \/ FinalizeInsert(r) \/ FinalizeCount(r) \/ FinalizeCommit(r)
           \/ FinalizePublish(r) \/ FinalizeSave(r)
  BY <1>2 DEF db, FinalizeLock, FinalizeInsert, FinalizeCount, FinalizeCommit, FinalizePublish, FinalizeSave
<1>3. CASE \/ ReopenDraft(r) \/ ReopenPurgeResults(r) \/ ReopenPurgePayslips(r)
           \/ (\E i \in DOMAIN payslips : PayslipStart(r, i)) \/ (\E i \in todo[r] : RenderPayslip(r, i))
           \/ AttachPayslip(r) \/ Fail(r)
  BY <1>3 DEF db, ReopenDraft, ReopenPurgeResults, ReopenPurgePayslips, PayslipStart, RenderPayslip, AttachPayslip, Fail
<1>4. QED
  BY <1>1, <1>2, <1>3 DEF Own

(* A request arrives or goes on with what it asked for. *)
LEMMA ArrivesOrGoesOn ==
  ASSUME NEW r \in Requests, Own(r)
  PROVE  \/ \E op \in Ops : \E p, key, l : Arrive(r, op, p, key, l)
         \/ InFlight(r) /\ req' = req
<1>1. ASSUME NEW p, NEW k, FinalizeStart(r, p, k) PROVE \E l : Arrive(r, "finalize", p, k, l)
  BY <1>1 DEF FinalizeStart
<1>2. QED
  BY <1>1 DEF Own, db, locals, InFlight, RunStart, RunList, RunCompute, RunUpsert, RunReview, FinalizeLock,
    FinalizeInsert, FinalizeCount, FinalizeCommit, FinalizePublish, FinalizeSave, ReopenStart, ReopenDraft,
    ReopenPurgeResults, ReopenPurgePayslips, PayslipStart, RenderPayslip, AttachPayslip, Fail

(* OneKindAtATime, of two kinds. *)
LEMMA Together ==
  ASSUME NEW a \in Ops, NEW b \in Ops, {a, b} \in OneKindAtATime
  PROVE  a = b \/ "payslip" \in {a, b}
<1>1. CASE {a, b} \in {{"run"}, {"finalize"}, {"reopen"}}
  BY <1>1
<1>2. CASE \E op \in Ops : {a, b} = {"payslip", op}
  BY <1>2
<1>3. QED
  BY <1>1, <1>2 DEF OneKindAtATime

LEMMA KindStep ==
  ASSUME Discipline, IInv, KindInv, NEW r \in Requests, Own(r)
  PROVE  KindInv'
<1> SUFFICES ASSUME NEW q \in Requests \ {r}, InFlight(q)', InFlight(r)'
             PROVE  req'[q].op = req'[r].op \/ "payslip" \in {req'[q].op, req'[r].op}
  <2>1. \A q \in Requests \ {r} : (InFlight(q)' <=> InFlight(q)) /\ req'[q] = req[q]
    BY OthersStay DEF InFlight, IInv
  <2>2. QED
    BY <2>1 DEF KindInv
<1>1. InFlight(q) /\ req'[q] = req[q] /\ req[q].op \in Ops
  BY OthersStay DEF InFlight, IInv, LocalInv, RequestOK
<1>2. ASSUME NEW op \in Ops, NEW p, NEW key, NEW l, Arrive(r, op, p, key, l)
      PROVE  req[q].op = req'[r].op \/ "payslip" \in {req[q].op, req'[r].op}
  <2>1. req'[r].op = op /\ {op, req[q].op} \in OneKindAtATime
    BY <1>1, <1>2 DEF Arrive, Discipline, IInv, TypeOK
  <2>2. QED
    BY <2>1, <1>1, Together
<1>3. ASSUME InFlight(r), req' = req
      PROVE  req[q].op = req'[r].op \/ "payslip" \in {req[q].op, req'[r].op}
  BY <1>1, <1>3 DEF KindInv
<1>4. QED
  BY <1>1, <1>2, <1>3, ArrivesOrGoesOn

(* While one request is at the labels of a kind, no other is at those of another. *)
LEMMA Apart ==
  ASSUME IInv, KindInv, NEW q \in Requests, NEW r \in Requests
  PROVE  /\ pc[q] \in Running => pc[r] \notin {"lock", "insert", "count", "commit", "publish"} \cup Reopening
         /\ pc[q] \in Reopening => pc[r] \notin {"lock", "insert", "count", "commit", "publish"}
<1>1. \A x \in Requests :
        /\ pc[x] \in Running => InFlight(x) /\ req[x].op = "run"
        /\ pc[x] \in Reopening => InFlight(x) /\ req[x].op = "reopen"
        /\ pc[x] \in {"lock", "insert", "count", "commit", "publish"} => InFlight(x) /\ req[x].op = "finalize"
  BY DEF IInv, LocalInv, RequestOK, KindOf, InFlight, Running, Reopening, Purging
<1>2. QED
  BY <1>1 DEF KindInv

(* How a request comes to the labels that StageInv is about. *)
LEMMA Enters ==
  ASSUME TypeOK, NEW r \in Requests, Own(r)
  PROVE  /\ pc'[r] \in Running =>
              /\ status' = status
              /\ status[req'[r].period] # "finalized" \/ (pc[r] \in Running /\ req' = req)
         /\ pc'[r] = "redraft" => status' = status /\ status[req'[r].period] = "finalized"
         /\ pc'[r] = "purgeResults" => ReopenDraft(r)
         /\ pc'[r] = "purgePayslips" => ReopenPurgeResults(r)
         /\ pc'[r] = "count" => FinalizeInsert(r)
         /\ pc'[r] = "commit" => FinalizeCount(r)
<1> USE DEF Running, TypeOK
<1>1. ASSUME NEW p \in Periods, RunStart(r, p) \/ ReopenStart(r, p) \/ \E k \in Keys : FinalizeStart(r, p, k)
      PROVE  /\ pc'[r] \in Running => status' = status /\ status[req'[r].period] # "finalized"
             /\ pc'[r] = "redraft" => status' = status /\ status[req'[r].period] = "finalized"
             /\ pc'[r] \notin Purging \cup {"count", "commit"}
  BY <1>1 DEF RunStart, ReopenStart, FinalizeStart, Arrive, db, Purging
<1>2. CASE \/ RunList(r) \/ RunUpsert(r) \/ RunReview(r) \/ \E e \in Employees : RunCompute(r, e)
  BY <1>2 DEF RunList, RunUpsert, RunReview, RunCompute, db
<1>3. CASE FinalizeLock(r) \/ FinalizePublish(r) \/ FinalizeSave(r)
  BY <1>3 DEF FinalizeLock, FinalizePublish, FinalizeSave
<1>4. CASE FinalizeInsert(r) \/ FinalizeCount(r) \/ FinalizeCommit(r)
  BY <1>4 DEF FinalizeInsert, FinalizeCount, FinalizeCommit
<1>5. CASE ReopenDraft(r) \/ ReopenPurgeResults(r) \/ ReopenPurgePayslips(r)
  BY <1>5 DEF ReopenDraft, ReopenPurgeResults, ReopenPurgePayslips
<1>6. CASE \/ \E i \in DOMAIN payslips : PayslipStart(r, i)
           \/ \E i \in todo[r] : RenderPayslip(r, i)
           \/ AttachPayslip(r) \/ Fail(r)
  BY <1>6 DEF PayslipStart, Arrive, RenderPayslip, AttachPayslip, Fail
<1>7. QED
  BY <1>1, <1>2, <1>3, <1>4, <1>5, <1>6 DEF Own, Purging

LEMMA StageStep ==
  ASSUME IInv, KindInv, StageInv, NEW r \in Requests, Own(r)
  PROVE  StageInv'
<1> USE DEF IInv
<1>1. \/ RunReview(r) /\ pc[r] \in Running /\ status' = [status EXCEPT ![Period(r)] = "reviewed"]
      \/ FinalizeCommit(r) /\ pc[r] = "commit" /\ status' = [status EXCEPT ![Period(r)] = "finalized"]
      \/ ReopenDraft(r) /\ pc[r] = "redraft" /\ status' = [status EXCEPT ![Period(r)] = "draft"]
      \/ status' = status
  BY Writers DEF RunReview, FinalizeCommit, ReopenDraft, Running
<1>2. ASSUME NEW q \in Requests \ {r}
      PROVE  /\ pc'[q] \in Running => status'[req'[q].period] # "finalized"
             /\ pc'[q] = "redraft" => status'[req'[q].period] \in {"finalized", "draft"}
             /\ pc'[q] \in Purging => status'[req'[q].period] = "draft"
  <2>1. pc'[q] = pc[q] /\ req'[q] = req[q]
    BY OthersStay
  <2>2. pc[q] # "new" => req[q].period \in Periods
    BY DEF LocalInv, RequestOK
  <2>3. pc[q] \in Running => status'[req[q].period] # "finalized"
    BY <1>1, <2>2, Apart DEF StageInv, TypeOK, Running
  <2>4. pc[q] \in Reopening => pc[r] \notin Running \cup {"commit"}
    BY Apart
  <2>5. /\ pc[q] = "redraft" => status'[req[q].period] \in {"finalized", "draft"}
        /\ pc[q] \in Purging => status'[req[q].period] = "draft"
    BY <1>1, <2>2, <2>4 DEF StageInv, TypeOK, Reopening, Purging
  <2>6. QED
    BY <2>1, <2>3, <2>5
<1>3. /\ pc'[r] \in Running => status'[req'[r].period] # "finalized"
      /\ pc'[r] = "redraft" => status'[req'[r].period] \in {"finalized", "draft"}
  BY Enters DEF StageInv
<1>4. pc'[r] \in Purging => status'[req'[r].period] = "draft"
  <2>1. ASSUME ReopenDraft(r) PROVE status'[req'[r].period] = "draft"
    BY <2>1 DEF ReopenDraft, TypeOK, LocalInv, RequestOK
  <2>2. ASSUME ReopenPurgeResults(r) PROVE status'[req'[r].period] = "draft"
    BY <2>2 DEF ReopenPurgeResults, StageInv, Purging
  <2>3. QED
    BY <2>1, <2>2, Enters DEF Purging
<1>5. QED
  BY <1>2, <1>3, <1>4 DEF StageInv

(* There is one new slip for each employee with a result. *)
LEMMA NextSlipsOneEach ==
  ASSUME NEW p
  PROVE  /\ {i.emp : i \in NextSlips(p)} = PaidIn(p)
         /\ \A i, j \in NextSlips(p) : i.emp = j.emp => i = j
<1> DEFINE Slip(e) == [period |-> p, round |-> finalizations[p] + 1, emp |-> e]
<1>1. \A e \in PaidIn(p) : Slip(e) \in NextSlips(p) /\ Slip(e).emp = e
  BY DEF NextSlips
<1>2. \A i \in NextSlips(p) : i.emp \in PaidIn(p) /\ i = Slip(i.emp)
  BY DEF NextSlips
<1>3. {i.emp : i \in NextSlips(p)} = PaidIn(p)
  <2> HIDE DEF Slip
  <2>1. QED
    BY <1>1, <1>2
<1>4. QED
  BY <1>2, <1>3

(* A period in a transaction has no payslips. *)
LEMMA NoSlips ==
  ASSUME IInv, KindInv, SlipInv, NEW r \in Requests, pc[r] \in InTransaction
  PROVE  SlipsOf(Period(r)) = {}
<1>1. Period(r) \in Periods /\ status[Period(r)] = "reviewed"
  BY DEF IInv, LocalInv, RequestOK, LockInv
<1>2. \A q \in Requests : pc[q] \notin Purging
  BY Apart DEF Reopening
<1>3. QED
  BY <1>1, <1>2 DEF SlipInv

(* What a commit issues. *)
LEMMA CommitIssues ==
  ASSUME IInv, KindInv, SlipInv, InsertInv, NEW r \in Requests, FinalizeCommit(r),
         NEW p \in Periods, p = Period(r)
  PROVE  /\ status[p] = "reviewed" /\ SlipsOf(p) = {} /\ NextSlips(p) # {}
         /\ SlipsOf(p)' = NextSlips(p)
         /\ \A q \in Periods \ {p} : SlipsOf(q)' = SlipsOf(q)
         /\ DOMAIN payslips' = DOMAIN payslips \cup NextSlips(p)
<1>1. pc[r] = "commit" /\ todo[r] = NextSlips(p) /\ todo[r] # {}
  BY DEF FinalizeCommit, InsertInv
<1>2. status[p] = "reviewed" /\ SlipsOf(p) = {}
  BY <1>1, NoSlips DEF IInv, LockInv
<1>3. DOMAIN payslips' = DOMAIN payslips \cup NextSlips(p)
  BY <1>1 DEF FinalizeCommit
<1>4. \A q : {i \in NextSlips(p) : i.period = q} = IF q = p THEN NextSlips(p) ELSE {}
  BY DEF NextSlips
<1>5. \A q : SlipsOf(q)' = SlipsOf(q) \cup {i \in NextSlips(p) : i.period = q}
  BY <1>3 DEF SlipsOf
<1>6. SlipsOf(p)' = NextSlips(p) /\ \A q \in Periods \ {p} : SlipsOf(q)' = SlipsOf(q)
  BY <1>2, <1>4, <1>5
<1>7. QED
  BY <1>1, <1>2, <1>3, <1>6

(* Only a purge and a commit change which payslips there are. *)
LEMMA SameSlips ==
  ASSUME NEW r \in Requests, Own(r), ~FinalizeCommit(r), ~ReopenPurgePayslips(r)
  PROVE  DOMAIN payslips' = DOMAIN payslips /\ \A p : SlipsOf(p)' = SlipsOf(p)
<1>1. DOMAIN payslips' = DOMAIN payslips
  BY Writers DEF AttachPayslip
<1>2. QED
  BY <1>1 DEF SlipsOf

LEMMA PurgeSlips ==
  ASSUME NEW r \in Requests, ReopenPurgePayslips(r)
  PROVE  /\ DOMAIN payslips' \subseteq DOMAIN payslips
         /\ \A p : p # Period(r) => SlipsOf(p)' = SlipsOf(p)
         /\ \A i \in DOMAIN payslips' : payslips'[i] = payslips[i]
BY DEF ReopenPurgePayslips, SlipsOf

(* What is finalized after a step other than a commit was so before, with the *)
(* same results and payslips.                                                 *)
LEMMA FinalizedKept ==
  ASSUME IInv, StageInv, NEW r \in Requests, Own(r), ~FinalizeCommit(r),
         NEW p \in Periods, status'[p] = "finalized"
  PROVE  status[p] = "finalized" /\ net'[p] = net[p] /\ SlipsOf(p)' = SlipsOf(p)
<1>1. status[p] = "finalized"
  BY Writers DEF RunReview, ReopenDraft, IInv, TypeOK
<1>2. net'[p] = net[p]
  <2>1. CASE RunUpsert(r)
    BY <1>1, <2>1 DEF RunUpsert, StageInv, Running, IInv, TypeOK
  <2>2. CASE ReopenPurgeResults(r)
    BY <1>1, <2>2 DEF ReopenPurgeResults, StageInv, Purging, IInv, TypeOK
  <2>3. QED
    BY <2>1, <2>2, Writers
<1>3. SlipsOf(p)' = SlipsOf(p)
  <2>1. ASSUME ReopenPurgePayslips(r) PROVE p # Period(r)
    BY <1>1, <2>1 DEF ReopenPurgePayslips, StageInv, Purging
  <2>2. QED
    BY <2>1, PurgeSlips, SameSlips
<1>4. QED
  BY <1>1, <1>2, <1>3

(* A reopening whose statements succeed goes on to its end. *)
LEMMA PurgerGoesOn ==
  ASSUME Discipline, IInv, NEW r \in Requests, Own(r), pc[r] \in Purging
  PROVE  ReopenPurgeResults(r) \/ ReopenPurgePayslips(r)
<1>1. ~Faulty(r)
  BY DEF Discipline, IInv, LocalInv, RequestOK, KindOf, Purging, Faulty
<1>2. QED
  BY <1>1 DEF Own, Purging, RunStart, Arrive, RunList, RunCompute, RunUpsert, RunReview, FinalizeStart, FinalizeLock,
    FinalizeInsert, FinalizeCount, FinalizeCommit, FinalizePublish, FinalizeSave, ReopenStart, ReopenDraft,
    PayslipStart, RenderPayslip, AttachPayslip, Fail

LEMMA SlipStep ==
  ASSUME Discipline, IInv, KindInv, StageInv, SlipInv, InsertInv, NEW r \in Requests, Own(r)
  PROVE  SlipInv'
<1> SUFFICES ASSUME NEW p \in Periods, SlipsOf(p)' # {}, status'[p] # "finalized"
             PROVE  \E q \in Requests : pc'[q] \in Purging /\ req'[q].period = p
  BY DEF SlipInv
<1> USE DEF IInv
<1>1. ~FinalizeCommit(r)
  <2> SUFFICES ASSUME FinalizeCommit(r) PROVE FALSE
    OBVIOUS
  <2>1. Period(r) \in Periods /\ status' = [status EXCEPT ![Period(r)] = "finalized"]
    BY DEF FinalizeCommit, LocalInv, RequestOK
  <2>2. PICK c \in Periods : c = Period(r)
    BY <2>1
  <2>3. p # c
    BY <2>1, <2>2 DEF TypeOK
  <2>4. SlipsOf(p)' = SlipsOf(p)
    BY <2>2, <2>3, CommitIssues
  <2>5. pc[r] = "commit"
    BY DEF FinalizeCommit
  <2>6. status[p] # "finalized"
    BY <2>1, <2>2, <2>3 DEF TypeOK
  <2>7. QED
    BY <2>4, <2>5, <2>6, Apart DEF SlipInv, Reopening
<1>2. SlipsOf(p) # {}
  BY <1>1, PurgeSlips, SameSlips DEF ReopenPurgePayslips, SlipsOf
<1>3. CASE status[p] = "finalized"
  <2>1. RunReview(r) \/ ReopenDraft(r)
    BY <1>1, <1>3, Writers
  <2>2. ~RunReview(r)
    BY <1>3 DEF RunReview, TypeOK, StageInv, Running
  <2>3. ReopenDraft(r) /\ Period(r) = p
    BY <1>3, <2>1, <2>2 DEF ReopenDraft, TypeOK
  <2>4. pc'[r] \in Purging /\ req'[r].period = p
    BY <2>3 DEF ReopenDraft, TypeOK, Purging
  <2>5. QED
    BY <2>4
<1>4. CASE status[p] # "finalized"
  <2>1. PICK q \in Requests : pc[q] \in Purging /\ Period(q) = p
    BY <1>2, <1>4 DEF SlipInv
  <2>2. CASE q # r
    BY <2>1, <2>2, OthersStay
  <2>3. CASE q = r
    <3>1. ~ReopenPurgePayslips(r)
      BY <2>1, <2>3 DEF ReopenPurgePayslips, SlipsOf, Discipline, Faulty, LocalInv, RequestOK, KindOf, Purging
    <3>2. ReopenPurgeResults(r)
      BY <2>1, <2>3, <3>1, PurgerGoesOn
    <3>3. QED
      BY <2>1, <2>3, <3>2 DEF ReopenPurgeResults, TypeOK, Purging
  <2>4. QED
    BY <2>2, <2>3
<1>5. QED
  BY <1>3, <1>4

(* Where the slips come from that a request is about to print. *)
LEMMA InHand ==
  ASSUME IInv, NEW r \in Requests, Own(r)
  PROVE  /\ pc'[r] \in {"render", "attach"} =>
              todo'[r] \subseteq DOMAIN payslips \/ (pc[r] \in {"render", "attach"} /\ todo'[r] \subseteq todo[r])
                \/ todo'[r] = {}
         /\ pc'[r] = "attach" => pc[r] = "render" /\ cur'[r] \in todo[r] /\ val'[r] = net[cur'[r].period][cur'[r].emp]
<1> USE DEF IInv, TypeOK
<1>1. CASE FinalizePublish(r)
  BY <1>1 DEF FinalizePublish, SlipsOf, LocalInv, HoldingOK
<1>2. CASE \E i \in DOMAIN payslips : PayslipStart(r, i)
  BY <1>2 DEF PayslipStart, Arrive
<1>3. CASE \E i \in todo[r] : RenderPayslip(r, i)
  <2>1. PICK i \in todo[r] : RenderPayslip(r, i)
    BY <1>3
  <2>2. pc[r] = "render" /\ todo' = [todo EXCEPT ![r] = @ \ {i}]
    BY <2>1 DEF RenderPayslip, Take
  <2>3. pc'[r] = "attach" => cur'[r] = i /\ val'[r] = net[i.period][i.emp]
    BY <2>1 DEF RenderPayslip, Take
  <2>4. QED
    BY <2>2, <2>3
<1>4. CASE AttachPayslip(r)
  BY <1>4 DEF AttachPayslip
<1>5. CASE \/ \E p \in Periods : RunStart(r, p) \/ ReopenStart(r, p) \/ \E k \in Keys : FinalizeStart(r, p, k)
           \/ RunList(r) \/ RunUpsert(r) \/ RunReview(r) \/ \E e \in Employees : RunCompute(r, e)
           \/ Fail(r)
  BY <1>5 DEF RunStart, ReopenStart, FinalizeStart, Arrive, RunList, RunUpsert, RunReview, RunCompute, Fail
<1>6. CASE \/ FinalizeLock(r) \/ FinalizeInsert(r) \/ FinalizeCount(r) \/ FinalizeCommit(r) \/ FinalizeSave(r)
           \/ ReopenDraft(r) \/ ReopenPurgeResults(r) \/ ReopenPurgePayslips(r)
  BY <1>6 DEF FinalizeLock, FinalizeInsert, FinalizeCount, FinalizeCommit, FinalizeSave, ReopenDraft,
    ReopenPurgeResults, ReopenPurgePayslips
<1>7. QED
  BY <1>1, <1>2, <1>3, <1>4, <1>5, <1>6 DEF Own

(* Finalizations are only ever added. *)
LEMMA RoundsGrow ==
  ASSUME IInv, NEW r \in Requests, Own(r)
  PROVE  \A p \in Periods : finalizations'[p] \in Nat /\ finalizations'[p] >= finalizations[p]
<1>1. CASE FinalizeCommit(r)
  BY <1>1 DEF FinalizeCommit, IInv, TypeOK
<1>2. CASE finalizations' = finalizations
  BY <1>2 DEF IInv, TypeOK
<1>3. QED
  BY <1>1, <1>2, Writers

LEMMA RoundStep ==
  ASSUME IInv, KindInv, SlipInv, RoundInv, InsertInv, NEW r \in Requests, Own(r)
  PROVE  RoundInv'
<1> USE DEF IInv
<1>1. \A p \in Periods : finalizations[p] \in Nat /\ finalizations'[p] \in Nat /\ finalizations'[p] >= finalizations[p]
  BY RoundsGrow DEF TypeOK
<1>2. ASSUME NEW i \in SlipIds, i.round <= finalizations[i.period]
      PROVE  i.round <= finalizations'[i.period]
  <2>1. i.period \in Periods /\ i.round \in Nat
    BY DEF SlipIds
  <2>2. QED
    BY <1>1, <1>2, <2>1
<1>3. ASSUME NEW i \in DOMAIN payslips' PROVE i.round <= finalizations'[i.period]
  <2>1. CASE FinalizeCommit(r)
    <3>1. PICK p \in Periods : p = Period(r) /\ finalizations' = [finalizations EXCEPT ![p] = @ + 1]
      BY <2>1 DEF FinalizeCommit, LocalInv, RequestOK
    <3>2. i \in DOMAIN payslips \/ i \in NextSlips(p)
      BY <2>1, <3>1, CommitIssues
    <3>3. CASE i \in DOMAIN payslips
      BY <1>2, <3>3 DEF RoundInv, TypeOK
    <3>4. CASE i \in NextSlips(p)
      <4>1. i.round = finalizations[p] + 1 /\ i.period = p
        BY <3>4 DEF NextSlips
      <4>2. finalizations'[p] = finalizations[p] + 1
        BY <3>1 DEF TypeOK
      <4>3. QED
        BY <1>1, <4>1, <4>2
    <3>5. QED
      BY <3>2, <3>3, <3>4
  <2>2. CASE ~FinalizeCommit(r)
    <3>1. i \in DOMAIN payslips /\ i \in SlipIds
      BY <2>2, PurgeSlips, SameSlips DEF TypeOK
    <3>2. QED
      BY <1>2, <3>1 DEF RoundInv
  <2>3. QED
    BY <2>1, <2>2
<1>4. ASSUME NEW q \in Requests
      PROVE  /\ pc'[q] \in {"render", "attach"} => \A i \in todo'[q] : i.round <= finalizations'[i.period]
             /\ pc'[q] = "attach" => cur'[q] \in SlipIds /\ cur'[q].round <= finalizations'[cur'[q].period]
  <2>1. pc[q] \in {"render", "attach"} => todo[q] \subseteq SlipIds
    BY DEF LocalInv, HoldingOK
  <2>2. CASE q # r
    BY <1>2, <2>1, <2>2, OthersStay DEF RoundInv
  <2>3. CASE q = r
    <3>1. pc'[r] \in {"render", "attach"} => \A i \in todo'[r] : i \in SlipIds /\ i.round <= finalizations[i.period]
      BY <2>1, <2>3, InHand DEF RoundInv, TypeOK
    <3>2. pc'[r] = "attach" => cur'[r] \in SlipIds /\ cur'[r].round <= finalizations[cur'[r].period]
      BY <2>1, <2>3, InHand DEF RoundInv
    <3>3. QED
      BY <1>2, <2>3, <3>1, <3>2
  <2>4. QED
    BY <2>2, <2>3
<1>5. QED
  BY <1>3, <1>4 DEF RoundInv

LEMMA InsertStep ==
  ASSUME IInv, KindInv, SlipInv, InsertInv, NEW r \in Requests, Own(r)
  PROVE  InsertInv'
<1> USE DEF IInv
<1>1. ASSUME NEW q \in Requests \ {r}, pc'[q] \in {"count", "commit"}
      PROVE  todo'[q] = NextSlips(Period(q))' /\ todo'[q] = todo[q] /\ pc[q] = pc'[q]
  <2>1. pc'[q] = pc[q] /\ req'[q] = req[q] /\ todo'[q] = todo[q]
    BY OthersStay
  <2>2. PICK p \in Periods : p = Period(q)
    BY <1>1, <2>1 DEF LocalInv, RequestOK
  <2>3. net' = net
    BY <1>1, <2>1, Apart, Writers DEF RunUpsert, ReopenPurgeResults, Running, Reopening, Purging
  <2>4. finalizations'[p] = finalizations[p]
    <3>1. ASSUME FinalizeCommit(r) PROVE p # Period(r) /\ Period(r) \in Periods
      <4>1. pc[r] = "commit" /\ Period(r) \in Periods
        BY <3>1 DEF FinalizeCommit, LocalInv, RequestOK
      <4>2. lock[Period(r)] = r /\ lock[p] = q
        BY <1>1, <2>1, <2>2, <4>1 DEF LockInv
      <4>3. QED
        BY <4>1, <4>2
    <3>2. FinalizeCommit(r) => finalizations' = [finalizations EXCEPT ![Period(r)] = @ + 1]
      BY DEF FinalizeCommit
    <3>3. QED
      BY <3>1, <3>2, Writers DEF TypeOK
  <2>5. NextSlips(p)' = NextSlips(p)
    BY <2>3, <2>4 DEF NextSlips, PaidIn
  <2>6. todo[q] = NextSlips(p)
    BY <1>1, <2>1, <2>2 DEF InsertInv
  <2>7. Period(q)' = p
    BY <2>1, <2>2
  <2>8. NextSlips(Period(q))' = NextSlips(p)'
    BY <2>7 DEF NextSlips, PaidIn
  <2>9. QED
    BY <2>1, <2>5, <2>6, <2>8
<1>2. ASSUME FinalizeInsert(r) \/ FinalizeCount(r), pc'[r] \in {"count", "commit"}
      PROVE  todo'[r] = NextSlips(Period(r))' /\ (pc'[r] = "commit" => todo'[r] # {})
  <2>1. CASE FinalizeInsert(r)
    BY <2>1 DEF FinalizeInsert, NextSlips, PaidIn, TypeOK, db
  <2>2. CASE FinalizeCount(r)
    <3>1. pc[r] = "count" /\ todo' = todo /\ req' = req /\ net' = net /\ finalizations' = finalizations
      BY <2>2 DEF FinalizeCount
    <3>2. todo[r] = NextSlips(Period(r)) /\ SlipsOf(Period(r)) = {}
      BY <3>1, NoSlips DEF InsertInv
    <3>3. pc'[r] = "commit" => todo[r] # {}
      BY <2>2, <3>2 DEF FinalizeCount, TypeOK
    <3>4. QED
      BY <3>1, <3>2, <3>3 DEF NextSlips, PaidIn
  <2>3. QED
    BY <1>2, <2>1, <2>2
<1>3. QED
  BY <1>1, <1>2, Enters DEF InsertInv

LEMMA AttachStep ==
  ASSUME IInv, KindInv, StageInv, SlipInv, RoundInv, InsertInv, AttachInv, NEW r \in Requests, Own(r)
  PROVE  AttachInv'
<1> USE DEF IInv
<1>1. ASSUME pc'[r] = "attach" PROVE val'[r] = net'[cur'[r].period][cur'[r].emp]
  <2>1. pc[r] = "render" /\ val'[r] = net[cur'[r].period][cur'[r].emp]
    BY <1>1, InHand
  <2>2. net' = net
    BY <2>1, Writers DEF RunUpsert, ReopenPurgeResults
  <2>3. QED
    BY <2>1, <2>2
<1>2. ASSUME NEW q \in Requests \ {r}, pc'[q] = "attach", cur'[q] \in DOMAIN payslips',
             status'[cur'[q].period] = "finalized"
      PROVE  val'[q] = net'[cur'[q].period][cur'[q].emp]
  <2>1. pc[q] = "attach" /\ cur'[q] = cur[q] /\ val'[q] = val[q]
    BY <1>2, OthersStay
  <2>2. cur[q] \in SlipIds /\ cur[q].round <= finalizations[cur[q].period]
    BY <2>1 DEF RoundInv
  <2>3. PICK p \in Periods : p = cur[q].period
    BY <2>2 DEF SlipIds
  <2>4. CASE FinalizeCommit(r)
    <3>1. PICK c \in Periods : c = Period(r)
      BY <2>4 DEF FinalizeCommit, LocalInv, RequestOK
    <3>2. cur[q] \notin NextSlips(c)
      <4>1. finalizations[c] \in Nat
        BY DEF TypeOK
      <4>2. QED
        BY <2>2, <4>1 DEF NextSlips
    <3>3. cur[q] \in DOMAIN payslips
      BY <1>2, <2>1, <2>4, <3>1, <3>2, CommitIssues
    <3>4. p # c
      <4>1. SlipsOf(c) = {}
        BY <2>4, <3>1, CommitIssues
      <4>2. QED
        BY <2>3, <3>3, <4>1 DEF SlipsOf
    <3>5. net' = net /\ status' = [status EXCEPT ![c] = "finalized"]
      BY <2>4, <3>1 DEF FinalizeCommit
    <3>6. status[p] = "finalized"
      BY <1>2, <2>1, <2>3, <3>4, <3>5 DEF TypeOK
    <3>7. QED
      BY <2>1, <2>3, <3>3, <3>5, <3>6 DEF AttachInv
  <2>5. CASE ~FinalizeCommit(r)
    <3>1. status[p] = "finalized" /\ net'[p] = net[p]
      BY <1>2, <2>1, <2>3, <2>5, FinalizedKept
    <3>2. cur[q] \in DOMAIN payslips
      BY <1>2, <2>1, <2>5, PurgeSlips, SameSlips
    <3>3. QED
      BY <2>1, <2>3, <3>1, <3>2 DEF AttachInv
  <2>6. QED
    BY <2>4, <2>5
<1>3. QED
  BY <1>1, <1>2 DEF AttachInv

LEMMA OneEachStep ==
  ASSUME IInv, KindInv, StageInv, SlipInv, InsertInv, OnePayslipEach, NEW r \in Requests, Own(r)
  PROVE  OnePayslipEach'
<1> SUFFICES ASSUME NEW p \in Periods, status'[p] = "finalized"
             PROVE  /\ {i.emp : i \in SlipsOf(p)'} = {e \in Employees : net'[p][e] # None}
                    /\ \A i, j \in SlipsOf(p)' : i.emp = j.emp => i = j
  BY DEF OnePayslipEach
<1>1. CASE FinalizeCommit(r) /\ p = Period(r)
  <2>1. SlipsOf(p)' = NextSlips(p) /\ net' = net
    BY <1>1, CommitIssues DEF FinalizeCommit
  <2>2. QED
    BY <2>1, NextSlipsOneEach DEF PaidIn
<1>2. CASE FinalizeCommit(r) /\ p # Period(r)
  <2>1. PICK c \in Periods : c = Period(r)
    BY <1>2 DEF FinalizeCommit, IInv, LocalInv, RequestOK
  <2>2. SlipsOf(p)' = SlipsOf(p)
    BY <1>2, <2>1, CommitIssues
  <2>3. net' = net /\ status' = [status EXCEPT ![c] = "finalized"]
    BY <1>2, <2>1 DEF FinalizeCommit
  <2>4. status[p] = "finalized"
    BY <1>2, <2>1, <2>3 DEF IInv, TypeOK
  <2>5. QED
    BY <2>2, <2>3, <2>4 DEF OnePayslipEach
<1>3. CASE ~FinalizeCommit(r)
  BY <1>3, FinalizedKept DEF OnePayslipEach
<1>4. QED
  BY <1>1, <1>2, <1>3

LEMMA FileStep ==
  ASSUME IInv, KindInv, StageInv, SlipInv, InsertInv, AttachInv, FileShowsResult, NEW r \in Requests, Own(r)
  PROVE  FileShowsResult'
<1> SUFFICES ASSUME NEW p \in Periods, status'[p] = "finalized", NEW i \in SlipsOf(p)'
             PROVE  payslips'[i] \in {None, net'[p][i.emp]}
  BY DEF FileShowsResult
<1>1. CASE FinalizeCommit(r)
  <2>1. PICK c \in Periods : c = Period(r)
    BY <1>1 DEF FinalizeCommit, IInv, LocalInv, RequestOK
  <2>2. i \in DOMAIN payslips' /\ i.period = p
    BY DEF SlipsOf
  <2>3. payslips'[i] = IF i \in DOMAIN payslips THEN payslips[i] ELSE None
    BY <1>1, <2>2 DEF FinalizeCommit
  <2>4. CASE p = c
    <3>1. SlipsOf(p) = {}
      BY <1>1, <2>1, <2>4, CommitIssues
    <3>2. QED
      BY <2>2, <2>3, <3>1 DEF SlipsOf
  <2>5. CASE p # c
    <3>1. net' = net /\ status[p] = "finalized"
      BY <1>1, <2>1, <2>5 DEF FinalizeCommit, IInv, TypeOK
    <3>2. QED
      BY <2>2, <2>3, <3>1 DEF FileShowsResult, SlipsOf
  <2>6. QED
    BY <2>4, <2>5
<1>2. CASE ~FinalizeCommit(r)
  <2>1. status[p] = "finalized" /\ net'[p] = net[p] /\ i \in SlipsOf(p)
    BY <1>2, FinalizedKept
  <2>2. payslips[i] \in {None, net[p][i.emp]} /\ i \in DOMAIN payslips /\ i.period = p
    BY <2>1 DEF FileShowsResult, SlipsOf
  <2>3. CASE AttachPayslip(r)
    <3>1. payslips'[i] = payslips[i] \/ (i = cur[r] /\ pc[r] = "attach" /\ payslips'[i] = val[r])
      BY <2>2, <2>3 DEF AttachPayslip
    <3>2. i = cur[r] /\ pc[r] = "attach" => val[r] = net[p][i.emp]
      BY <2>1, <2>2 DEF AttachInv
    <3>3. QED
      BY <2>1, <2>2, <3>1, <3>2
  <2>4. CASE ~AttachPayslip(r)
    <3>1. i \in DOMAIN payslips'
      BY DEF SlipsOf
    <3>2. payslips'[i] = payslips[i]
      BY <1>2, <2>4, <3>1, Writers, PurgeSlips
    <3>3. QED
      BY <2>1, <2>2, <3>2
  <2>5. QED
    BY <2>3, <2>4
<1>3. QED
  BY <1>1, <1>2

(* The invariant of the contract is inductive under the discipline. *)
LEMMA CInvStep ==
  ASSUME Discipline, IInv, CInv, [Next]_vars
  PROVE  CInv'
<1> USE DEF CInv
<1>1. ASSUME NEW r \in Requests, Own(r) PROVE CInv'
  BY <1>1, KindStep, StageStep, SlipStep, RoundStep, InsertStep, AttachStep, OneEachStep, FileStep
<1>2. CASE UNCHANGED <<status, finalizations, net, payslips, locals>>
  BY <1>2 DEF locals, KindInv, StageInv, SlipInv, RoundInv, InsertInv, AttachInv, OnePayslipEach, FileShowsResult,
    SlipsOf, InFlight, NextSlips, PaidIn
<1>3. QED
  BY <1>1, <1>2, StepIsOwn

(* OnePayslipEach, where requests are of one kind at a time (those for payslip *)
(* files excepted) and no reopening stops half way: a finalized period has     *)
(* exactly one payslip for each employee with a result.                        *)
THEOREM PaidOnce == ASSUME Discipline PROVE Spec => []OnePayslipEach
<1>1. CInv => OnePayslipEach
  BY DEF CInv
<1>2. Init => CInv
  BY InitCInv
<1>3. IInv /\ CInv /\ [Next]_vars => CInv'
  BY CInvStep
<1>4. QED
  BY <1>1, <1>2, <1>3, Invariance, PTL DEF Spec

(* FileShowsResult, under the same conditions: a file rendered before a         *)
(* reopening never ends up on a later payslip.                                 *)
THEOREM FilesTell == ASSUME Discipline PROVE Spec => []FileShowsResult
<1>1. CInv => FileShowsResult
  BY DEF CInv
<1>2. Init => CInv
  BY InitCInv
<1>3. IInv /\ CInv /\ [Next]_vars => CInv'
  BY CInvStep
<1>4. QED
  BY <1>1, <1>2, <1>3, Invariance, PTL DEF Spec

-----------------------------------------------------------------------------
(* Refinement: requests of one kind at a time implement PayrollContract *)

Issued == [p \in Periods |-> SlipsOf(p)]

LEMMA ContractStutter ==
  ASSUME status' = status, net' = net, \A p \in Periods : SlipsOf(p)' = SlipsOf(p)
  PROVE  UNCHANGED Contract!vars
<1>1. Issued' = Issued
  BY DEF Issued
<1>2. QED
  BY <1>1 DEF Issued, Contract!vars

(* A result is written while its period may still be computed. *)
LEMMA UpsertComputes ==
  ASSUME IInv, StageInv, NEW r \in Requests, Own(r), RunUpsert(r)
  PROVE  Contract!Next
<1>1. PICK p \in Periods : p = Period(r)
  BY DEF RunUpsert, IInv, LocalInv, RequestOK
<1>2. PICK e \in Employees : e = cur[r]
  BY DEF RunUpsert, IInv, LocalInv, HoldingOK
<1>3. status[p] # "finalized" /\ val[r] \in Amounts
  BY <1>1 DEF RunUpsert, IInv, LocalInv, HoldingOK, StageInv, Running
<1>4. net' = [net EXCEPT ![p][e] = val[r]] /\ status' = status
  BY <1>1, <1>2 DEF RunUpsert
<1>5. Issued' = Issued
  BY SameSlips DEF RunUpsert, FinalizeCommit, ReopenPurgePayslips, Issued
<1>6. Contract!Compute(p, e)
  BY <1>3, <1>4, <1>5 DEF Contract!Compute, Issued
<1>7. QED
  BY <1>6 DEF Contract!Next

LEMMA ReviewReviews ==
  ASSUME IInv, StageInv, NEW r \in Requests, Own(r), RunReview(r)
  PROVE  Contract!Next
<1>1. PICK p \in Periods : p = Period(r)
  BY DEF RunReview, IInv, LocalInv, RequestOK
<1>2. status[p] # "finalized"
  BY <1>1 DEF RunReview, StageInv, Running
<1>3. status' = [status EXCEPT ![p] = "reviewed"] /\ net' = net
  BY <1>1 DEF RunReview
<1>4. Issued' = Issued
  BY SameSlips DEF RunReview, FinalizeCommit, ReopenPurgePayslips, Issued
<1>5. Contract!Review(p)
  BY <1>2, <1>3, <1>4 DEF Contract!Review, Issued
<1>6. QED
  BY <1>5 DEF Contract!Next

LEMMA CommitFinalizes ==
  ASSUME IInv, KindInv, SlipInv, InsertInv, NEW r \in Requests, FinalizeCommit(r)
  PROVE  Contract!Next
<1>1. PICK p \in Periods : p = Period(r)
  BY DEF FinalizeCommit, IInv, LocalInv, RequestOK
<1>2. /\ status[p] = "reviewed" /\ NextSlips(p) # {} /\ SlipsOf(p)' = NextSlips(p)
      /\ \A q \in Periods \ {p} : SlipsOf(q)' = SlipsOf(q)
  BY <1>1, CommitIssues
<1>3. status' = [status EXCEPT ![p] = "finalized"] /\ net' = net
  BY <1>1 DEF FinalizeCommit
<1>4. Issued' = [Issued EXCEPT ![p] = Issued'[p]]
  BY <1>2 DEF Issued
<1>5. Contract!Paid(p) = PaidIn(p) /\ PaidIn(p) # {}
  BY <1>2 DEF Contract!Paid, PaidIn, NextSlips
<1>6. Issued'[p] = NextSlips(p)
  BY <1>2 DEF Issued
<1>7. Contract!OneEach(Issued'[p], Contract!Paid(p))
  BY <1>5, <1>6, NextSlipsOneEach DEF Contract!OneEach
<1>8. Contract!Finalize(p)
  BY <1>2, <1>3, <1>4, <1>5, <1>7 DEF Contract!Finalize, Issued
<1>9. QED
  BY <1>8 DEF Contract!Next

LEMMA ReopenReopens ==
  ASSUME IInv, StageInv, NEW r \in Requests, Own(r), ReopenDraft(r)
  PROVE  Contract!Next \/ UNCHANGED Contract!vars
<1>1. PICK p \in Periods : p = Period(r)
  BY DEF ReopenDraft, IInv, LocalInv, RequestOK
<1>2. status[p] \in {"finalized", "draft"}
  BY <1>1 DEF ReopenDraft, StageInv
<1>3. status' = [status EXCEPT ![p] = "draft"] /\ net' = net
  BY <1>1 DEF ReopenDraft
<1>4. \A q \in Periods : SlipsOf(q)' = SlipsOf(q)
  BY SameSlips DEF ReopenDraft, FinalizeCommit, ReopenPurgePayslips
<1>5. CASE status[p] = "finalized"
  <2>1. Issued' = Issued
    BY <1>4 DEF Issued
  <2>2. Contract!Reopen(p)
    BY <1>3, <1>5, <2>1 DEF Contract!Reopen, Issued
  <2>3. QED
    BY <2>2 DEF Contract!Next
<1>6. CASE status[p] = "draft"
  <2>1. status' = status
    BY <1>3, <1>6 DEF IInv, TypeOK
  <2>2. QED
    BY <1>3, <1>4, <2>1, ContractStutter
<1>7. QED
  BY <1>2, <1>5, <1>6

LEMMA PurgeDiscards ==
  ASSUME Discipline, IInv, StageInv, NEW r \in Requests, Own(r), ReopenPurgeResults(r) \/ ReopenPurgePayslips(r)
  PROVE  Contract!Next
<1>1. PICK p \in Periods : p = Period(r)
  BY DEF ReopenPurgeResults, ReopenPurgePayslips, IInv, LocalInv, RequestOK
<1>2. status[p] = "draft" /\ ~Faulty(r)
  BY <1>1 DEF ReopenPurgeResults, ReopenPurgePayslips, StageInv, Purging, Discipline, Faulty,
    IInv, LocalInv, RequestOK, KindOf
<1>3. CASE ReopenPurgeResults(r)
  <2>1. net' = [net EXCEPT ![p] = [e \in Employees |-> None]] /\ status' = status
    BY <1>1, <1>2, <1>3 DEF ReopenPurgeResults
  <2>2. Issued' = Issued
    BY <1>3, SameSlips DEF ReopenPurgeResults, FinalizeCommit, ReopenPurgePayslips, Issued
  <2>3. Contract!DiscardResults(p)
    BY <1>2, <2>1, <2>2 DEF Contract!DiscardResults, Issued
  <2>4. QED
    BY <2>3 DEF Contract!Next
<1>4. CASE ReopenPurgePayslips(r)
  <2>1. net' = net /\ status' = status /\ DOMAIN payslips' = DOMAIN payslips \ SlipsOf(p)
    BY <1>1, <1>2, <1>4 DEF ReopenPurgePayslips
  <2>2. SlipsOf(p)' = {}
    BY <2>1 DEF SlipsOf
  <2>3. \A q \in Periods \ {p} : SlipsOf(q)' = SlipsOf(q)
    BY <1>1, <1>4, PurgeSlips
  <2>4. Issued' = [Issued EXCEPT ![p] = {}]
    BY <2>2, <2>3 DEF Issued
  <2>5. Contract!DiscardPayslips(p)
    BY <1>2, <2>1, <2>4 DEF Contract!DiscardPayslips, Issued
  <2>6. QED
    BY <2>5 DEF Contract!Next
<1>5. QED
  BY <1>3, <1>4

(* PayrollPeriod implements PayrollContract where requests are of one kind at a *)
(* time (those for payslip files excepted) and no reopening stops half way: the *)
(* statements of a finalization add up to the one atomic step it promises.      *)
THEOREM ImplementsContract == ASSUME Discipline PROVE Spec => ContractSpec
<1>1. Init => Contract!Init
  BY DEF Init, Contract!Init, SlipsOf
<1>2. IInv /\ CInv /\ [Next]_vars => [Contract!Next]_(Contract!vars)
  <2> SUFFICES ASSUME IInv, CInv, [Next]_vars PROVE Contract!Next \/ UNCHANGED Contract!vars
    OBVIOUS
  <2> USE DEF CInv
  <2>1. ASSUME NEW r \in Requests, Own(r) PROVE Contract!Next \/ UNCHANGED Contract!vars
    <3>1. CASE \/ RunUpsert(r) \/ RunReview(r) \/ FinalizeCommit(r) \/ ReopenDraft(r)
               \/ ReopenPurgeResults(r) \/ ReopenPurgePayslips(r)
      BY <2>1, <3>1, UpsertComputes, ReviewReviews, CommitFinalizes, ReopenReopens, PurgeDiscards
    <3>2. CASE ~(\/ RunUpsert(r) \/ RunReview(r) \/ FinalizeCommit(r) \/ ReopenDraft(r)
                 \/ ReopenPurgeResults(r) \/ ReopenPurgePayslips(r))
      BY <2>1, <3>2, Writers, SameSlips, ContractStutter
    <3>3. QED
      BY <3>1, <3>2
  <2>2. CASE UNCHANGED <<status, finalizations, net, payslips, locals>>
    BY <2>2, ContractStutter DEF SlipsOf
  <2>3. QED
    BY <2>1, <2>2, StepIsOwn
<1>3. Init => CInv
  BY InitCInv
<1>4. IInv /\ CInv /\ [Next]_vars => CInv'
  BY CInvStep
<1>5. QED
  BY <1>1, <1>2, <1>3, <1>4, Invariance, PTL DEF Spec, ContractSpec, Contract!Spec
=============================================================================
