-------------------------- MODULE PerformanceProofs --------------------------
(* Proofs about Performance for any users, employees, requests and permissions.   *)
EXTENDS Performance, TLAPS

-----------------------------------------------------------------------------
(* The inductive invariant *)

Columns == {"title", "due", "progress"}
Answers == {"self", "manager", "hr"}
GoalType == [employee : Staff, manager : Staff, title : Requests, progress : Requests, dated : BOOLEAN, by : Actors]
PIPType == [employee : Staff, manager : Staff \cup {None}, status : {"active", "closed"}, by : Actors]
CycleType == [status : {"draft", "active", "closed"}, hr : BOOLEAN]
TaskType == [manager : Staff, status : Statuses]

GoalKnows == [thing : Requests, row : GoalType, takes : SUBSET Columns]
SelectKnows == [thing : Ids, selection : SUBSET Staff]
TaskKnows == [thing : Ids, left : (SUBSET Staff) \ {{}}, manager : [Staff -> Staff \cup {None}]]
CloseKnows == [thing : Ids]
AnswerKnows == [thing : Ids, task : Ids \X Staff, role : Answers, context : [manager : Staff, hr : BOOLEAN]]

(* A row has been inserted by a request that has begun, and by one who might. *)
AuthorOK(a, e, m) ==
  /\ RoleOf[a] = "Employee" => Self(a) = e
  /\ RoleOf[a] = "Manager" => Self(a) # None /\ Self(a) \in {e, m}
GoalsOK ==
  /\ DOMAIN asked = DOMAIN goals
  /\ \A g \in DOMAIN goals :
       /\ g \in Requests /\ pc[g] # "new"
       /\ goals[g] \in GoalType /\ AuthorOK(goals[g].by, goals[g].employee, goals[g].manager)
       /\ asked[g] \in [title : Requests, progress : Requests]
OthersOK ==
  /\ \A p \in DOMAIN pips : pips[p] \in PIPType /\ RoleOf[pips[p].by] # "Employee"
                            /\ AuthorOK(pips[p].by, pips[p].employee, pips[p].manager)
  /\ \A f \in feedback : f.to \in Staff /\ f.from \in Actors
                         /\ (RoleOf[f.from] = "Employee" => Self(f.from) = f.to)
                         /\ (RoleOf[f.from] = "Manager" => Self(f.from) # None)
  /\ \A x \in checkins : x.employee \in Staff /\ x.manager \in Staff \cup {None}
CyclesOK ==
  /\ DOMAIN selected = DOMAIN cycles /\ DOMAIN cycles \subseteq Ids
  /\ \A c \in DOMAIN cycles : /\ cycles[c] \in CycleType /\ selected[c] \subseteq Staff
                              /\ c # Past => pc[c] # "new"
  /\ \A t \in DOMAIN tasks : t \in (DOMAIN cycles) \X Staff /\ tasks[t] \in TaskType
  /\ \A x \in responses : x.task \in DOMAIN tasks /\ x.role \in Answers

KnowOK(r) ==
  /\ pc[r] \in {"new", "done"} => req[r] = NoReq
  /\ pc[r] = "goal" => /\ req[r] \in GoalKnows /\ req[r].thing \in DOMAIN goals
                       /\ req[r].row.employee = goals[req[r].thing].employee
                       /\ req[r].row.manager = goals[req[r].thing].manager
                       /\ req[r].row.by = goals[req[r].thing].by
  /\ pc[r] = "select" => req[r] \in SelectKnows /\ req[r].thing = r
  /\ pc[r] = "task" => req[r] \in TaskKnows /\ \A e \in req[r].left : req[r].manager[e] # None
  /\ pc[r] \in {"close", "complete"} => req[r] \in CloseKnows
  /\ pc[r] = "complete" => cycles[req[r].thing].status = "closed"
  /\ pc[r] \in {"respond", "advance"} =>
       /\ req[r] \in AnswerKnows /\ req[r].task \in DOMAIN tasks /\ req[r].task[1] = req[r].thing
       /\ req[r].context.hr = cycles[req[r].thing].hr
  /\ pc[r] \notin {"new", "done", "goal"} => req[r].thing \in DOMAIN cycles

TInv ==
  /\ manager \in [Staff -> Staff \cup {None}]
  /\ GoalsOK /\ OthersOK /\ CyclesOK
  /\ pc \in [Requests -> Labels] /\ DOMAIN req = Requests /\ \A r \in Requests : KnowOK(r)

(* A thing that is not disturbed has one request at a time. *)
Busy(r) == pc[r] \notin {"new", "done"}
LoneInv ==
  \A q \in Requests, r \in Requests :
    Busy(q) /\ Busy(r) /\ req[q].thing = req[r].thing /\ req[r].thing \notin disturbed => q = r

(* An answer has come in turn, or comes in turn. *)
Answered(t, ro) == \E x \in responses : x.task = t /\ x.role = ro
Before(t, ro) == (ro = "manager" => Answered(t, "self")) /\ (ro = "hr" => Answered(t, "manager"))
StageOK(t) ==
  /\ \A ro \in Answers : Answered(t, ro) => Before(t, ro)
  /\ tasks[t].status = "manager_pending" => Answered(t, "self")
  /\ tasks[t].status = "hr_pending" => Answered(t, "manager")
  /\ tasks[t].status = "completed" =>
       \/ cycles[t[1]].status = "closed"
       \/ Answered(t, "self") /\ Answered(t, "manager") /\ (cycles[t[1]].hr => Answered(t, "hr"))
AnswerOK(r) ==
  pc[r] \in {"respond", "advance"} /\ req[r].task \notin claimed =>
    /\ Before(req[r].task, req[r].role)
    /\ pc[r] = "advance" => Answered(req[r].task, req[r].role)
StageInv ==
  /\ \A t \in DOMAIN tasks \ claimed : StageOK(t)
  /\ \A r \in Requests : AnswerOK(r)

(* What an undisturbed goal has is what was asked for, or will be. *)
GoalOK(g) == goals[g].title = asked[g].title /\ goals[g].progress = asked[g].progress
MergeOK(r) ==
  pc[r] = "goal" /\ req[r].thing \notin disturbed =>
    LET g == req[r].thing
    IN /\ req[r].row.title = (IF "title" \in req[r].takes THEN r ELSE goals[g].title)
       /\ req[r].row.progress = (IF "progress" \in req[r].takes THEN r ELSE goals[g].progress)
GoalInv == (\A g \in DOMAIN goals \ disturbed : GoalOK(g)) /\ \A r \in Requests : MergeOK(r)

(* An undisturbed cycle gets its tasks, and is closed with all of them. *)
Tasked(c) == {e \in Staff : <<c, e>> \in DOMAIN tasks}
At(c, labels) == \E r \in Requests : pc[r] \in labels /\ req[r].thing = c
CycleOK(c) ==
  /\ At(c, {"select", "task"}) => cycles[c].status # "closed"
  /\ ~At(c, {"select", "task"}) => Tasked(c) \in {{}, selected[c]}
  /\ \A r \in Requests : pc[r] = "select" /\ req[r].thing = c => Tasked(c) = {}
  /\ \A r \in Requests : pc[r] = "task" /\ req[r].thing = c => Tasked(c) \cup req[r].left = selected[c]
  /\ cycles[c].status = "closed" =>
       /\ ~At(c, {"complete"}) => \A t \in DOMAIN tasks \ claimed : t[1] = c => tasks[t].status = "completed"
       /\ \A r \in Requests : pc[r] \in {"respond", "advance"} /\ req[r].thing = c => req[r].task \in claimed
CycleInv == \A c \in DOMAIN cycles \ disturbed : CycleOK(c)

(* TInv without what requests know, as most of its lemmas use it. *)
Parts == GoalsOK /\ OthersOK /\ CyclesOK
LEMMA TParts == TInv => Parts /\ pc \in [Requests -> Labels] /\ DOMAIN req = Requests
BY DEF TInv, Parts

(* Nobody takes back what has been begun, and rows keep what is never written. *)
Onward == \A r \in Requests : pc'[r] = "new" => pc[r] = "new"
Elsewhere(r) == \A q \in Requests \ {r} : pc'[q] = pc[q] /\ req'[q] = req[q]
Kept ==
  /\ DOMAIN goals \subseteq DOMAIN goals' /\ DOMAIN cycles \subseteq DOMAIN cycles' /\ DOMAIN tasks \subseteq DOMAIN tasks'
  /\ \A g \in DOMAIN goals : /\ goals'[g].employee = goals[g].employee /\ goals'[g].manager = goals[g].manager
                             /\ goals'[g].by = goals[g].by
  /\ \A c \in DOMAIN cycles : /\ cycles'[c].hr = cycles[c].hr
                              /\ cycles[c].status = "closed" => cycles'[c].status = "closed"

-----------------------------------------------------------------------------
(* What steps have in common *)

LEMMA GotoMoves ==
  ASSUME TInv, NEW r \in Requests, NEW label \in Labels \ {"new"}, NEW knows, Goto(r, label, knows)
  PROVE  /\ pc'[r] = label /\ req'[r] = knows /\ Elsewhere(r) /\ Onward
         /\ DOMAIN req' = Requests /\ pc' \in [Requests -> Labels]
<1>1. pc \in [Requests -> Labels] /\ DOMAIN req = Requests
  BY DEF TInv
<1>2. pc' = [pc EXCEPT ![r] = label] /\ req' = [req EXCEPT ![r] = knows]
  BY DEF Goto
<1>3. QED
  BY <1>1, <1>2 DEF Elsewhere, Onward

LEMMA FinishMoves ==
  ASSUME TInv, NEW r \in Requests, Finish(r)
  PROVE  /\ pc'[r] = "done" /\ req'[r] = NoReq /\ Elsewhere(r) /\ Onward /\ KnowOK(r)'
         /\ DOMAIN req' = Requests /\ pc' \in [Requests -> Labels]
<1>1. "done" \in Labels \ {"new"}
  BY DEF Labels
<1>2. Goto(r, "done", NoReq)
  BY DEF Finish
<1>3. pc'[r] = "done" /\ req'[r] = NoReq
  BY <1>1, <1>2, GotoMoves
<1>4. KnowOK(r)'
  BY <1>3 DEF KnowOK, NoReq
<1>5. QED
  BY <1>1, <1>2, <1>3, <1>4, GotoMoves

LEMMA GoalsFrame ==
  ASSUME TInv, Onward, UNCHANGED <<goals, asked>>
  PROVE  GoalsOK'
BY DEF TInv, GoalsOK, Onward

LEMMA OthersFrame ==
  ASSUME TInv, UNCHANGED <<pips, feedback, checkins>>
  PROVE  OthersOK'
BY DEF TInv, OthersOK

LEMMA CyclesFrame ==
  ASSUME TInv, Onward, UNCHANGED <<cycles, selected, tasks, responses>>
  PROVE  CyclesOK'
<1>1. \A c \in DOMAIN cycles : c # Past => c \in Requests
  BY DEF TInv, CyclesOK, Ids
<1>2. QED
  BY <1>1 DEF TInv, CyclesOK, Onward

LEMMA KeptFrame ==
  ASSUME UNCHANGED <<goals, cycles, tasks>>
  PROVE  Kept
BY DEF Kept

LEMMA KnowFrame ==
  ASSUME TInv, Kept, NEW q \in Requests, pc'[q] = pc[q], req'[q] = req[q]
  PROVE  KnowOK(q)'
<1>1. KnowOK(q)
  BY DEF TInv
<1>2. pc[q] = "goal" => KnowOK(q)'
  BY <1>1 DEF KnowOK, Kept
<1>3. pc[q] \in {"new", "done", "select", "task", "close"} => KnowOK(q)'
  BY <1>1 DEF KnowOK, Kept
<1>4. pc[q] = "complete" => KnowOK(q)'
  BY <1>1 DEF KnowOK, Kept
<1>5. pc[q] \in {"respond", "advance"} => KnowOK(q)'
  BY <1>1 DEF KnowOK, Kept
<1>6. pc[q] \in Labels
  BY DEF TInv
<1>7. QED
  BY <1>2, <1>3, <1>4, <1>5, <1>6 DEF Labels

(* A step of one request, put together. *)
LEMMA StepTypes ==
  ASSUME TInv, NEW r \in Requests, Elsewhere(r), Kept, KnowOK(r)', Parts',
         manager' = manager, pc' \in [Requests -> Labels], DOMAIN req' = Requests
  PROVE  TInv'
<1>1. \A q \in Requests \ {r} : KnowOK(q)'
  BY KnowFrame DEF Elsewhere
<1>2. manager' \in [Staff -> Staff \cup {None}]
  BY DEF TInv
<1>3. QED
  BY <1>1, <1>2 DEF TInv, Parts

-----------------------------------------------------------------------------
(* Rows that are inserted *)

LEMMA Known ==
  /\ \A a \in Actors : Self(a) \in Staff \cup {None} /\ RoleOf[a] \in Roles
  /\ None \notin Staff /\ None \notin Ids /\ Requests \subseteq Ids /\ Past \in Ids /\ Past \notin Requests
  /\ HRRequired \in BOOLEAN
BY PerformanceAssumption DEF Self, Ids

LEMMA StartIsNew ==
  ASSUME TInv, NEW r \in Requests, Starts(r)
  PROVE  pc[r] = "new" /\ r \notin DOMAIN goals /\ r \notin DOMAIN cycles
BY Known DEF Starts, TInv, GoalsOK, CyclesOK

LEMMA CreateGoalTypes ==
  ASSUME TInv, NEW r \in Requests, NEW a \in Actors, NEW e \in Staff, NEW m \in Staff \cup {None},
         NEW dated \in BOOLEAN, CreateGoal(r, a, e, m, dated)
  PROVE  TInv'
<1> DEFINE row == GoalRow(r, a, e, GoalManager(a, e, m), dated)
           want == [title |-> r, progress |-> r]
<1>1. /\ goals' = Inserted(goals, r, row) /\ asked' = Inserted(asked, r, want) /\ Finish(r)
      /\ UNCHANGED <<manager, pips, feedback, checkins, cycles, tasks, responses, selected>>
  BY DEF CreateGoal
<1>2. pc'[r] = "done" /\ Elsewhere(r) /\ Onward /\ KnowOK(r)' /\ DOMAIN req' = Requests /\ pc' \in [Requests -> Labels]
  BY <1>1, FinishMoves
<1>3. r \notin DOMAIN goals
  BY StartIsNew DEF CreateGoal
<1>4. GoalManager(a, e, m) \in Staff
  BY DEF CreateGoal, Storable
<1>5. row \in GoalType /\ row.by = a /\ row.employee = e /\ row.manager = GoalManager(a, e, m)
  BY <1>4 DEF GoalRow, GoalType
<1>6. AuthorOK(a, e, GoalManager(a, e, m))
  BY DEF AuthorOK, CreateGoal, GoalManager
<1>7. want \in [title : Requests, progress : Requests]
  OBVIOUS
<1> HIDE DEF row, want
<1>8. GoalsOK
  BY DEF TInv
<1>9. /\ DOMAIN goals' = DOMAIN goals \cup {r} /\ goals'[r] = row /\ \A g \in DOMAIN goals : goals'[g] = goals[g]
      /\ DOMAIN asked' = DOMAIN goals \cup {r} /\ asked'[r] = want /\ \A g \in DOMAIN goals : asked'[g] = asked[g]
  BY <1>1, <1>3, <1>8 DEF Inserted, GoalsOK
<1>10. GoalsOK'
  <2>1. SUFFICES ASSUME NEW g \in DOMAIN goals'
                 PROVE  /\ g \in Requests /\ pc'[g] # "new"
                        /\ goals'[g] \in GoalType /\ AuthorOK(goals'[g].by, goals'[g].employee, goals'[g].manager)
                        /\ asked'[g] \in [title : Requests, progress : Requests]
    BY <1>9 DEF GoalsOK, AuthorOK, Self
  <2>2. CASE g = r
    BY <1>2, <1>5, <1>6, <1>7, <1>9, <2>2
  <2>3. CASE g # r
    BY <1>2, <1>8, <1>9, <2>1, <2>3 DEF GoalsOK, Onward
  <2>4. QED
    BY <2>2, <2>3
<1>11. Kept
  BY <1>1, <1>9 DEF Kept
<1>12. OthersOK' /\ CyclesOK'
  BY <1>1, <1>2, OthersFrame, CyclesFrame
<1>13. QED
  BY <1>1, <1>2, <1>10, <1>11, <1>12, StepTypes DEF Parts

LEMMA CreatePIPTypes ==
  ASSUME TInv, NEW r \in Requests, NEW a \in Actors, NEW e \in Staff, NEW m \in Staff \cup {None}, CreatePIP(r, a, e, m)
  PROVE  TInv'
<1> DEFINE by == IF RoleOf[a] = "Manager" THEN Self(a) ELSE m
           row == PIPRow(a, e, by)
<1>1. /\ pips' = Inserted(pips, r, row) /\ Finish(r) /\ RoleOf[a] \in {"HR", "Manager"}
      /\ RoleOf[a] = "Manager" => Self(a) # None
      /\ UNCHANGED <<manager, goals, feedback, checkins, cycles, tasks, responses, selected, asked>>
  BY DEF CreatePIP, history
<1>2. Elsewhere(r) /\ Onward /\ KnowOK(r)' /\ DOMAIN req' = Requests /\ pc' \in [Requests -> Labels]
  BY <1>1, FinishMoves
<1>3. by \in Staff \cup {None}
  BY Known
<1>4. row \in PIPType /\ row.by = a /\ row.employee = e /\ row.manager = by
  BY <1>3 DEF PIPRow, PIPType
<1>5. AuthorOK(a, e, by) /\ RoleOf[a] # "Employee"
  BY <1>1 DEF AuthorOK
<1> HIDE DEF row, by
<1>6. OthersOK'
  <2>1. /\ DOMAIN pips' = DOMAIN pips \cup {r} /\ pips'[r] = row
        /\ \A p \in DOMAIN pips \ {r} : pips'[p] = pips[p]
    BY <1>1 DEF Inserted
  <2>2. \A p \in DOMAIN pips' : /\ pips'[p] \in PIPType /\ RoleOf[pips'[p].by] # "Employee"
                                /\ AuthorOK(pips'[p].by, pips'[p].employee, pips'[p].manager)
    BY <1>4, <1>5, <2>1 DEF TInv, OthersOK
  <2>3. QED
    BY <1>1, <2>2 DEF TInv, OthersOK, AuthorOK, Self
<1>7. QED
  BY <1>1, <1>2, <1>6, StepTypes, KeptFrame, GoalsFrame, CyclesFrame DEF Parts

LEMMA FeedbackTypes ==
  ASSUME TInv, NEW r \in Requests, NEW a \in Actors, NEW e \in Staff, CreateFeedback(r, a, e)
  PROVE  TInv'
<1>1. /\ feedback' = feedback \cup {[id |-> r, from |-> a, to |-> e]} /\ Finish(r) /\ MayWriteOf(a, e)
      /\ UNCHANGED <<manager, goals, pips, checkins, cycles, tasks, responses, selected, asked>>
  BY DEF CreateFeedback, history
<1>2. Elsewhere(r) /\ Onward /\ KnowOK(r)' /\ DOMAIN req' = Requests /\ pc' \in [Requests -> Labels]
  BY <1>1, FinishMoves
<1>3. (RoleOf[a] = "Employee" => Self(a) = e) /\ (RoleOf[a] = "Manager" => Self(a) # None)
  BY <1>1 DEF MayWriteOf
<1>4. OthersOK'
  BY <1>1, <1>3 DEF TInv, OthersOK, AuthorOK, Self
<1>5. QED
  BY <1>1, <1>2, <1>4, StepTypes, KeptFrame, GoalsFrame, CyclesFrame DEF Parts

LEMMA CheckinTypes ==
  ASSUME TInv, NEW r \in Requests, NEW a \in Actors, NEW e \in Staff, NEW m \in Staff \cup {None}, CreateCheckin(r, a, e, m)
  PROVE  TInv'
<1>1. /\ checkins' = checkins \cup {[id |-> r, employee |-> e, manager |-> m]} /\ Finish(r)
      /\ UNCHANGED <<manager, goals, pips, feedback, cycles, tasks, responses, selected, asked>>
  BY DEF CreateCheckin, history
<1>2. Elsewhere(r) /\ Onward /\ KnowOK(r)' /\ DOMAIN req' = Requests /\ pc' \in [Requests -> Labels]
  BY <1>1, FinishMoves
<1>3. OthersOK'
  BY <1>1 DEF TInv, OthersOK, AuthorOK, Self
<1>4. QED
  BY <1>1, <1>2, <1>3, StepTypes, KeptFrame, GoalsFrame, CyclesFrame DEF Parts

LEMMA UpdatePIPTypes ==
  ASSUME TInv, NEW r \in Requests, NEW a \in Actors, NEW p \in DOMAIN pips, NEW status \in {"active", "closed"},
         UpdatePIP(r, a, p, status)
  PROVE  TInv'
<1>1. /\ pips' = [pips EXCEPT ![p].status = status] /\ Finish(r)
      /\ UNCHANGED <<manager, goals, feedback, checkins, cycles, tasks, responses, selected, asked>>
  BY DEF UpdatePIP, WithStatus, history
<1>2. Elsewhere(r) /\ Onward /\ KnowOK(r)' /\ DOMAIN req' = Requests /\ pc' \in [Requests -> Labels]
  BY <1>1, FinishMoves
<1>3. pips[p] \in PIPType
  BY DEF TInv, OthersOK
<1>4. /\ DOMAIN pips' = DOMAIN pips /\ \A i \in DOMAIN pips \ {p} : pips'[i] = pips[i]
      /\ pips'[p] = [pips[p] EXCEPT !.status = status]
  BY <1>1
<1>5. pips'[p] \in PIPType /\ pips'[p].by = pips[p].by /\ pips'[p].employee = pips[p].employee /\ pips'[p].manager = pips[p].manager
  BY <1>3, <1>4 DEF PIPType
<1>6. \A i \in DOMAIN pips' : /\ pips'[i] \in PIPType /\ RoleOf[pips'[i].by] # "Employee"
                              /\ AuthorOK(pips'[i].by, pips'[i].employee, pips'[i].manager)
  BY <1>4, <1>5 DEF TInv, OthersOK
<1>7. OthersOK'
  BY <1>1, <1>6 DEF TInv, OthersOK, AuthorOK, Self
<1>8. QED
  BY <1>1, <1>2, <1>7, StepTypes, KeptFrame, GoalsFrame, CyclesFrame DEF Parts

-----------------------------------------------------------------------------
(* Goals that are updated *)

LEMMA BeginOnMoves ==
  ASSUME TInv, NEW r \in Requests, NEW thing, NEW label \in Labels \ {"new", "done"}, NEW knows,
         BeginOn(r, thing, label, knows)
  PROVE  /\ pc'[r] = label /\ req'[r] = knows /\ Elsewhere(r) /\ Onward
         /\ DOMAIN req' = Requests /\ pc' \in [Requests -> Labels]
         /\ disturbed \subseteq disturbed'
         /\ thing \notin disturbed' => \A q \in Requests \ {r} : Busy(q) => req[q].thing # thing
<1>1. Goto(r, label, knows)
  BY DEF BeginOn
<1>2. disturbed' = IF Under(r, thing) THEN disturbed \cup {thing} ELSE disturbed
  BY DEF BeginOn
<1>3. thing \notin disturbed' => \A q \in Requests \ {r} : Busy(q) => req[q].thing # thing
  BY <1>2 DEF Under, Busy
<1>4. QED
  BY <1>1, <1>2, <1>3, GotoMoves

LEMMA MergedIs ==
  ASSUME NEW r \in Requests, NEW a \in Actors, NEW row \in GoalType, NEW sent \in SUBSET Columns
  PROVE  /\ Merged(row, a, sent, r) \in GoalType
         /\ Merged(row, a, sent, r).employee = row.employee /\ Merged(row, a, sent, r).manager = row.manager
         /\ Merged(row, a, sent, r).by = row.by
         /\ Takes(a, sent) \in SUBSET Columns
         /\ Merged(row, a, sent, r).title = IF "title" \in Takes(a, sent) THEN r ELSE row.title
         /\ Merged(row, a, sent, r).progress = IF "progress" \in Takes(a, sent) THEN r ELSE row.progress
<1>1. Takes(a, sent) \in SUBSET Columns /\ ("progress" \in Takes(a, sent) <=> "progress" \in sent)
  BY DEF Takes, Columns
<1> DEFINE dated == row.dated \/ "due" \in Takes(a, sent)
<1>2. dated \in BOOLEAN
  OBVIOUS
<1>3. Merged(row, a, sent, r) = [row EXCEPT !.title = IF "title" \in Takes(a, sent) THEN r ELSE row.title,
                                            !.progress = IF "progress" \in sent THEN r ELSE row.progress,
                                            !.dated = dated]
  BY DEF Merged, GoalType
<1> HIDE DEF dated
<1>4. QED
  BY <1>1, <1>2, <1>3 DEF GoalType

LEMMA UpdateGoalTypes ==
  ASSUME TInv, NEW r \in Requests, NEW a \in Actors, NEW g \in DOMAIN goals, NEW sent \in SUBSET Columns,
         UpdateGoal(r, a, g, sent)
  PROVE  /\ TInv' /\ pc'[r] = "goal" /\ req'[r].thing = g /\ req'[r].takes = Takes(a, sent)
         /\ req'[r].row = Merged(goals[g], a, sent, r)
         /\ BeginOn(r, g, "goal", [thing |-> g, row |-> Merged(goals[g], a, sent, r), takes |-> Takes(a, sent)])
         /\ UNCHANGED <<rows, history>>
<1> DEFINE row == goals[g]
           knows == [thing |-> g, row |-> Merged(row, a, sent, r), takes |-> Takes(a, sent)]
<1>1. BeginOn(r, g, "goal", knows) /\ UNCHANGED <<rows, history>>
  BY DEF UpdateGoal, GetGoal
<1>2. row \in GoalType /\ g \in Requests
  BY DEF TInv, GoalsOK
<1> HIDE DEF knows
<1>3. "goal" \in Labels \ {"new", "done"}
  BY DEF Labels
<1>4. pc'[r] = "goal" /\ req'[r] = knows /\ Elsewhere(r) /\ Onward /\ DOMAIN req' = Requests /\ pc' \in [Requests -> Labels]
  BY <1>1, <1>3, BeginOnMoves
<1>5. UNCHANGED <<manager, goals, pips, feedback, checkins, cycles, tasks, responses, selected, asked>>
  BY <1>1 DEF rows, history
<1>6. knows \in GoalKnows /\ knows.thing = g /\ knows.row = Merged(row, a, sent, r) /\ knows.takes = Takes(a, sent)
  BY <1>2, MergedIs DEF GoalKnows, knows
<1>7. /\ knows.row.employee = row.employee /\ knows.row.manager = row.manager /\ knows.row.by = row.by
  BY <1>2, <1>6, MergedIs
<1>8. KnowOK(r)'
  BY <1>4, <1>5, <1>6, <1>7 DEF KnowOK
<1>9. TInv'
  BY <1>4, <1>5, <1>8, StepTypes, KeptFrame, GoalsFrame, OthersFrame, CyclesFrame DEF Parts
<1>10. QED
  BY <1>1, <1>4, <1>6, <1>9 DEF knows

LEMMA WriteGoalTypes ==
  ASSUME TInv, NEW r \in Requests, WriteGoal(r)
  PROVE  /\ TInv' /\ Finish(r) /\ pc[r] = "goal" /\ req[r].thing \in DOMAIN goals
         /\ DOMAIN goals' = DOMAIN goals /\ \A g \in DOMAIN goals \ {req[r].thing} : goals'[g] = goals[g] /\ asked'[g] = asked[g]
         /\ goals'[req[r].thing] = req[r].row
         /\ asked'[req[r].thing].title = IF "title" \in req[r].takes THEN r ELSE asked[req[r].thing].title
         /\ asked'[req[r].thing].progress = IF "progress" \in req[r].takes THEN r ELSE asked[req[r].thing].progress
         /\ UNCHANGED <<cycles, tasks, responses, selected, claimed, disturbed>>
<1> DEFINE g == req[r].thing
           want == [title |-> IF "title" \in req[r].takes THEN r ELSE asked[g].title,
                    progress |-> IF "progress" \in req[r].takes THEN r ELSE asked[g].progress]
<1>1. /\ pc[r] = "goal" /\ goals' = [goals EXCEPT ![g] = req[r].row] /\ Finish(r)
      /\ UNCHANGED <<manager, pips, feedback, checkins, cycles, tasks, responses, selected, claimed, disturbed>>
  BY DEF WriteGoal
<1>2. asked' = [asked EXCEPT ![g] = [title |-> IF "title" \in req[r].takes THEN r ELSE @.title,
                                     progress |-> IF "progress" \in req[r].takes THEN r ELSE @.progress]]
  BY DEF WriteGoal
<1>3. Elsewhere(r) /\ Onward /\ KnowOK(r)' /\ DOMAIN req' = Requests /\ pc' \in [Requests -> Labels]
  BY <1>1, FinishMoves
<1>4. /\ req[r] \in GoalKnows /\ g \in DOMAIN goals
      /\ req[r].row.employee = goals[g].employee /\ req[r].row.manager = goals[g].manager /\ req[r].row.by = goals[g].by
  BY <1>1 DEF TInv, KnowOK
<1>5. req[r].row \in GoalType /\ GoalsOK /\ asked[g] \in [title : Requests, progress : Requests]
  BY <1>4 DEF TInv, GoalKnows, GoalsOK
<1>6. g \in DOMAIN asked
  BY <1>4, <1>5 DEF GoalsOK
<1> HIDE DEF g
<1>7. DOMAIN goals' = DOMAIN goals /\ goals'[g] = req[r].row /\ \A h \in DOMAIN goals \ {g} : goals'[h] = goals[h]
  BY <1>1, <1>4
<1>8. DOMAIN asked' = DOMAIN asked /\ asked'[g] = want /\ \A h \in DOMAIN asked \ {g} : asked'[h] = asked[h]
  BY <1>2, <1>6
<1>9. want \in [title : Requests, progress : Requests]
  BY <1>5
<1> HIDE DEF want
<1>10. GoalsOK'
  <2>1. SUFFICES ASSUME NEW h \in DOMAIN goals'
                 PROVE  /\ h \in Requests /\ pc'[h] # "new"
                        /\ goals'[h] \in GoalType /\ AuthorOK(goals'[h].by, goals'[h].employee, goals'[h].manager)
                        /\ asked'[h] \in [title : Requests, progress : Requests]
    BY <1>5, <1>7, <1>8 DEF GoalsOK, AuthorOK, Self
  <2>2. /\ h \in Requests /\ pc[h] # "new" /\ goals[h] \in GoalType /\ asked[h] \in [title : Requests, progress : Requests]
        /\ AuthorOK(goals[h].by, goals[h].employee, goals[h].manager) /\ h \in DOMAIN asked
    BY <1>5, <1>7, <2>1 DEF GoalsOK
  <2>3. pc'[h] # "new"
    BY <1>3, <2>2 DEF Onward
  <2>4. CASE h = g
    BY <1>4, <1>5, <1>7, <1>8, <1>9, <2>2, <2>3, <2>4
  <2>5. CASE h # g
    BY <1>7, <1>8, <2>1, <2>2, <2>3, <2>5
  <2>6. QED
    BY <2>4, <2>5
<1>11. Kept
  BY <1>1, <1>4, <1>7 DEF Kept
<1>12. TInv'
  BY <1>1, <1>3, <1>10, <1>11, StepTypes, OthersFrame, CyclesFrame DEF Parts
<1>13. DOMAIN asked = DOMAIN goals
  BY <1>5 DEF GoalsOK
<1>14. QED
  BY <1>1, <1>4, <1>7, <1>8, <1>12, <1>13 DEF g, want

-----------------------------------------------------------------------------
(* Review cycles *)

(* What the step that inserts a cycle does. *)
CycleCreated(r, selection) ==
  /\ pc[r] = "new" /\ pc'[r] = "select" /\ req'[r].thing = r /\ req'[r].selection = selection /\ Elsewhere(r)
  /\ r \notin DOMAIN cycles /\ DOMAIN cycles' = DOMAIN cycles \cup {r}
  /\ \A c \in DOMAIN cycles : cycles'[c] = cycles[c] /\ selected'[c] = selected[c]
  /\ cycles'[r].status = "draft"
  /\ UNCHANGED <<goals, tasks, responses, asked, claimed, disturbed>>

LEMMA CreateCycleTypes ==
  ASSUME TInv, NEW r \in Requests, NEW a \in Actors, NEW selection \in SUBSET Staff, NEW hr \in BOOLEAN,
         CreateReviewCycle(r, a, selection, hr)
  PROVE  TInv' /\ CycleCreated(r, selection)
<1> DEFINE row == [status |-> "draft", hr |-> hr]
           knows == [thing |-> r, selection |-> selection]
<1>1. /\ cycles' = Inserted(cycles, r, row) /\ selected' = Inserted(selected, r, {}) /\ Goto(r, "select", knows)
      /\ UNCHANGED <<manager, goals, pips, feedback, checkins, tasks, responses, asked, claimed, disturbed>>
  BY DEF CreateReviewCycle
<1>2. pc[r] = "new" /\ r \notin DOMAIN cycles
  BY StartIsNew DEF CreateReviewCycle
<1>3. "select" \in Labels \ {"new"}
  BY DEF Labels
<1>4. row \in CycleType /\ row.status = "draft"
  BY DEF CycleType
<1>6. knows \in SelectKnows /\ knows.thing = r /\ knows.selection = selection
  BY Known DEF SelectKnows
<1> HIDE DEF row, knows
<1>7. pc'[r] = "select" /\ req'[r] = knows /\ Elsewhere(r) /\ Onward /\ DOMAIN req' = Requests /\ pc' \in [Requests -> Labels]
  BY <1>1, <1>3, GotoMoves
<1>8. CyclesOK
  BY DEF TInv
<1>9. /\ DOMAIN cycles' = DOMAIN cycles \cup {r} /\ cycles'[r] = row /\ \A c \in DOMAIN cycles : cycles'[c] = cycles[c]
      /\ DOMAIN selected' = DOMAIN cycles \cup {r} /\ selected'[r] = {} /\ \A c \in DOMAIN cycles : selected'[c] = selected[c]
  BY <1>1, <1>2, <1>8 DEF Inserted, CyclesOK
<1>10. CyclesOK'
  <2>1. ASSUME NEW c \in DOMAIN cycles'
        PROVE  c \in Ids /\ cycles'[c] \in CycleType /\ selected'[c] \subseteq Staff /\ (c # Past => pc'[c] # "new")
    <3>1. CASE c = r
      BY <1>4, <1>7, <1>9, <3>1, Known
    <3>2. CASE c # r
      <4>1. c \in Ids /\ cycles[c] \in CycleType /\ selected[c] \subseteq Staff /\ (c # Past => c \in Requests /\ pc[c] # "new")
        BY <1>8, <1>9, <2>1, <3>2 DEF CyclesOK, Ids
      <4>2. QED
        BY <1>7, <1>9, <2>1, <3>2, <4>1 DEF Onward
    <3>3. QED
      BY <3>1, <3>2
  <2>2. \A t \in DOMAIN tasks' : t \in (DOMAIN cycles') \X Staff /\ tasks'[t] \in TaskType
    BY <1>1, <1>8, <1>9 DEF CyclesOK
  <2>3. \A x \in responses' : x.task \in DOMAIN tasks' /\ x.role \in Answers
    BY <1>1, <1>8 DEF CyclesOK
  <2>4. QED
    BY <1>9, <2>1, <2>2, <2>3 DEF CyclesOK
<1>11. Kept
  BY <1>1, <1>9 DEF Kept
<1>12. KnowOK(r)'
  BY <1>6, <1>7, <1>9 DEF KnowOK
<1>13. TInv'
  BY <1>1, <1>7, <1>10, <1>11, <1>12, StepTypes, GoalsFrame, OthersFrame DEF Parts
<1>14. QED
  BY <1>1, <1>2, <1>4, <1>6, <1>7, <1>9, <1>13 DEF CycleCreated

(* A request that goes on with what it knows. *)
LEMMA UnwrittenTypes ==
  ASSUME TInv, NEW r \in Requests, Elsewhere(r), Onward, KnowOK(r)', DOMAIN req' = Requests, pc' \in [Requests -> Labels],
         UNCHANGED <<manager, goals, pips, feedback, checkins, cycles, tasks, responses, selected, asked>>
  PROVE  TInv'
BY StepTypes, KeptFrame, GoalsFrame, OthersFrame, CyclesFrame DEF Parts

(* What the step that lists the employees does. *)
Selected(r, list) ==
  /\ pc[r] = "select" /\ Elsewhere(r) /\ UNCHANGED <<rows, asked, claimed, disturbed>>
  /\ selected' = [selected EXCEPT ![req[r].thing] = list]
  /\ \/ pc'[r] = "done" /\ req'[r] = NoReq
     \/ pc'[r] = "task" /\ req'[r].thing = req[r].thing /\ req'[r].left = list

LEMMA SelectTypes ==
  ASSUME TInv, NEW r \in Requests, SelectEmployees(r)
  PROVE  TInv' /\ \E list \in SUBSET Staff : Selected(r, list)
<1>1. pc[r] = "select" /\ UNCHANGED <<rows, asked, claimed, disturbed>>
  BY DEF SelectEmployees
<1>2. UNCHANGED <<manager, goals, pips, feedback, checkins, cycles, tasks, responses, asked>>
  BY <1>1 DEF rows
<1>3. req[r] \in SelectKnows /\ req[r].thing = r /\ r \in DOMAIN cycles
  BY <1>1 DEF TInv, KnowOK
<1>4. PICK list \in SUBSET Staff :
             /\ selected' = [selected EXCEPT ![r] = list]
             /\ IF Readable(list) /\ list # {}
                  THEN Goto(r, "task", [thing |-> r, left |-> list, manager |-> manager])
                  ELSE Finish(r)
  BY DEF SelectEmployees, ForReview
<1> DEFINE knows == [thing |-> r, left |-> list, manager |-> manager]
<1>5. Elsewhere(r) /\ Onward /\ DOMAIN req' = Requests /\ pc' \in [Requests -> Labels] /\ KnowOK(r)' /\ Selected(r, list)
  <2>1. CASE ~(Readable(list) /\ list # {})
    <3>1. Finish(r)
      BY <1>4, <2>1
    <3>2. QED
      BY <1>1, <1>3, <1>4, <3>1, FinishMoves DEF Selected
  <2>2. CASE Readable(list) /\ list # {}
    <3>1. Goto(r, "task", knows)
      BY <1>4, <2>2
    <3>2. manager \in [Staff -> Staff \cup {None}] /\ r \in Ids
      BY Known DEF TInv
    <3>3. /\ knows \in TaskKnows /\ knows.thing = r /\ knows.left = list /\ knows.manager = manager
      BY <2>2, <3>2 DEF TaskKnows
    <3>4. \A e \in list : manager[e] # None
      BY <2>2 DEF Readable
    <3>5. "task" \in Labels \ {"new"}
      BY DEF Labels
    <3> HIDE DEF knows
    <3>6. pc'[r] = "task" /\ req'[r] = knows /\ Elsewhere(r) /\ Onward /\ DOMAIN req' = Requests /\ pc' \in [Requests -> Labels]
      BY <3>1, <3>5, GotoMoves
    <3>7. KnowOK(r)'
      BY <1>2, <1>3, <3>3, <3>4, <3>6 DEF KnowOK
    <3>8. QED
      BY <1>1, <1>3, <1>4, <3>3, <3>6, <3>7 DEF Selected
  <2>3. QED
    BY <2>1, <2>2
<1>6. CyclesOK'
  <2>1. CyclesOK
    BY DEF TInv
  <2>2. DOMAIN selected' = DOMAIN selected /\ \A c \in DOMAIN cycles : selected'[c] \subseteq Staff
    BY <1>4, <2>1 DEF CyclesOK
  <2>3. \A c \in DOMAIN cycles : c # Past => c \in Requests
    BY <2>1 DEF CyclesOK, Ids
  <2>4. QED
    BY <1>2, <1>5, <2>1, <2>2, <2>3 DEF CyclesOK, Onward
<1>7. TInv'
  BY <1>2, <1>5, <1>6, StepTypes, KeptFrame, GoalsFrame, OthersFrame DEF Parts
<1>8. QED
  BY <1>5, <1>7

LEMMA AfterTaskMoves ==
  ASSUME TInv, NEW r \in Requests, NEW e \in Staff, pc[r] = "task", e \in req[r].left, AfterTask(r, e)
  PROVE  /\ Elsewhere(r) /\ Onward /\ DOMAIN req' = Requests /\ pc' \in [Requests -> Labels]
         /\ DOMAIN cycles \subseteq DOMAIN cycles' => KnowOK(r)'
         /\ \/ pc'[r] = "done" /\ req'[r] = NoReq /\ req[r].left \ {e} = {}
            \/ pc'[r] = "task" /\ req'[r].thing = req[r].thing /\ req'[r].left = req[r].left \ {e}
<1> DEFINE left == req[r].left \ {e}
           knows == [req[r] EXCEPT !.left = left]
<1>1. CASE left = {}
  <2>1. Finish(r)
    BY <1>1 DEF AfterTask
  <2>2. QED
    BY <1>1, <2>1, FinishMoves
<1>2. CASE left # {}
  <2>1. Goto(r, "task", knows)
    BY <1>2 DEF AfterTask
  <2>2. req[r] \in TaskKnows /\ req[r].thing \in DOMAIN cycles /\ \A f \in req[r].left : req[r].manager[f] # None
    BY DEF TInv, KnowOK
  <2>3. left \in (SUBSET Staff) \ {{}}
    BY <1>2, <2>2 DEF TaskKnows
  <2>4. knows \in TaskKnows /\ knows.thing = req[r].thing /\ knows.left = left /\ knows.manager = req[r].manager
    BY <2>2, <2>3 DEF TaskKnows
  <2>5. "task" \in Labels \ {"new"}
    BY DEF Labels
  <2> HIDE DEF knows
  <2>6. pc'[r] = "task" /\ req'[r] = knows /\ Elsewhere(r) /\ Onward /\ DOMAIN req' = Requests /\ pc' \in [Requests -> Labels]
    BY <2>1, <2>5, GotoMoves
  <2>7. DOMAIN cycles \subseteq DOMAIN cycles' => KnowOK(r)'
    BY <2>2, <2>4, <2>6 DEF KnowOK
  <2>8. QED
    BY <2>4, <2>6, <2>7
<1>3. QED
  BY <1>1, <1>2

LEMMA TaskFailsTypes ==
  ASSUME TInv, NEW r \in Requests, NEW e \in Staff, TaskFails(r, e)
  PROVE  /\ TInv' /\ pc[r] = "task" /\ UNCHANGED <<rows, history>> /\ disturbed' = disturbed \cup {req[r].thing}
         /\ Elsewhere(r) /\ pc'[r] \in {"done", "task"} /\ (pc'[r] = "task" => req'[r].thing = req[r].thing)
<1>1. /\ pc[r] = "task" /\ e \in req[r].left /\ AfterTask(r, e) /\ UNCHANGED <<rows, history>>
      /\ disturbed' = disturbed \cup {req[r].thing}
  BY DEF TaskFails
<1>2. UNCHANGED <<manager, goals, pips, feedback, checkins, cycles, tasks, responses, selected, asked>>
  BY <1>1 DEF rows, history
<1>3. TInv'
  BY <1>1, <1>2, AfterTaskMoves, UnwrittenTypes
<1>4. QED
  BY <1>1, <1>3, AfterTaskMoves

(* What the step that inserts a task does. *)
TaskCreated(r, e) ==
  /\ pc[r] = "task" /\ e \in req[r].left /\ Elsewhere(r)
  /\ UNCHANGED <<goals, cycles, responses, selected, asked, claimed, disturbed>>
  /\ DOMAIN tasks' = DOMAIN tasks \cup {<<req[r].thing, e>>}
  /\ \A t \in DOMAIN tasks' : IF t = <<req[r].thing, e>> THEN tasks'[t].status = "self_pending" ELSE tasks'[t] = tasks[t]
  /\ \/ pc'[r] = "done" /\ req'[r] = NoReq /\ req[r].left \ {e} = {}
     \/ pc'[r] = "task" /\ req'[r].thing = req[r].thing /\ req'[r].left = req[r].left \ {e}

LEMMA CreateTaskTypes ==
  ASSUME TInv, NEW r \in Requests, NEW e \in Staff, CreateReviewTask(r, e)
  PROVE  TInv' /\ TaskCreated(r, e)
<1> DEFINE new == <<req[r].thing, e>>
           row == [manager |-> req[r].manager[e], status |-> "self_pending"]
<1>1. /\ pc[r] = "task" /\ e \in req[r].left /\ AfterTask(r, e) /\ tasks' = Inserted(tasks, new, row)
      /\ UNCHANGED <<manager, goals, pips, feedback, checkins, cycles, responses, selected, asked, claimed, disturbed>>
  BY DEF CreateReviewTask, history
<1>2. /\ Elsewhere(r) /\ Onward /\ DOMAIN req' = Requests /\ pc' \in [Requests -> Labels] /\ KnowOK(r)'
      /\ \/ pc'[r] = "done" /\ req'[r] = NoReq /\ req[r].left \ {e} = {}
         \/ pc'[r] = "task" /\ req'[r].thing = req[r].thing /\ req'[r].left = req[r].left \ {e}
  BY <1>1, AfterTaskMoves
<1>3. req[r] \in TaskKnows /\ req[r].thing \in DOMAIN cycles /\ req[r].manager[e] # None
  BY <1>1 DEF TInv, KnowOK
<1>4. req[r].manager[e] \in Staff
  BY <1>3 DEF TaskKnows
<1>5. row \in TaskType /\ row.status = "self_pending"
  BY <1>4 DEF TaskType, Statuses
<1>6. new \in (DOMAIN cycles) \X Staff
  BY <1>3
<1>7. CyclesOK
  BY DEF TInv
<1> HIDE DEF new, row
<1>8. DOMAIN tasks' = DOMAIN tasks \cup {new} /\ \A t \in DOMAIN tasks' : tasks'[t] = IF t = new THEN row ELSE tasks[t]
  BY <1>1 DEF Inserted
<1>9. CyclesOK'
  <2>1. \A t \in DOMAIN tasks' : t \in (DOMAIN cycles') \X Staff /\ tasks'[t] \in TaskType
    BY <1>1, <1>5, <1>6, <1>7, <1>8 DEF CyclesOK
  <2>2. \A c \in DOMAIN cycles' : cycles'[c] \in CycleType /\ selected'[c] \subseteq Staff /\ (c # Past => pc'[c] # "new")
    BY <1>1, <1>2, <1>7 DEF CyclesOK, Onward, Ids
  <2>3. QED
    BY <1>1, <1>7, <1>8, <2>1, <2>2 DEF CyclesOK
<1>10. Kept
  BY <1>1, <1>8 DEF Kept
<1>11. TInv'
  BY <1>1, <1>2, <1>9, <1>10, StepTypes, GoalsFrame, OthersFrame DEF Parts
<1>12. QED
  BY <1>1, <1>2, <1>5, <1>8, <1>11 DEF new, TaskCreated

LEMMA FinalizeTypes ==
  ASSUME TInv, NEW r \in Requests, NEW a \in Actors, NEW c \in DOMAIN cycles, FinalizeReviewCycle(r, a, c)
  PROVE  /\ TInv' /\ BeginOn(r, c, "close", [thing |-> c]) /\ UNCHANGED <<rows, history>>
         /\ pc'[r] = "close" /\ req'[r].thing = c /\ Elsewhere(r) /\ cycles[c].status # "closed"
<1> DEFINE knows == [thing |-> c]
<1>1. BeginOn(r, c, "close", knows) /\ UNCHANGED <<rows, history>> /\ cycles[c].status # "closed"
  BY DEF FinalizeReviewCycle, ReviewCycleStatus
<1>2. UNCHANGED <<manager, goals, pips, feedback, checkins, cycles, tasks, responses, selected, asked>>
  BY <1>1 DEF rows, history
<1>3. knows \in CloseKnows /\ knows.thing = c
  BY DEF TInv, CyclesOK, CloseKnows
<1>4. "close" \in Labels \ {"new", "done"}
  BY DEF Labels
<1> HIDE DEF knows
<1>5. pc'[r] = "close" /\ req'[r] = knows /\ Elsewhere(r) /\ Onward /\ DOMAIN req' = Requests /\ pc' \in [Requests -> Labels]
  BY <1>1, <1>4, BeginOnMoves
<1>6. KnowOK(r)'
  BY <1>2, <1>3, <1>5 DEF KnowOK
<1>7. TInv'
  BY <1>2, <1>5, <1>6, UnwrittenTypes
<1>8. QED
  BY <1>1, <1>3, <1>5, <1>7 DEF knows

LEMMA CloseTypes ==
  ASSUME TInv, NEW r \in Requests, CloseCycle(r)
  PROVE  /\ TInv' /\ pc[r] = "close" /\ pc'[r] = "complete" /\ req'[r] = req[r] /\ Elsewhere(r)
         /\ req[r].thing \in DOMAIN cycles /\ DOMAIN cycles' = DOMAIN cycles
         /\ cycles'[req[r].thing].status = "closed" /\ cycles'[req[r].thing].hr = cycles[req[r].thing].hr
         /\ \A c \in DOMAIN cycles \ {req[r].thing} : cycles'[c] = cycles[c]
         /\ UNCHANGED <<goals, tasks, responses, history, disturbed>>
<1> DEFINE c == req[r].thing
<1>1. /\ pc[r] = "close" /\ cycles' = [cycles EXCEPT ![c].status = "closed"] /\ Goto(r, "complete", req[r])
      /\ UNCHANGED <<manager, goals, pips, feedback, checkins, tasks, responses, history, disturbed>>
  BY DEF CloseCycle
<1>2. req[r] \in CloseKnows /\ c \in DOMAIN cycles
  BY <1>1 DEF TInv, KnowOK
<1>3. CyclesOK /\ cycles[c] \in CycleType
  BY <1>2 DEF TInv, CyclesOK
<1>4. "complete" \in Labels \ {"new"}
  BY DEF Labels
<1>5. pc'[r] = "complete" /\ req'[r] = req[r] /\ Elsewhere(r) /\ Onward /\ DOMAIN req' = Requests /\ pc' \in [Requests -> Labels]
  BY <1>1, <1>4, GotoMoves
<1> HIDE DEF c
<1>6. /\ DOMAIN cycles' = DOMAIN cycles /\ cycles'[c] = [cycles[c] EXCEPT !.status = "closed"]
      /\ \A d \in DOMAIN cycles \ {c} : cycles'[d] = cycles[d]
  BY <1>1, <1>2
<1>7. cycles'[c] \in CycleType /\ cycles'[c].status = "closed" /\ cycles'[c].hr = cycles[c].hr
  BY <1>3, <1>6 DEF CycleType
<1>8. selected' = selected /\ asked' = asked
  BY <1>1 DEF history
<1>9. CyclesOK'
  <2>1. \A d \in DOMAIN cycles' : d \in Ids /\ cycles'[d] \in CycleType /\ selected'[d] \subseteq Staff /\ (d # Past => pc'[d] # "new")
    BY <1>3, <1>5, <1>6, <1>7, <1>8 DEF CyclesOK, Onward, Ids
  <2>2. QED
    BY <1>1, <1>3, <1>6, <1>8, <2>1 DEF CyclesOK
<1>10. Kept
  BY <1>1, <1>6, <1>7 DEF Kept
<1>11. KnowOK(r)'
  BY <1>2, <1>5, <1>6, <1>7 DEF KnowOK, c
<1>12. TInv'
  BY <1>1, <1>5, <1>8, <1>9, <1>10, <1>11, StepTypes, GoalsFrame, OthersFrame DEF Parts
<1>13. QED
  BY <1>1, <1>2, <1>5, <1>6, <1>7, <1>12 DEF c

(* Tasks that get another status. *)
LEMMA StatusFrame ==
  ASSUME TInv, Onward, UNCHANGED <<cycles, selected, responses>>, DOMAIN tasks' = DOMAIN tasks,
         \A t \in DOMAIN tasks : tasks'[t] \in TaskType
  PROVE  CyclesOK'
<1>1. \A c \in DOMAIN cycles : c # Past => c \in Requests
  BY DEF TInv, CyclesOK, Ids
<1>2. QED
  BY <1>1 DEF TInv, CyclesOK, Onward

LEMMA CompleteTypes ==
  ASSUME TInv, NEW r \in Requests, CompleteTasks(r)
  PROVE  /\ TInv' /\ pc[r] = "complete" /\ pc'[r] = "done" /\ req'[r] = NoReq /\ Elsewhere(r)
         /\ cycles[req[r].thing].status = "closed" /\ DOMAIN tasks' = DOMAIN tasks
         /\ \A t \in DOMAIN tasks : IF t[1] = req[r].thing THEN tasks'[t].status = "completed" ELSE tasks'[t] = tasks[t]
         /\ UNCHANGED <<goals, cycles, responses, history, disturbed>>
<1>1. /\ pc[r] = "complete" /\ tasks' = Completed(req[r].thing) /\ Finish(r)
      /\ UNCHANGED <<manager, goals, pips, feedback, checkins, cycles, responses, history, disturbed>>
  BY DEF CompleteTasks
<1>2. cycles[req[r].thing].status = "closed"
  BY <1>1 DEF TInv, KnowOK
<1>3. /\ pc'[r] = "done" /\ req'[r] = NoReq /\ Elsewhere(r) /\ Onward /\ KnowOK(r)'
      /\ DOMAIN req' = Requests /\ pc' \in [Requests -> Labels]
  BY <1>1, FinishMoves
<1>4. selected' = selected /\ asked' = asked
  BY <1>1 DEF history
<1>5. \A t \in DOMAIN tasks : tasks[t] \in TaskType
  BY DEF TInv, CyclesOK
<1>6. DOMAIN tasks' = DOMAIN tasks /\ \A t \in DOMAIN tasks :
        tasks'[t] = IF t[1] = req[r].thing THEN [tasks[t] EXCEPT !.status = "completed"] ELSE tasks[t]
  BY <1>1 DEF Completed
<1>7. \A t \in DOMAIN tasks : /\ tasks'[t] \in TaskType
                              /\ IF t[1] = req[r].thing THEN tasks'[t].status = "completed" ELSE tasks'[t] = tasks[t]
  BY <1>5, <1>6 DEF TaskType, Statuses
<1>8. CyclesOK'
  BY <1>1, <1>3, <1>4, <1>6, <1>7, StatusFrame
<1>9. Kept
  BY <1>1, <1>6 DEF Kept
<1>10. TInv'
  BY <1>1, <1>3, <1>4, <1>8, <1>9, StepTypes, GoalsFrame, OthersFrame DEF Parts
<1>11. QED
  BY <1>1, <1>2, <1>3, <1>6, <1>7, <1>10

-----------------------------------------------------------------------------
(* Responses *)

LEMMA SubmitTypes ==
  ASSUME TInv, NEW r \in Requests, NEW a \in Actors, NEW t \in DOMAIN tasks, NEW ro \in Answers,
         SubmitReviewResponse(r, a, t, ro)
  PROVE  TInv' /\ pc'[r] = "respond" /\ req'[r].thing = t[1] /\ req'[r].task = t /\ req'[r].role = ro /\ Elsewhere(r)
<1> DEFINE knows == [thing |-> t[1], task |-> t, role |-> ro, context |-> ReviewTaskContext(t)]
<1>1. BeginOn(r, t[1], "respond", knows) /\ UNCHANGED <<rows, selected, asked>>
  BY DEF SubmitReviewResponse
<1>2. UNCHANGED <<manager, goals, pips, feedback, checkins, cycles, tasks, responses, selected, asked>>
  BY <1>1 DEF rows
<1>3. CyclesOK
  BY DEF TInv
<1>4. t \in (DOMAIN cycles) \X Staff /\ tasks[t] \in TaskType /\ DOMAIN cycles \subseteq Ids
  BY <1>3 DEF CyclesOK
<1>5. cycles[t[1]] \in CycleType
  BY <1>3, <1>4 DEF CyclesOK
<1>6. ReviewTaskContext(t) \in [manager : Staff, hr : BOOLEAN] /\ ReviewTaskContext(t).hr = cycles[t[1]].hr
  BY <1>4, <1>5 DEF ReviewTaskContext, TaskType, CycleType
<1>7. /\ knows \in AnswerKnows /\ knows.thing = t[1] /\ knows.task = t /\ knows.role = ro
      /\ knows.context = ReviewTaskContext(t)
  BY <1>4, <1>6 DEF AnswerKnows
<1>8. "respond" \in Labels \ {"new", "done"}
  BY DEF Labels
<1> HIDE DEF knows
<1>9. pc'[r] = "respond" /\ req'[r] = knows /\ Elsewhere(r) /\ Onward /\ DOMAIN req' = Requests /\ pc' \in [Requests -> Labels]
  BY <1>1, <1>8, BeginOnMoves
<1>10. KnowOK(r)'
  BY <1>2, <1>4, <1>6, <1>7, <1>9 DEF KnowOK
<1>11. TInv'
  BY <1>2, <1>9, <1>10, UnwrittenTypes
<1>12. QED
  BY <1>7, <1>9, <1>11

LEMMA RespondTypes ==
  ASSUME TInv, NEW r \in Requests, CreateReviewResponse(r)
  PROVE  /\ TInv' /\ pc[r] = "respond" /\ pc'[r] = "advance" /\ req'[r] = req[r] /\ Elsewhere(r)
         /\ req[r].task \in DOMAIN tasks
         /\ responses' = responses \cup {[id |-> r, task |-> req[r].task, role |-> req[r].role]}
         /\ UNCHANGED <<goals, cycles, tasks, history, disturbed>>
<1>1. /\ pc[r] = "respond" /\ responses' = responses \cup {[id |-> r, task |-> req[r].task, role |-> req[r].role]}
      /\ Goto(r, "advance", req[r])
      /\ UNCHANGED <<manager, goals, pips, feedback, checkins, cycles, tasks, history, disturbed>>
  BY DEF CreateReviewResponse
<1>2. /\ req[r] \in AnswerKnows /\ req[r].task \in DOMAIN tasks /\ req[r].task[1] = req[r].thing
      /\ req[r].context.hr = cycles[req[r].thing].hr /\ req[r].thing \in DOMAIN cycles
  BY <1>1 DEF TInv, KnowOK
<1>3. req[r].role \in Answers
  BY <1>2 DEF AnswerKnows
<1>4. "advance" \in Labels \ {"new"}
  BY DEF Labels
<1>5. pc'[r] = "advance" /\ req'[r] = req[r] /\ Elsewhere(r) /\ Onward /\ DOMAIN req' = Requests /\ pc' \in [Requests -> Labels]
  BY <1>1, <1>4, GotoMoves
<1>6. selected' = selected /\ asked' = asked
  BY <1>1 DEF history
<1>7. CyclesOK'
  <2>1. \A x \in responses' : x.task \in DOMAIN tasks /\ x.role \in Answers
    BY <1>1, <1>2, <1>3 DEF TInv, CyclesOK
  <2>2. \A c \in DOMAIN cycles : c # Past => c \in Requests
    BY DEF TInv, CyclesOK, Ids
  <2>3. QED
    BY <1>1, <1>5, <1>6, <2>1, <2>2 DEF TInv, CyclesOK, Onward
<1>8. KnowOK(r)'
  BY <1>1, <1>2, <1>5 DEF KnowOK
<1>9. TInv'
  BY <1>1, <1>5, <1>6, <1>7, <1>8, StepTypes, KeptFrame, GoalsFrame, OthersFrame DEF Parts
<1>10. QED
  BY <1>1, <1>2, <1>5, <1>9

LEMMA AdvanceTypes ==
  ASSUME TInv, NEW r \in Requests, AdvanceTask(r)
  PROVE  /\ TInv' /\ pc[r] = "advance" /\ pc'[r] = "done" /\ req'[r] = NoReq /\ Elsewhere(r)
         /\ req[r].task \in DOMAIN tasks /\ req[r].task[1] = req[r].thing /\ req[r].role \in Answers
         /\ req[r].context.hr = cycles[req[r].thing].hr /\ req[r].context.manager # None
         /\ DOMAIN tasks' = DOMAIN tasks
         /\ \A t \in DOMAIN tasks : IF t = req[r].task THEN tasks'[t].status = NextStatus(req[r].role, req[r].context)
                                                       ELSE tasks'[t] = tasks[t]
         /\ UNCHANGED <<goals, cycles, responses, history, disturbed>>
<1> DEFINE t == req[r].task
           status == NextStatus(req[r].role, req[r].context)
<1>1. /\ pc[r] = "advance" /\ tasks' = [tasks EXCEPT ![t].status = status] /\ Finish(r)
      /\ UNCHANGED <<manager, goals, pips, feedback, checkins, cycles, responses, history, disturbed>>
  BY DEF AdvanceTask
<1>2. req[r] \in AnswerKnows /\ t \in DOMAIN tasks /\ t[1] = req[r].thing /\ req[r].context.hr = cycles[req[r].thing].hr
  BY <1>1 DEF TInv, KnowOK
<1>3. req[r].role \in Answers /\ req[r].context.manager # None
  BY <1>2, Known DEF AnswerKnows
<1>4. status \in Statuses
  BY DEF NextStatus, Statuses
<1>5. \A u \in DOMAIN tasks : tasks[u] \in TaskType
  BY DEF TInv, CyclesOK
<1>6. /\ pc'[r] = "done" /\ req'[r] = NoReq /\ Elsewhere(r) /\ Onward /\ KnowOK(r)'
      /\ DOMAIN req' = Requests /\ pc' \in [Requests -> Labels]
  BY <1>1, FinishMoves
<1>7. selected' = selected /\ asked' = asked
  BY <1>1 DEF history
<1> HIDE DEF t, status
<1>8. /\ DOMAIN tasks' = DOMAIN tasks /\ tasks'[t] = [tasks[t] EXCEPT !.status = status]
      /\ \A u \in DOMAIN tasks \ {t} : tasks'[u] = tasks[u]
  BY <1>1, <1>2
<1>9. tasks'[t] \in TaskType /\ tasks'[t].status = status
  BY <1>2, <1>4, <1>5, <1>8 DEF TaskType
<1>10. \A u \in DOMAIN tasks : tasks'[u] \in TaskType
  BY <1>5, <1>8, <1>9
<1>11. CyclesOK'
  BY <1>1, <1>6, <1>7, <1>8, <1>10, StatusFrame
<1>12. Kept
  BY <1>1, <1>8 DEF Kept
<1>13. TInv'
  BY <1>1, <1>6, <1>7, <1>11, <1>12, StepTypes, GoalsFrame, OthersFrame DEF Parts
<1>14. QED
  BY <1>1, <1>2, <1>3, <1>6, <1>8, <1>9, <1>13 DEF t, status

LEMMA FailTypes ==
  ASSUME TInv, NEW r \in Requests, Fail(r)
  PROVE  /\ TInv' /\ Busy(r) /\ pc'[r] = "done" /\ req'[r] = NoReq /\ Elsewhere(r)
         /\ disturbed' = disturbed \cup {req[r].thing} /\ UNCHANGED <<rows, history>>
<1>1. Busy(r) /\ Finish(r) /\ UNCHANGED <<rows, history>> /\ disturbed' = disturbed \cup {req[r].thing}
  BY DEF Fail, Busy
<1>2. UNCHANGED <<manager, goals, pips, feedback, checkins, cycles, tasks, responses, selected, asked>>
  BY <1>1 DEF rows, history
<1>3. QED
  BY <1>1, <1>2, FinishMoves, UnwrittenTypes

LEMMA ReassignTypes ==
  ASSUME TInv, NEW e \in Moving, NEW m \in Staff \cup {None}, Reassign(e, m)
  PROVE  TInv' /\ UNCHANGED <<goals, pips, feedback, checkins, cycles, tasks, responses, history, pc, req, disturbed>>
<1>1. /\ manager' = [manager EXCEPT ![e] = m]
      /\ UNCHANGED <<goals, pips, feedback, checkins, cycles, tasks, responses, history, pc, req, disturbed>>
  BY DEF Reassign
<1>2. manager' \in [Staff -> Staff \cup {None}]
  BY <1>1 DEF TInv
<1>3. selected' = selected /\ asked' = asked
  BY <1>1 DEF history
<1>4. Onward /\ Kept
  BY <1>1 DEF Onward, Kept
<1>5. \A q \in Requests : KnowOK(q)'
  BY <1>1, <1>4, KnowFrame
<1>6. GoalsOK' /\ OthersOK' /\ CyclesOK'
  BY <1>1, <1>3, <1>4, GoalsFrame, OthersFrame, CyclesFrame
<1>7. QED
  BY <1>1, <1>2, <1>5, <1>6 DEF TInv

-----------------------------------------------------------------------------
(* The types are an invariant *)

LEMMA NextCases ==
  ASSUME [Next]_vars
  PROVE  \/ UNCHANGED vars
         \/ \E r \in Requests, a \in Actors, e \in Staff, m \in Staff \cup {None}, dated \in BOOLEAN :
              CreateGoal(r, a, e, m, dated)
         \/ \E r \in Requests, a \in Actors, e \in Staff, m \in Staff \cup {None} :
              CreatePIP(r, a, e, m) \/ CreateCheckin(r, a, e, m) \/ CreateFeedback(r, a, e)
         \/ \E r \in Requests, a \in Actors, g \in DOMAIN goals, sent \in SUBSET Columns : UpdateGoal(r, a, g, sent)
         \/ \E r \in Requests, a \in Actors, p \in DOMAIN pips, status \in {"active", "closed"} : UpdatePIP(r, a, p, status)
         \/ \E r \in Requests, a \in Actors, selection \in SUBSET Staff, hr \in BOOLEAN : CreateReviewCycle(r, a, selection, hr)
         \/ \E r \in Requests, a \in Actors, c \in DOMAIN cycles : FinalizeReviewCycle(r, a, c)
         \/ \E r \in Requests, a \in Actors, t \in DOMAIN tasks, ro \in Answers : SubmitReviewResponse(r, a, t, ro)
         \/ \E r \in Requests : \/ WriteGoal(r) \/ SelectEmployees(r) \/ CloseCycle(r) \/ CompleteTasks(r)
                                \/ CreateReviewResponse(r) \/ AdvanceTask(r) \/ Fail(r)
         \/ \E r \in Requests, e \in Staff : CreateReviewTask(r, e) \/ TaskFails(r, e)
         \/ \E e \in Moving, m \in Staff \cup {None} : Reassign(e, m)
<1>1. ASSUME NEW r \in Requests, NEW a \in Actors, Begin(r, a)
      PROVE  \/ \E e \in Staff, m \in Staff \cup {None}, dated \in BOOLEAN : CreateGoal(r, a, e, m, dated)
             \/ \E e \in Staff, m \in Staff \cup {None} :
                  CreatePIP(r, a, e, m) \/ CreateCheckin(r, a, e, m) \/ CreateFeedback(r, a, e)
             \/ \E g \in DOMAIN goals, sent \in SUBSET Columns : UpdateGoal(r, a, g, sent)
             \/ \E p \in DOMAIN pips, status \in {"active", "closed"} : UpdatePIP(r, a, p, status)
             \/ \E selection \in SUBSET Staff, hr \in BOOLEAN : CreateReviewCycle(r, a, selection, hr)
             \/ \E c \in DOMAIN cycles : FinalizeReviewCycle(r, a, c)
             \/ \E t \in DOMAIN tasks, ro \in Answers : SubmitReviewResponse(r, a, t, ro)
  <2>1. ASSUME NEW e \in Staff, CreateFeedback(r, a, e)
        PROVE  \E f \in Staff, m \in Staff \cup {None} :
                 CreatePIP(r, a, f, m) \/ CreateCheckin(r, a, f, m) \/ CreateFeedback(r, a, f)
    BY <2>1
  <2>2. QED
    BY <1>1, <2>1 DEF Begin, Columns, Answers
<1>2. CASE Next
  <2>1. CASE \E r \in Requests : (\E a \in Actors : Begin(r, a)) \/ Continue(r) \/ Fail(r)
    <3>1. PICK r \in Requests : (\E a \in Actors : Begin(r, a)) \/ Continue(r) \/ Fail(r)
      BY <2>1
    <3>2. CASE Continue(r)
      BY <3>2 DEF Continue
    <3>3. CASE Fail(r)
      BY <3>3
    <3>4. ASSUME NEW a \in Actors, Begin(r, a)
          PROVE  \/ \E e \in Staff, m \in Staff \cup {None}, dated \in BOOLEAN : CreateGoal(r, a, e, m, dated)
                 \/ \E e \in Staff, m \in Staff \cup {None} :
                      CreatePIP(r, a, e, m) \/ CreateCheckin(r, a, e, m) \/ CreateFeedback(r, a, e)
                 \/ \E g \in DOMAIN goals, sent \in SUBSET Columns : UpdateGoal(r, a, g, sent)
                 \/ \E p \in DOMAIN pips, status \in {"active", "closed"} : UpdatePIP(r, a, p, status)
                 \/ \E selection \in SUBSET Staff, hr \in BOOLEAN : CreateReviewCycle(r, a, selection, hr)
                 \/ \E c \in DOMAIN cycles : FinalizeReviewCycle(r, a, c)
                 \/ \E t \in DOMAIN tasks, ro \in Answers : SubmitReviewResponse(r, a, t, ro)
      BY <1>1, <3>4
    <3>5. QED
      BY <3>1, <3>2, <3>3, <3>4
  <2>2. QED
    BY <1>2, <2>1 DEF Next
<1>3. QED
  BY <1>2

LEMMA StutterTypes ==
  ASSUME TInv, UNCHANGED vars
  PROVE  TInv'
<1>1. UNCHANGED <<manager, goals, pips, feedback, checkins, cycles, tasks, responses, pc, req, selected, asked>>
  BY DEF vars, rows, history
<1>2. Onward /\ Kept
  BY <1>1 DEF Onward, Kept
<1>3. GoalsOK' /\ OthersOK' /\ CyclesOK'
  BY <1>1, <1>2, GoalsFrame, OthersFrame, CyclesFrame
<1>4. \A q \in Requests : KnowOK(q)'
  BY <1>1, <1>2, KnowFrame
<1>5. QED
  BY <1>1, <1>3, <1>4 DEF TInv

LEMMA TypeStep ==
  ASSUME TInv, [Next]_vars
  PROVE  TInv'
<1>1. ASSUME NEW r \in Requests
      PROVE  /\ WriteGoal(r) \/ SelectEmployees(r) \/ CloseCycle(r) \/ CompleteTasks(r) => TInv'
             /\ CreateReviewResponse(r) \/ AdvanceTask(r) \/ Fail(r) => TInv'
             /\ \A e \in Staff : CreateReviewTask(r, e) \/ TaskFails(r, e) => TInv'
  BY WriteGoalTypes, SelectTypes, CloseTypes, CompleteTypes, RespondTypes, AdvanceTypes, FailTypes,
     CreateTaskTypes, TaskFailsTypes
<1>2. ASSUME NEW r \in Requests, NEW a \in Actors
      PROVE  /\ \A e \in Staff, m \in Staff \cup {None}, dated \in BOOLEAN : CreateGoal(r, a, e, m, dated) => TInv'
             /\ \A e \in Staff, m \in Staff \cup {None} :
                  CreatePIP(r, a, e, m) \/ CreateCheckin(r, a, e, m) \/ CreateFeedback(r, a, e) => TInv'
             /\ \A g \in DOMAIN goals, sent \in SUBSET Columns : UpdateGoal(r, a, g, sent) => TInv'
             /\ \A p \in DOMAIN pips, status \in {"active", "closed"} : UpdatePIP(r, a, p, status) => TInv'
             /\ \A selection \in SUBSET Staff, hr \in BOOLEAN : CreateReviewCycle(r, a, selection, hr) => TInv'
             /\ \A c \in DOMAIN cycles : FinalizeReviewCycle(r, a, c) => TInv'
             /\ \A t \in DOMAIN tasks, ro \in Answers : SubmitReviewResponse(r, a, t, ro) => TInv'
  <2>1. \A e \in Staff, m \in Staff \cup {None}, dated \in BOOLEAN : CreateGoal(r, a, e, m, dated) => TInv'
    BY CreateGoalTypes
  <2>2. \A e \in Staff, m \in Staff \cup {None} :
          CreatePIP(r, a, e, m) \/ CreateCheckin(r, a, e, m) \/ CreateFeedback(r, a, e) => TInv'
    BY CreatePIPTypes, CheckinTypes, FeedbackTypes
  <2>3. \A g \in DOMAIN goals, sent \in SUBSET Columns : UpdateGoal(r, a, g, sent) => TInv'
    BY UpdateGoalTypes
  <2>4. \A p \in DOMAIN pips, status \in {"active", "closed"} : UpdatePIP(r, a, p, status) => TInv'
    BY UpdatePIPTypes
  <2>5. \A selection \in SUBSET Staff, hr \in BOOLEAN : CreateReviewCycle(r, a, selection, hr) => TInv'
    BY CreateCycleTypes
  <2>6. \A c \in DOMAIN cycles : FinalizeReviewCycle(r, a, c) => TInv'
    BY FinalizeTypes
  <2>7. \A t \in DOMAIN tasks, ro \in Answers : SubmitReviewResponse(r, a, t, ro) => TInv'
    BY SubmitTypes
  <2>8. QED
    BY <2>1, <2>2, <2>3, <2>4, <2>5, <2>6, <2>7
<1>3. \A e \in Moving, m \in Staff \cup {None} : Reassign(e, m) => TInv'
  BY ReassignTypes
<1>4. QED
  BY <1>1, <1>2, <1>3, StutterTypes, NextCases

LEMMA TypeInit == Init => TInv
<1>1. SUFFICES ASSUME Init PROVE TInv
  OBVIOUS
<1>2. FirstManager \in [Staff -> Staff \cup {None}] /\ Accounts \subseteq Staff
  BY PerformanceAssumption
<1>3. /\ manager = FirstManager /\ goals = <<>> /\ pips = <<>> /\ feedback = {} /\ checkins = {} /\ responses = {} /\ asked = <<>>
      /\ cycles = [c \in {Past} |-> [status |-> "active", hr |-> HRRequired]]
      /\ selected = [c \in {Past} |-> {e \in Accounts : manager[e] # None}]
      /\ tasks = [t \in {Past} \X selected[Past] |-> [manager |-> manager[t[2]], status |-> "self_pending"]]
      /\ pc = [r \in Requests |-> "new"] /\ req = [r \in Requests |-> NoReq]
  BY <1>1 DEF Init
<1>4. GoalsOK /\ OthersOK
  BY <1>3 DEF GoalsOK, OthersOK
<1>5. CyclesOK
  <2>1. selected[Past] = {e \in Accounts : manager[e] # None} /\ selected[Past] \subseteq Staff
    BY <1>2, <1>3
  <2>2. cycles[Past] \in CycleType
    BY <1>3, Known DEF CycleType
  <2>3. \A t \in DOMAIN tasks : t \in {Past} \X Staff /\ tasks[t] \in TaskType
    <3>1. SUFFICES ASSUME NEW t \in {Past} \X selected[Past]
                   PROVE  t \in {Past} \X Staff /\ tasks[t] \in TaskType
      BY <1>3
    <3>2. t[2] \in Staff /\ manager[t[2]] \in Staff
      BY <1>2, <1>3, <2>1
    <3>3. tasks[t] = [manager |-> manager[t[2]], status |-> "self_pending"]
      BY <1>3
    <3>4. QED
      BY <2>1, <3>2, <3>3 DEF TaskType, Statuses
  <2>4. QED
    BY <1>3, <2>1, <2>2, <2>3, Known DEF CyclesOK
<1>6. \A r \in Requests : KnowOK(r)
  BY <1>3 DEF KnowOK
<1>7. pc \in [Requests -> Labels]
  BY <1>3 DEF Labels
<1>8. QED
  BY <1>2, <1>3, <1>4, <1>5, <1>6, <1>7 DEF TInv

LEMMA Typed == Spec => []TInv
<1>1. TInv /\ [Next]_vars => TInv'
  BY TypeStep
<1>2. QED
  BY <1>1, TypeInit, PTL DEF Spec

(* Rows and what requests know keep their types: no goal and no task is without a *)
(* manager, and every response is to a task that there is.                        *)
THEOREM TypeCorrect == Spec => []TypeOK
<1>1. TInv => TypeOK
  <2>1. SUFFICES ASSUME TInv PROVE TypeOK
    OBVIOUS
  <2>2. \A g \in DOMAIN goals : g \in Ids /\ goals[g].manager \in Staff /\ goals[g].employee \in Staff
    BY <2>1, Known DEF TInv, GoalsOK, GoalType
  <2>3. \A p \in DOMAIN pips : pips[p].employee \in Staff /\ pips[p].status \in {"active", "closed"}
    BY <2>1 DEF TInv, OthersOK, PIPType
  <2>4. /\ \A f \in feedback : f.to \in Staff /\ f.from \in Actors
        /\ \A x \in checkins : x.employee \in Staff /\ x.manager \in Staff \cup {None}
    BY <2>1 DEF TInv, OthersOK
  <2>5. \A c \in DOMAIN cycles : c \in Ids /\ cycles[c].status \in {"draft", "active", "closed"}
    BY <2>1 DEF TInv, CyclesOK, CycleType
  <2>6. \A t \in DOMAIN tasks : t[1] \in DOMAIN cycles /\ tasks[t].manager \in Staff /\ tasks[t].status \in Statuses
    BY <2>1 DEF TInv, CyclesOK, TaskType
  <2>7. \A x \in responses : x.task \in DOMAIN tasks
    BY <2>1 DEF TInv, CyclesOK
  <2>8. ASSUME NEW r \in Requests PROVE req[r].thing \in Ids \cup {None}
    <3>1. KnowOK(r) /\ pc[r] \in Labels
      BY <2>1 DEF TInv
    <3>2. CASE pc[r] \in {"new", "done"}
      BY <3>1, <3>2 DEF KnowOK, NoReq
    <3>3. CASE pc[r] = "goal"
      BY <2>2, <3>1, <3>3 DEF KnowOK
    <3>4. CASE pc[r] \notin {"new", "done", "goal"}
      BY <2>5, <3>1, <3>4 DEF KnowOK
    <3>5. QED
      BY <3>2, <3>3, <3>4
  <2>9. QED
    BY <2>1, <2>2, <2>3, <2>4, <2>5, <2>6, <2>7, <2>8 DEF TypeOK, TInv
<1>2. QED
  BY <1>1, Typed, PTL


-----------------------------------------------------------------------------
(* What users are shown *)

(* What the filter of the lists lets through. *)
LEMMA Listed ==
  ASSUME NEW a \in Actors, NEW row,
         RoleOf[a] = "Employee" => Self(a) = row.employee /\ row.employee # None,
         RoleOf[a] = "Manager" => Self(a) # None /\ Self(a) \in {row.manager, row.employee}
  PROVE  Shown(a) /\ Of(row, EmployeeID(a), ManagerEmployeeID(a))
BY DEF Shown, Of, EmployeeID, ManagerEmployeeID

(* Whoever may change a goal or a plan, or answer a task, finds it in his list, and *)
(* an author what he wrote, although the employee may have another manager by now.  *)
THEOREM WritersShown == Spec => []WriterSees
<1>1. TInv => WriterSees
  <2>1. SUFFICES ASSUME TInv, NEW a \in Actors
                 PROVE  /\ \A g \in DOMAIN goals : MayUpdateGoal(a, goals[g]) \/ goals[g].by = a => g \in ListGoals(a) \/ Undated(a)
                        /\ \A p \in DOMAIN pips : MayUpdatePIP(a, p) \/ pips[p].by = a => p \in ListPIPs(a)
                        /\ \A t \in DOMAIN tasks : MaySubmit(a, t) => t \in ListReviewTasks(a)
                        /\ \A f \in feedback : f.from = a => f \in ListFeedback(a)
                        /\ \A x \in checkins : Self(a) = x.employee => x \in ListCheckins(a)
    BY DEF WriterSees
  <2>2. ASSUME NEW g \in DOMAIN goals, MayUpdateGoal(a, goals[g]) \/ goals[g].by = a, ~Undated(a)
        PROVE  g \in ListGoals(a)
    <3>1. /\ goals[g].employee \in Staff /\ goals[g].manager \in Staff
          /\ AuthorOK(goals[g].by, goals[g].employee, goals[g].manager)
      BY <2>1 DEF TInv, GoalsOK, GoalType
    <3>2. /\ RoleOf[a] = "Employee" => Self(a) = goals[g].employee
          /\ RoleOf[a] = "Manager" => Self(a) \in {goals[g].manager, goals[g].employee}
      BY <2>2, <3>1 DEF MayUpdateGoal, AuthorOK
    <3>3. Shown(a) /\ Of(goals[g], EmployeeID(a), ManagerEmployeeID(a))
      BY <3>1, <3>2, Known, Listed
    <3>4. QED
      BY <2>2, <3>3 DEF ListGoals, GoalsOf
  <2>3. ASSUME NEW p \in DOMAIN pips, MayUpdatePIP(a, p) \/ pips[p].by = a
        PROVE  p \in ListPIPs(a)
    <3>1. /\ pips[p].employee \in Staff /\ RoleOf[pips[p].by] # "Employee"
          /\ AuthorOK(pips[p].by, pips[p].employee, pips[p].manager)
      BY <2>1 DEF TInv, OthersOK, PIPType
    <3>2. /\ RoleOf[a] = "Employee" => Self(a) = pips[p].employee
          /\ RoleOf[a] = "Manager" => Self(a) # None /\ Self(a) \in {pips[p].manager, pips[p].employee}
      BY <2>3, <3>1 DEF MayUpdatePIP, AuthorOK
    <3>3. Shown(a) /\ Of(pips[p], EmployeeID(a), ManagerEmployeeID(a))
      BY <3>1, <3>2, Known, Listed
    <3>4. QED
      BY <3>3 DEF ListPIPs, PIPsOf
  <2>4. ASSUME NEW t \in DOMAIN tasks, MaySubmit(a, t)
        PROVE  t \in ListReviewTasks(a)
    <3> DEFINE row == [employee |-> t[2], manager |-> tasks[t].manager]
    <3>1. t[2] \in Staff
      BY <2>1 DEF TInv, CyclesOK
    <3>2. /\ RoleOf[a] = "Employee" => Self(a) = row.employee
          /\ RoleOf[a] = "Manager" => Self(a) # None /\ Self(a) \in {row.manager, row.employee}
      BY <2>4 DEF MaySubmit
    <3>3. row.employee # None
      BY <3>1, Known
    <3>4. Shown(a) /\ Of(row, EmployeeID(a), ManagerEmployeeID(a))
      <4> HIDE DEF row
      <4>1. QED
        BY <3>2, <3>3, Listed
    <3>5. QED
      BY <3>4 DEF ListReviewTasks, ReviewTasksOf
  <2>5. ASSUME NEW f \in feedback, f.from = a
        PROVE  f \in ListFeedback(a)
    <3>1. /\ RoleOf[a] = "Employee" => Self(a) = f.to /\ Self(a) # None
          /\ RoleOf[a] = "Manager" => Self(a) # None
      BY <2>1, <2>5, Known DEF TInv, OthersOK
    <3>2. Shown(a)
      BY <3>1 DEF Shown
    <3>3. f \in FeedbackOf(EmployeeID(a), ManagerEmployeeID(a), a)
      BY <2>5, <3>1 DEF FeedbackOf, EmployeeID, ManagerEmployeeID
    <3>4. QED
      BY <3>2, <3>3 DEF ListFeedback
  <2>6. ASSUME NEW x \in checkins, Self(a) = x.employee
        PROVE  x \in ListCheckins(a)
    <3>1. x.employee # None
      BY <2>1, Known DEF TInv, OthersOK
    <3>2. Shown(a) /\ Of(x, EmployeeID(a), ManagerEmployeeID(a))
      BY <2>6, <3>1, Listed
    <3>3. QED
      BY <3>2 DEF ListCheckins, CheckinsOf
  <2>7. QED
    BY <2>2, <2>3, <2>4, <2>5, <2>6
<1>2. QED
  BY <1>1, Typed, PTL


-----------------------------------------------------------------------------
(* One request at a time *)

(* A request that has been busy with the same thing before the step stays alone. *)
LEMMA LoneStays ==
  ASSUME TInv, LoneInv, NEW r \in Requests, Elsewhere(r), disturbed \subseteq disturbed',
         Busy(r)' => Busy(r) /\ req'[r].thing = req[r].thing
  PROVE  LoneInv'
<1>1. \A q \in Requests : Busy(q)' => Busy(q) /\ req'[q].thing = req[q].thing
  BY DEF Elsewhere, Busy
<1>2. QED
  BY <1>1 DEF LoneInv

LEMMA LoneBegins ==
  ASSUME TInv, LoneInv, NEW r \in Requests, Elsewhere(r), disturbed \subseteq disturbed',
         req'[r].thing \notin disturbed' => \A q \in Requests \ {r} : Busy(q) => req[q].thing # req'[r].thing
  PROVE  LoneInv'
<1>1. \A q \in Requests \ {r} : (Busy(q)' <=> Busy(q)) /\ req'[q] = req[q]
  BY DEF Elsewhere, Busy
<1>2. QED
  BY <1>1 DEF LoneInv

(* What requests are busy with is there. *)
LEMMA ThingIsThere ==
  ASSUME TInv, NEW q \in Requests, Busy(q)
  PROVE  req[q].thing \in DOMAIN goals \cup DOMAIN cycles
<1>1. KnowOK(q)
  BY DEF TInv
<1>2. QED
  BY <1>1 DEF KnowOK, Busy

(* Steps in which no request begins or goes on with another thing. *)
LEMMA FinishAlone ==
  ASSUME TInv, LoneInv, NEW r \in Requests, Finish(r), disturbed' = disturbed
  PROVE  LoneInv'
<1>1. Elsewhere(r) /\ ~Busy(r)'
  BY FinishMoves DEF Busy
<1>2. QED
  BY <1>1, LoneStays

LEMMA LoneStep ==
  ASSUME TInv, LoneInv, [Next]_vars
  PROVE  LoneInv'
<1>1. CASE \/ UNCHANGED vars
           \/ \E e \in Moving, m \in Staff \cup {None} : Reassign(e, m)
  <2>1. UNCHANGED <<pc, req, disturbed>>
    BY <1>1, ReassignTypes DEF vars
  <2>2. QED
    BY <2>1 DEF LoneInv, Busy
<1>2. ASSUME NEW r \in Requests, NEW a \in Actors, NEW e \in Staff, NEW m \in Staff \cup {None}, NEW dated \in BOOLEAN,
             CreateGoal(r, a, e, m, dated) \/ CreatePIP(r, a, e, m) \/ CreateCheckin(r, a, e, m) \/ CreateFeedback(r, a, e)
      PROVE  LoneInv'
  <2>1. Finish(r) /\ disturbed' = disturbed
    BY <1>2 DEF CreateGoal, CreatePIP, CreateCheckin, CreateFeedback
  <2>2. QED
    BY <2>1, FinishAlone
<1>3. ASSUME NEW r \in Requests, NEW a \in Actors, NEW p \in DOMAIN pips, NEW status, UpdatePIP(r, a, p, status)
      PROVE  LoneInv'
  BY <1>3, FinishAlone DEF UpdatePIP
<1>4. ASSUME NEW r \in Requests, NEW a \in Actors, NEW g \in DOMAIN goals, NEW sent \in SUBSET Columns, UpdateGoal(r, a, g, sent)
      PROVE  LoneInv'
  <2> DEFINE knows == [thing |-> g, row |-> Merged(goals[g], a, sent, r), takes |-> Takes(a, sent)]
  <2>1. BeginOn(r, g, "goal", knows) /\ req'[r].thing = g /\ "goal" \in Labels \ {"new", "done"}
    BY <1>4, UpdateGoalTypes DEF Labels
  <2> HIDE DEF knows
  <2>2. QED
    BY <2>1, BeginOnMoves, LoneBegins
<1>5. ASSUME NEW r \in Requests, NEW a \in Actors, NEW selection \in SUBSET Staff, NEW hr \in BOOLEAN,
             CreateReviewCycle(r, a, selection, hr)
      PROVE  LoneInv'
  <2>1. Elsewhere(r) /\ req'[r].thing = r /\ disturbed' = disturbed /\ r \notin DOMAIN goals \cup DOMAIN cycles
    <3>1. CycleCreated(r, selection) /\ r \notin DOMAIN goals
      BY <1>5, CreateCycleTypes, StartIsNew DEF CreateReviewCycle
    <3>2. QED
      BY <3>1 DEF CycleCreated
  <2>2. \A q \in Requests \ {r} : Busy(q) => req[q].thing # r
    BY <2>1, ThingIsThere
  <2>3. QED
    BY <2>1, <2>2, LoneBegins
<1>6. ASSUME NEW r \in Requests, NEW a \in Actors, NEW c \in DOMAIN cycles, FinalizeReviewCycle(r, a, c)
      PROVE  LoneInv'
  <2> DEFINE knows == [thing |-> c]
  <2>1. BeginOn(r, c, "close", knows) /\ req'[r].thing = c /\ "close" \in Labels \ {"new", "done"}
    BY <1>6, FinalizeTypes DEF Labels
  <2> HIDE DEF knows
  <2>2. QED
    BY <2>1, BeginOnMoves, LoneBegins
<1>7. ASSUME NEW r \in Requests, NEW a \in Actors, NEW t \in DOMAIN tasks, NEW ro \in Answers, SubmitReviewResponse(r, a, t, ro)
      PROVE  LoneInv'
  <2> DEFINE c == t[1]
             knows == [thing |-> c, task |-> t, role |-> ro, context |-> ReviewTaskContext(t)]
  <2>1. BeginOn(r, c, "respond", knows) /\ req'[r].thing = c /\ "respond" \in Labels \ {"new", "done"}
    BY <1>7, SubmitTypes DEF Labels, SubmitReviewResponse
  <2> HIDE DEF c, knows
  <2>2. QED
    BY <2>1, BeginOnMoves, LoneBegins
<1>8. ASSUME NEW r \in Requests,
             \/ WriteGoal(r) \/ SelectEmployees(r) \/ CloseCycle(r) \/ CompleteTasks(r)
             \/ CreateReviewResponse(r) \/ AdvanceTask(r) \/ Fail(r)
             \/ \E e \in Staff : CreateReviewTask(r, e) \/ TaskFails(r, e)
      PROVE  LoneInv'
  <2>1. CASE WriteGoal(r) \/ CompleteTasks(r) \/ AdvanceTask(r)
    BY <2>1, FinishAlone DEF WriteGoal, CompleteTasks, AdvanceTask
  <2>2. CASE SelectEmployees(r)
    BY <2>2, SelectTypes, LoneStays DEF Selected, Busy
  <2>3. CASE CloseCycle(r) \/ CreateReviewResponse(r)
    BY <2>3, CloseTypes, RespondTypes, LoneStays DEF Busy
  <2>4. CASE Fail(r)
    BY <2>4, FailTypes, LoneStays DEF Busy
  <2>5. ASSUME NEW e \in Staff, CreateReviewTask(r, e) \/ TaskFails(r, e)
        PROVE  LoneInv'
    BY <2>5, CreateTaskTypes, TaskFailsTypes, LoneStays DEF Busy, TaskCreated
  <2>6. QED
    BY <1>8, <2>1, <2>2, <2>3, <2>4, <2>5
<1>9. QED
  BY <1>1, <1>2, <1>3, <1>4, <1>5, <1>6, <1>7, <1>8, NextCases

LEMMA Lone == Spec => []LoneInv
<1>1. Init => LoneInv
  BY DEF Init, LoneInv, Busy
<1>2. TInv /\ LoneInv /\ [Next]_vars => LoneInv'
  BY LoneStep
<1>3. QED
  BY <1>1, <1>2, Typed, PTL DEF Spec


-----------------------------------------------------------------------------
(* Answers in turn *)

(* Cycles that are there keep whether HR is asked, and once closed stay closed. *)
CyclesStay ==
  \A c \in DOMAIN cycles : /\ cycles'[c].hr = cycles[c].hr
                           /\ cycles[c].status = "closed" => cycles'[c].status = "closed"

LEMMA AnswersStay ==
  ASSUME TInv, responses \subseteq responses'
  PROVE  \A t, ro : (Answered(t, ro) => Answered(t, ro)') /\ (Before(t, ro) => Before(t, ro)')
BY DEF Answered, Before

LEMMA AnswersKept ==
  ASSUME responses' = responses
  PROVE  \A t, ro : (Answered(t, ro)' <=> Answered(t, ro)) /\ (Before(t, ro)' <=> Before(t, ro))
BY DEF Answered, Before

(* A task that waits for what it waited for. *)
LEMMA StageStays ==
  ASSUME TInv, NEW t \in DOMAIN tasks, StageOK(t), CyclesStay, responses \subseteq responses',
         tasks'[t].status = tasks[t].status, \A ro \in Answers : Answered(t, ro)' => Before(t, ro)'
  PROVE  StageOK(t)'
<1>1. t[1] \in DOMAIN cycles
  BY DEF TInv, CyclesOK
<1>2. \A ro : Answered(t, ro) => Answered(t, ro)'
  BY AnswersStay
<1>3. /\ tasks'[t].status = "manager_pending" => Answered(t, "self")'
      /\ tasks'[t].status = "hr_pending" => Answered(t, "manager")'
  BY <1>2 DEF StageOK
<1>4. tasks'[t].status = "completed" =>
        \/ cycles'[t[1]].status = "closed"
        \/ Answered(t, "self")' /\ Answered(t, "manager")' /\ (cycles'[t[1]].hr => Answered(t, "hr")')
  BY <1>1, <1>2 DEF StageOK, CyclesStay
<1>5. QED
  BY <1>3, <1>4 DEF StageOK

(* Steps that answer nothing: a task waits as before, is new, or its cycle is closed. *)
LEMMA StageQuiet ==
  ASSUME TInv, StageInv, CyclesStay, claimed' = claimed, responses' = responses,
         \A r \in Requests : pc'[r] \in {"respond", "advance"} => pc'[r] = pc[r] /\ req'[r] = req[r],
         \A t \in DOMAIN tasks' :
           \/ t \in DOMAIN tasks /\ tasks'[t].status = tasks[t].status
           \/ tasks'[t].status = "self_pending"
           \/ t \in DOMAIN tasks /\ tasks'[t].status = "completed" /\ cycles'[t[1]].status = "closed"
  PROVE  StageInv'
<1>1. \A t, ro : (Answered(t, ro)' <=> Answered(t, ro)) /\ (Before(t, ro)' <=> Before(t, ro))
  BY AnswersKept
<1>2. ASSUME NEW t \in DOMAIN tasks' \ claimed'
      PROVE  StageOK(t)'
  <2>1. \A ro \in Answers : Answered(t, ro)' => Before(t, ro)'
    <3>1. CASE t \in DOMAIN tasks
      BY <1>1, <3>1 DEF StageInv, StageOK
    <3>2. CASE t \notin DOMAIN tasks
      BY <1>1, <3>2 DEF TInv, CyclesOK, Answered
    <3>3. QED
      BY <3>1, <3>2
  <2>2. CASE t \in DOMAIN tasks /\ tasks'[t].status = tasks[t].status
    BY <2>1, <2>2, StageStays DEF StageInv
  <2>3. CASE tasks'[t].status = "self_pending"
    BY <2>1, <2>3 DEF StageOK
  <2>4. CASE tasks'[t].status = "completed" /\ cycles'[t[1]].status = "closed"
    BY <2>1, <2>4 DEF StageOK
  <2>5. QED
    BY <2>2, <2>3, <2>4
<1>3. ASSUME NEW r \in Requests
      PROVE  AnswerOK(r)'
  <2>1. AnswerOK(r)
    BY DEF StageInv
  <2>2. QED
    BY <1>1, <2>1 DEF AnswerOK, Before, Answered
<1>4. QED
  BY <1>2, <1>3 DEF StageInv


LEMMA StageSubmit ==
  ASSUME TInv, StageInv, NEW r \in Requests, NEW a \in Actors, NEW t \in DOMAIN tasks, NEW ro \in Answers,
         SubmitReviewResponse(r, a, t, ro)
  PROVE  StageInv'
<1>1. /\ MaySubmit(a, t) /\ pc'[r] = "respond" /\ req'[r].task = t /\ req'[r].role = ro /\ Elsewhere(r)
      /\ claimed' = IF ro # DefaultRole(a) \/ RoleOf[a] \notin Answering THEN claimed \cup {t} ELSE claimed
      /\ UNCHANGED <<tasks, cycles, responses>>
  BY SubmitTypes DEF SubmitReviewResponse, rows
<1>2. claimed \subseteq claimed'
  BY <1>1
<1>3. ASSUME NEW u \in DOMAIN tasks' \ claimed'
      PROVE  StageOK(u)'
  <2>1. StageOK(u)
    BY <1>1, <1>2 DEF StageInv
  <2>2. QED
    BY <1>1, <2>1 DEF StageOK, Before, Answered
<1>4. ASSUME t \notin claimed'
      PROVE  Before(t, ro)
  <2>1. RoleOf[a] \in Answering /\ ro = DefaultRole(a) /\ StageOK(t)
    BY <1>1, <1>2, <1>4 DEF StageInv
  <2>2. CASE RoleOf[a] = "Employee"
    BY <2>1, <2>2 DEF DefaultRole, Before
  <2>3. CASE RoleOf[a] = "Manager"
    BY <1>1, <2>1, <2>3 DEF MaySubmit, StageOK, DefaultRole, Before
  <2>4. CASE RoleOf[a] = "HR"
    BY <1>1, <2>1, <2>4 DEF MaySubmit, StageOK, DefaultRole, Before
  <2>5. QED
    BY <2>1, <2>2, <2>3, <2>4 DEF Answering
<1>5. ASSUME NEW q \in Requests
      PROVE  AnswerOK(q)'
  <2>1. CASE q = r
    BY <1>1, <1>4, <2>1 DEF AnswerOK, Before, Answered
  <2>2. CASE q # r
    <3>1. AnswerOK(q) /\ pc'[q] = pc[q] /\ req'[q] = req[q]
      BY <1>1, <2>2 DEF StageInv, Elsewhere
    <3>2. QED
      BY <1>1, <1>2, <3>1 DEF AnswerOK, Before, Answered
  <2>3. QED
    BY <2>1, <2>2
<1>6. QED
  BY <1>3, <1>5 DEF StageInv

LEMMA StageRespond ==
  ASSUME TInv, StageInv, NEW r \in Requests, CreateReviewResponse(r)
  PROVE  StageInv'
<1> DEFINE task == req[r].task
           answer == [id |-> r, task |-> task, role |-> req[r].role]
<1>1. /\ pc[r] = "respond" /\ pc'[r] = "advance" /\ req'[r] = req[r] /\ Elsewhere(r)
      /\ responses' = responses \cup {answer} /\ UNCHANGED <<cycles, tasks, claimed>>
  BY RespondTypes DEF history
<1>2. answer.task = task /\ answer.role = req[r].role
  OBVIOUS
<1> HIDE DEF answer
<1>3. CyclesStay /\ responses \subseteq responses'
  BY <1>1 DEF CyclesStay
<1>4. /\ \A t, ro : (Answered(t, ro) => Answered(t, ro)') /\ (Before(t, ro) => Before(t, ro)')
      /\ \A t, ro : Answered(t, ro)' => Answered(t, ro) \/ (t = task /\ ro = req[r].role)
      /\ Answered(task, req[r].role)'
  <2>1. \A t, ro : Answered(t, ro)' => Answered(t, ro) \/ (t = task /\ ro = req[r].role)
    BY <1>1, <1>2 DEF Answered
  <2>2. Answered(task, req[r].role)'
    BY <1>1, <1>2 DEF Answered
  <2>3. QED
    BY <1>3, <2>1, <2>2, AnswersStay
<1>5. task \notin claimed => Before(task, req[r].role)
  BY <1>1 DEF StageInv, AnswerOK
<1>6. ASSUME NEW t \in DOMAIN tasks' \ claimed'
      PROVE  StageOK(t)'
  <2>1. StageOK(t) /\ t \in DOMAIN tasks /\ t \notin claimed
    BY <1>1 DEF StageInv
  <2>2. ASSUME NEW ro \in Answers, Answered(t, ro)'
        PROVE  Before(t, ro)'
    <3>1. CASE Answered(t, ro)
      BY <1>4, <2>1, <3>1 DEF StageOK
    <3>2. CASE t = task /\ ro = req[r].role
      BY <1>4, <1>5, <2>1, <3>2
    <3>3. QED
      BY <1>4, <2>2, <3>1, <3>2
  <2>3. QED
    BY <1>1, <1>3, <2>1, <2>2, StageStays
<1>7. ASSUME NEW q \in Requests
      PROVE  AnswerOK(q)'
  <2>1. AnswerOK(q) /\ req'[q] = req[q]
    BY <1>1 DEF StageInv, Elsewhere
  <2>2. CASE q = r
    BY <1>1, <1>4, <1>5, <2>2 DEF AnswerOK, Before, Answered
  <2>3. CASE q # r
    BY <1>1, <1>3, <2>1, <2>3 DEF AnswerOK, Before, Answered, Elsewhere
  <2>4. QED
    BY <2>2, <2>3
<1>8. QED
  BY <1>6, <1>7 DEF StageInv

LEMMA StageAdvance ==
  ASSUME TInv, StageInv, NEW r \in Requests, AdvanceTask(r)
  PROVE  StageInv'
<1> DEFINE task == req[r].task
           ro == req[r].role
           context == req[r].context
<1>1. /\ pc[r] = "advance" /\ pc'[r] = "done" /\ Elsewhere(r) /\ task \in DOMAIN tasks /\ task[1] = req[r].thing /\ ro \in Answers
      /\ context.hr = cycles[req[r].thing].hr /\ context.manager # None /\ DOMAIN tasks' = DOMAIN tasks
      /\ \A t \in DOMAIN tasks : IF t = task THEN tasks'[t].status = NextStatus(ro, context) ELSE tasks'[t] = tasks[t]
      /\ UNCHANGED <<cycles, responses, claimed>>
  BY AdvanceTypes DEF history
<1>2. task \notin claimed => Answered(task, ro) /\ Before(task, ro)
  BY <1>1 DEF StageInv, AnswerOK
<1> HIDE DEF task, ro, context
<1>3. CyclesStay /\ \A t, x : (Answered(t, x)' <=> Answered(t, x)) /\ (Before(t, x)' <=> Before(t, x))
  BY <1>1, AnswersKept DEF CyclesStay
<1>4. ASSUME NEW t \in DOMAIN tasks' \ claimed'
      PROVE  StageOK(t)'
  <2>1. StageOK(t) /\ t \in DOMAIN tasks /\ t \notin claimed
    BY <1>1 DEF StageInv
  <2>2. \A x \in Answers : Answered(t, x)' => Before(t, x)'
    BY <1>3, <2>1 DEF StageOK
  <2>3. CASE t # task
    BY <1>1, <1>3, <2>1, <2>2, <2>3, StageStays
  <2>4. CASE t = task
    <3>1. /\ Answered(t, ro) /\ Before(t, ro) /\ tasks'[t].status = NextStatus(ro, context)
          /\ context.hr = cycles'[t[1]].hr
      BY <1>1, <1>2, <2>1, <2>4
    <3>2. CASE ro = "self"
      <4>1. tasks'[t].status = "manager_pending"
        BY <1>1, <3>1, <3>2 DEF NextStatus
      <4>2. QED
        BY <1>3, <2>2, <3>1, <3>2, <4>1 DEF StageOK
    <3>3. CASE ro = "manager"
      <4>1. Answered(t, "self") /\ Answered(t, "manager")
        BY <3>1, <3>3 DEF Before
      <4>2. tasks'[t].status = IF context.hr THEN "hr_pending" ELSE "completed"
        BY <3>1, <3>3 DEF NextStatus
      <4>3. QED
        BY <1>3, <2>2, <3>1, <4>1, <4>2 DEF StageOK
    <3>4. CASE ro = "hr"
      <4>1. Answered(t, "manager") /\ Answered(t, "hr")
        BY <3>1, <3>4 DEF Before
      <4>2. Answered(t, "self")
        BY <2>1, <4>1 DEF StageOK, Before, Answers
      <4>3. tasks'[t].status = "completed"
        BY <3>1, <3>4 DEF NextStatus
      <4>4. QED
        BY <1>3, <2>2, <4>1, <4>2, <4>3 DEF StageOK
    <3>5. QED
      BY <1>1, <3>2, <3>3, <3>4 DEF Answers
  <2>5. QED
    BY <2>3, <2>4
<1>5. ASSUME NEW q \in Requests
      PROVE  AnswerOK(q)'
  <2>1. AnswerOK(q)
    BY DEF StageInv
  <2>2. pc'[q] \in {"respond", "advance"} => pc'[q] = pc[q] /\ req'[q] = req[q]
    BY <1>1 DEF Elsewhere
  <2>3. QED
    BY <1>1, <2>1, <2>2 DEF AnswerOK, Before, Answered
<1>6. QED
  BY <1>4, <1>5 DEF StageInv


(* No response comes, and whoever is about to answer was before. *)
LEMMA StageFrame ==
  ASSUME TInv, StageInv, NEW r \in Requests, Elsewhere(r), UNCHANGED <<tasks, responses, claimed>>, CyclesStay,
         pc'[r] \notin {"respond", "advance"}
  PROVE  StageInv'
BY StageQuiet DEF Elsewhere

LEMMA StageStep ==
  ASSUME TInv, StageInv, [Next]_vars
  PROVE  StageInv'
<1>1. CASE \/ UNCHANGED vars
           \/ \E e \in Moving, m \in Staff \cup {None} : Reassign(e, m)
  <2>1. UNCHANGED <<tasks, responses, claimed, cycles, pc, req>>
    BY <1>1, ReassignTypes DEF vars, rows, history
  <2>2. CyclesStay
    BY <2>1 DEF CyclesStay
  <2>3. QED
    BY <2>1, <2>2, StageQuiet
<1>2. ASSUME NEW r \in Requests, NEW a \in Actors, NEW e \in Staff, NEW m \in Staff \cup {None}, NEW dated \in BOOLEAN,
             CreateGoal(r, a, e, m, dated) \/ CreatePIP(r, a, e, m) \/ CreateCheckin(r, a, e, m) \/ CreateFeedback(r, a, e)
      PROVE  StageInv'
  <2>1. Finish(r) /\ UNCHANGED <<tasks, responses, claimed, cycles>>
    BY <1>2 DEF CreateGoal, CreatePIP, CreateCheckin, CreateFeedback, history
  <2>2. Elsewhere(r) /\ pc'[r] = "done" /\ CyclesStay
    BY <2>1, FinishMoves DEF CyclesStay
  <2>3. QED
    BY <2>1, <2>2, StageFrame
<1>3. ASSUME NEW r \in Requests, NEW a \in Actors, NEW p \in DOMAIN pips, NEW status, UpdatePIP(r, a, p, status)
      PROVE  StageInv'
  <2>1. Finish(r) /\ UNCHANGED <<tasks, responses, claimed, cycles>>
    BY <1>3 DEF UpdatePIP, history
  <2>2. Elsewhere(r) /\ pc'[r] = "done" /\ CyclesStay
    BY <2>1, FinishMoves DEF CyclesStay
  <2>3. QED
    BY <2>1, <2>2, StageFrame
<1>4. ASSUME NEW r \in Requests, NEW a \in Actors, NEW g \in DOMAIN goals, NEW sent \in SUBSET Columns, UpdateGoal(r, a, g, sent)
      PROVE  StageInv'
  <2>1. Elsewhere(r) /\ pc'[r] = "goal" /\ UNCHANGED <<tasks, responses, claimed, cycles>>
    <3> DEFINE knows == [thing |-> g, row |-> Merged(goals[g], a, sent, r), takes |-> Takes(a, sent)]
    <3>1. BeginOn(r, g, "goal", knows) /\ UNCHANGED <<rows, history>> /\ "goal" \in Labels \ {"new", "done"}
      BY <1>4, UpdateGoalTypes DEF Labels
    <3> HIDE DEF knows
    <3>2. QED
      BY <3>1, BeginOnMoves DEF rows, history
  <2>2. CyclesStay
    BY <2>1 DEF CyclesStay
  <2>3. QED
    BY <2>1, <2>2, StageFrame
<1>5. ASSUME NEW r \in Requests, NEW a \in Actors, NEW selection \in SUBSET Staff, NEW hr \in BOOLEAN,
             CreateReviewCycle(r, a, selection, hr)
      PROVE  StageInv'
  <2>1. Elsewhere(r) /\ pc'[r] = "select" /\ UNCHANGED <<tasks, responses, claimed>>
    <3>1. CycleCreated(r, selection)
      BY <1>5, CreateCycleTypes
    <3>2. QED
      BY <3>1 DEF CycleCreated
  <2>2. CyclesStay
    <3>1. CycleCreated(r, selection)
      BY <1>5, CreateCycleTypes
    <3>2. QED
      BY <3>1 DEF CycleCreated, CyclesStay
  <2>3. QED
    BY <2>1, <2>2, StageFrame
<1>6. ASSUME NEW r \in Requests, NEW a \in Actors, NEW c \in DOMAIN cycles, FinalizeReviewCycle(r, a, c)
      PROVE  StageInv'
  <2>1. Elsewhere(r) /\ pc'[r] = "close" /\ UNCHANGED <<tasks, responses, claimed, cycles>>
    BY <1>6, FinalizeTypes DEF rows, history
  <2>2. CyclesStay
    BY <2>1 DEF CyclesStay
  <2>3. QED
    BY <2>1, <2>2, StageFrame
<1>7. ASSUME NEW r \in Requests, NEW a \in Actors, NEW t \in DOMAIN tasks, NEW ro \in Answers, SubmitReviewResponse(r, a, t, ro)
      PROVE  StageInv'
  BY <1>7, StageSubmit
<1>8. ASSUME NEW r \in Requests,
             \/ WriteGoal(r) \/ SelectEmployees(r) \/ CloseCycle(r) \/ CompleteTasks(r)
             \/ CreateReviewResponse(r) \/ AdvanceTask(r) \/ Fail(r)
             \/ \E e \in Staff : CreateReviewTask(r, e) \/ TaskFails(r, e)
      PROVE  StageInv'
  <2>1. CASE WriteGoal(r)
    <3>1. Finish(r) /\ UNCHANGED <<tasks, responses, claimed, cycles>>
      BY <2>1 DEF WriteGoal
    <3>2. Elsewhere(r) /\ pc'[r] = "done" /\ CyclesStay
      BY <3>1, FinishMoves DEF CyclesStay
    <3>3. QED
      BY <3>1, <3>2, StageFrame
  <2>2. CASE SelectEmployees(r)
    <3>1. Elsewhere(r) /\ pc'[r] \in {"task", "done"} /\ UNCHANGED <<tasks, responses, claimed, cycles>>
      BY <2>2, SelectTypes DEF Selected, rows
    <3>2. CyclesStay
      BY <3>1 DEF CyclesStay
    <3>3. QED
      BY <3>1, <3>2, StageFrame
  <2>3. CASE CloseCycle(r)
    <3>1. Elsewhere(r) /\ pc'[r] = "complete" /\ UNCHANGED <<tasks, responses, claimed>>
      BY <2>3, CloseTypes DEF history
    <3>2. CyclesStay
      BY <2>3, CloseTypes DEF CyclesStay
    <3>3. QED
      BY <3>1, <3>2, StageFrame
  <2>4. CASE CompleteTasks(r)
    <3>1. /\ pc'[r] = "done" /\ Elsewhere(r) /\ cycles[req[r].thing].status = "closed" /\ DOMAIN tasks' = DOMAIN tasks
          /\ \A t \in DOMAIN tasks : IF t[1] = req[r].thing THEN tasks'[t].status = "completed" ELSE tasks'[t] = tasks[t]
          /\ UNCHANGED <<cycles, responses, claimed>>
      BY <2>4, CompleteTypes DEF history
    <3>2. CyclesStay
      BY <3>1 DEF CyclesStay
    <3>3. QED
      BY <3>1, <3>2, StageQuiet DEF Elsewhere
  <2>5. CASE CreateReviewResponse(r)
    BY <2>5, StageRespond
  <2>6. CASE AdvanceTask(r)
    BY <2>6, StageAdvance
  <2>7. CASE Fail(r) \/ \E e \in Staff : TaskFails(r, e)
    <3>1. Elsewhere(r) /\ pc'[r] \in {"task", "done"} /\ UNCHANGED <<tasks, responses, claimed, cycles>>
      BY <2>7, FailTypes, TaskFailsTypes DEF rows, history
    <3>2. CyclesStay
      BY <3>1 DEF CyclesStay
    <3>3. QED
      BY <3>1, <3>2, StageFrame
  <2>8. ASSUME NEW e \in Staff, CreateReviewTask(r, e)
        PROVE  StageInv'
    <3> DEFINE new == <<req[r].thing, e>>
    <3>1. /\ Elsewhere(r) /\ pc'[r] \in {"task", "done"} /\ UNCHANGED <<responses, claimed, cycles>>
          /\ DOMAIN tasks' = DOMAIN tasks \cup {new}
          /\ \A t \in DOMAIN tasks' : IF t = new THEN tasks'[t].status = "self_pending" ELSE tasks'[t] = tasks[t]
      <4>1. TaskCreated(r, e)
        BY <2>8, CreateTaskTypes
      <4>2. QED
        BY <4>1 DEF TaskCreated
    <3> HIDE DEF new
    <3>2. CyclesStay
      BY <3>1 DEF CyclesStay
    <3>3. QED
      BY <3>1, <3>2, StageQuiet DEF Elsewhere
  <2>9. QED
    BY <1>8, <2>1, <2>2, <2>3, <2>4, <2>5, <2>6, <2>7, <2>8
<1>9. QED
  BY <1>1, <1>2, <1>3, <1>4, <1>5, <1>6, <1>7, <1>8, NextCases

(* Whoever answers in its own role does so in turn, and a task is completed by the *)
(* last answer or by the end of its cycle, however many requests overlap.          *)
THEOREM StagesOrdered == Spec => []StagesInOrder
<1>1. Init => StageInv
  <2>1. SUFFICES ASSUME Init PROVE StageInv
    OBVIOUS
  <2>2. /\ tasks = [t \in {Past} \X selected[Past] |-> [manager |-> manager[t[2]], status |-> "self_pending"]]
        /\ responses = {} /\ pc = [r \in Requests |-> "new"]
    BY <2>1 DEF Init
  <2>3. \A t \in DOMAIN tasks : tasks[t].status = "self_pending"
    BY <2>2
  <2>4. QED
    BY <2>2, <2>3 DEF StageInv, StageOK, AnswerOK, Answered, Before
<1>2. TInv /\ StageInv /\ [Next]_vars => StageInv'
  BY StageStep
<1>3. TInv /\ StageInv => StagesInOrder
  <2>1. SUFFICES ASSUME TInv, StageInv, NEW t \in DOMAIN tasks \ claimed
                 PROVE  LET given == {x.role : x \in {y \in responses : y.task = t}}
                        IN /\ "manager" \in given => "self" \in given
                           /\ "hr" \in given => "manager" \in given
                           /\ tasks[t].status = "completed" =>
                                \/ cycles[t[1]].status = "closed"
                                \/ {"self", "manager"} \cup (IF cycles[t[1]].hr THEN {"hr"} ELSE {}) \subseteq given
    BY DEF StagesInOrder
  <2> DEFINE given == {x.role : x \in {y \in responses : y.task = t}}
  <2>2. \A ro : ro \in given <=> Answered(t, ro)
    BY DEF Answered
  <2>3. StageOK(t)
    BY <2>1 DEF StageInv
  <2> HIDE DEF given
  <2>4. ("manager" \in given => "self" \in given) /\ ("hr" \in given => "manager" \in given)
    BY <2>2, <2>3 DEF StageOK, Before, Answers
  <2>5. tasks[t].status = "completed" =>
          \/ cycles[t[1]].status = "closed"
          \/ {"self", "manager"} \cup (IF cycles[t[1]].hr THEN {"hr"} ELSE {}) \subseteq given
    BY <2>2, <2>3 DEF StageOK
  <2>6. QED
    BY <2>4, <2>5 DEF given
<1>4. QED
  BY <1>1, <1>2, <1>3, Typed, PTL DEF Spec


-----------------------------------------------------------------------------
(* Goals keep what was asked for *)

LEMMA MergeStays ==
  ASSUME NEW q \in Requests, MergeOK(q), disturbed \subseteq disturbed',
         pc'[q] = "goal" => pc[q] = "goal" /\ req'[q] = req[q] /\ goals'[req[q].thing] = goals[req[q].thing]
  PROVE  MergeOK(q)'
BY DEF MergeOK

(* Steps that write no goal and merge none. *)
LEMMA GoalFrame ==
  ASSUME TInv, GoalInv, NEW r \in Requests, Elsewhere(r), UNCHANGED <<goals, asked>>, disturbed \subseteq disturbed',
         pc'[r] # "goal"
  PROVE  GoalInv'
<1>1. \A g \in DOMAIN goals' \ disturbed' : GoalOK(g)'
  BY DEF GoalOK, GoalInv
<1>2. ASSUME NEW q \in Requests PROVE MergeOK(q)'
  <2>1. MergeOK(q)
    BY DEF GoalInv
  <2>2. QED
    BY <2>1, MergeStays DEF Elsewhere
<1>3. QED
  BY <1>1, <1>2 DEF GoalInv

LEMMA GoalCreate ==
  ASSUME TInv, GoalInv, NEW r \in Requests, NEW a \in Actors, NEW e \in Staff, NEW m \in Staff \cup {None},
         NEW dated \in BOOLEAN, CreateGoal(r, a, e, m, dated)
  PROVE  GoalInv'
<1> DEFINE row == GoalRow(r, a, e, GoalManager(a, e, m), dated)
           want == [title |-> r, progress |-> r]
<1>1. goals' = Inserted(goals, r, row) /\ asked' = Inserted(asked, r, want) /\ Finish(r) /\ disturbed' = disturbed
  BY DEF CreateGoal
<1>2. row.title = want.title /\ row.progress = want.progress
  BY DEF GoalRow
<1> HIDE DEF row, want
<1>3. r \notin DOMAIN goals /\ DOMAIN asked = DOMAIN goals
  BY StartIsNew DEF CreateGoal, TInv, GoalsOK
<1>4. /\ DOMAIN goals' = DOMAIN goals \cup {r} /\ goals'[r] = row /\ asked'[r] = want
      /\ \A g \in DOMAIN goals : goals'[g] = goals[g] /\ asked'[g] = asked[g]
  BY <1>1, <1>3 DEF Inserted
<1>5. \A g \in DOMAIN goals' \ disturbed' : GoalOK(g)'
  BY <1>1, <1>2, <1>4 DEF GoalOK, GoalInv
<1>6. ASSUME NEW q \in Requests PROVE MergeOK(q)'
  <2>1. MergeOK(q) /\ KnowOK(q)
    BY DEF TInv, GoalInv
  <2>2. pc'[q] = "goal" => pc[q] = "goal" /\ req'[q] = req[q]
    BY <1>1, FinishMoves DEF Elsewhere
  <2>3. pc[q] = "goal" => goals'[req[q].thing] = goals[req[q].thing]
    BY <1>4, <2>1 DEF KnowOK
  <2>4. QED
    BY <1>1, <2>1, <2>2, <2>3, MergeStays
<1>7. QED
  BY <1>5, <1>6 DEF GoalInv

LEMMA GoalUpdate ==
  ASSUME TInv, GoalInv, NEW r \in Requests, NEW a \in Actors, NEW g \in DOMAIN goals, NEW sent \in SUBSET Columns,
         UpdateGoal(r, a, g, sent)
  PROVE  GoalInv'
<1> DEFINE merged == Merged(goals[g], a, sent, r)
           takes == Takes(a, sent)
           knows == [thing |-> g, row |-> merged, takes |-> takes]
<1>1. BeginOn(r, g, "goal", knows) /\ UNCHANGED <<rows, history>>
  BY UpdateGoalTypes
<1>2. goals[g] \in GoalType
  BY DEF TInv, GoalsOK
<1>3. /\ merged.title = IF "title" \in takes THEN r ELSE goals[g].title
      /\ merged.progress = IF "progress" \in takes THEN r ELSE goals[g].progress
  BY <1>2, MergedIs
<1>4. knows.thing = g /\ knows.row = merged /\ knows.takes = takes /\ "goal" \in Labels \ {"new", "done"}
  BY DEF Labels
<1> HIDE DEF merged, takes, knows
<1>5. pc'[r] = "goal" /\ req'[r] = knows /\ Elsewhere(r) /\ disturbed \subseteq disturbed' /\ UNCHANGED <<goals, asked>>
  BY <1>1, <1>4, BeginOnMoves DEF rows, history
<1>6. \A h \in DOMAIN goals' \ disturbed' : GoalOK(h)'
  BY <1>5 DEF GoalOK, GoalInv
<1>7. ASSUME NEW q \in Requests PROVE MergeOK(q)'
  <2>1. CASE q = r
    BY <1>3, <1>4, <1>5, <2>1 DEF MergeOK
  <2>2. CASE q # r
    BY <1>5, <2>2, MergeStays DEF Elsewhere, GoalInv
  <2>3. QED
    BY <2>1, <2>2
<1>8. QED
  BY <1>6, <1>7 DEF GoalInv

LEMMA GoalWrite ==
  ASSUME TInv, LoneInv, GoalInv, NEW r \in Requests, WriteGoal(r)
  PROVE  GoalInv'
<1> DEFINE g == req[r].thing
<1>1. /\ Finish(r) /\ pc[r] = "goal" /\ g \in DOMAIN goals /\ DOMAIN goals' = DOMAIN goals /\ goals'[g] = req[r].row
      /\ \A h \in DOMAIN goals \ {g} : goals'[h] = goals[h] /\ asked'[h] = asked[h]
      /\ asked'[g].title = IF "title" \in req[r].takes THEN r ELSE asked[g].title
      /\ asked'[g].progress = IF "progress" \in req[r].takes THEN r ELSE asked[g].progress
      /\ disturbed' = disturbed
  BY WriteGoalTypes
<1>2. g \notin disturbed => /\ req[r].row.title = (IF "title" \in req[r].takes THEN r ELSE goals[g].title)
                            /\ req[r].row.progress = (IF "progress" \in req[r].takes THEN r ELSE goals[g].progress)
  BY <1>1 DEF GoalInv, MergeOK
<1>3. \A h \in DOMAIN goals \ disturbed : GoalOK(h)
  BY DEF GoalInv
<1>4. pc'[r] = "done" /\ Elsewhere(r)
  BY <1>1, FinishMoves
<1> HIDE DEF g
<1>5. \A h \in DOMAIN goals' \ disturbed' : GoalOK(h)'
  BY <1>1, <1>2, <1>3 DEF GoalOK
<1>6. ASSUME NEW q \in Requests PROVE MergeOK(q)'
  <2>1. MergeOK(q) /\ KnowOK(q)
    BY DEF TInv, GoalInv
  <2>2. CASE q = r
    BY <1>4, <2>2 DEF MergeOK
  <2>3. CASE q # r /\ pc[q] = "goal" /\ req[q].thing \notin disturbed
    <3>1. req[q].thing # g
      BY <1>1, <2>3 DEF LoneInv, Busy, g
    <3>2. goals'[req[q].thing] = goals[req[q].thing]
      BY <1>1, <2>1, <2>3, <3>1 DEF KnowOK
    <3>3. QED
      BY <1>1, <1>4, <2>1, <2>3, <3>2, MergeStays DEF Elsewhere
  <2>4. CASE q # r /\ ~(pc[q] = "goal" /\ req[q].thing \notin disturbed)
    BY <1>1, <1>4, <2>4 DEF MergeOK, Elsewhere
  <2>5. QED
    BY <2>2, <2>3, <2>4
<1>7. QED
  BY <1>5, <1>6 DEF GoalInv


LEMMA GoalStep ==
  ASSUME TInv, LoneInv, GoalInv, [Next]_vars
  PROVE  GoalInv'
<1>1. CASE \/ UNCHANGED vars
           \/ \E e \in Moving, m \in Staff \cup {None} : Reassign(e, m)
  <2>1. UNCHANGED <<goals, asked, pc, req, disturbed>>
    BY <1>1, ReassignTypes DEF vars, rows, history
  <2>2. QED
    BY <2>1 DEF GoalInv, GoalOK, MergeOK
<1>2. ASSUME NEW r \in Requests, NEW a \in Actors, NEW e \in Staff, NEW m \in Staff \cup {None}, NEW dated \in BOOLEAN,
             CreateGoal(r, a, e, m, dated)
      PROVE  GoalInv'
  BY <1>2, GoalCreate
<1>3. ASSUME NEW r \in Requests, Finish(r), UNCHANGED <<goals, asked, disturbed>>
      PROVE  GoalInv'
  BY <1>3, FinishMoves, GoalFrame
<1>4. ASSUME NEW r \in Requests, NEW a \in Actors, NEW e \in Staff, NEW m \in Staff \cup {None},
             CreatePIP(r, a, e, m) \/ CreateCheckin(r, a, e, m) \/ CreateFeedback(r, a, e)
      PROVE  GoalInv'
  BY <1>3, <1>4 DEF CreatePIP, CreateCheckin, CreateFeedback, history
<1>5. ASSUME NEW r \in Requests, NEW a \in Actors, NEW p \in DOMAIN pips, NEW status, UpdatePIP(r, a, p, status)
      PROVE  GoalInv'
  BY <1>3, <1>5 DEF UpdatePIP, history
<1>6. ASSUME NEW r \in Requests, NEW a \in Actors, NEW g \in DOMAIN goals, NEW sent \in SUBSET Columns, UpdateGoal(r, a, g, sent)
      PROVE  GoalInv'
  BY <1>6, GoalUpdate
<1>7. ASSUME NEW r \in Requests, NEW a \in Actors, NEW selection \in SUBSET Staff, NEW hr \in BOOLEAN,
             CreateReviewCycle(r, a, selection, hr)
      PROVE  GoalInv'
  <2>1. CycleCreated(r, selection)
    BY <1>7, CreateCycleTypes
  <2>2. QED
    BY <2>1, GoalFrame DEF CycleCreated
<1>8. ASSUME NEW r \in Requests, NEW a \in Actors, NEW c \in DOMAIN cycles, FinalizeReviewCycle(r, a, c)
      PROVE  GoalInv'
  <2> DEFINE knows == [thing |-> c]
  <2>1. BeginOn(r, c, "close", knows) /\ UNCHANGED <<goals, asked>> /\ "close" \in Labels \ {"new", "done"}
    BY <1>8 DEF FinalizeReviewCycle, rows, history, Labels
  <2> HIDE DEF knows
  <2>2. pc'[r] = "close" /\ Elsewhere(r) /\ disturbed \subseteq disturbed'
    BY <2>1, BeginOnMoves
  <2>3. QED
    BY <2>1, <2>2, GoalFrame
<1>9. ASSUME NEW r \in Requests, NEW a \in Actors, NEW t \in DOMAIN tasks, NEW ro \in Answers, SubmitReviewResponse(r, a, t, ro)
      PROVE  GoalInv'
  <2> DEFINE c == t[1]
             knows == [thing |-> c, task |-> t, role |-> ro, context |-> ReviewTaskContext(t)]
  <2>1. BeginOn(r, c, "respond", knows) /\ UNCHANGED <<goals, asked>> /\ "respond" \in Labels \ {"new", "done"}
    BY <1>9 DEF SubmitReviewResponse, rows, Labels
  <2> HIDE DEF c, knows
  <2>2. pc'[r] = "respond" /\ Elsewhere(r) /\ disturbed \subseteq disturbed'
    BY <2>1, BeginOnMoves
  <2>3. QED
    BY <2>1, <2>2, GoalFrame
<1>10. ASSUME NEW r \in Requests,
              \/ WriteGoal(r) \/ SelectEmployees(r) \/ CloseCycle(r) \/ CompleteTasks(r)
              \/ CreateReviewResponse(r) \/ AdvanceTask(r) \/ Fail(r)
              \/ \E e \in Staff : CreateReviewTask(r, e) \/ TaskFails(r, e)
       PROVE  GoalInv'
  <2>1. CASE WriteGoal(r)
    BY <2>1, GoalWrite
  <2>2. CASE SelectEmployees(r)
    BY <2>2, SelectTypes, GoalFrame DEF Selected, rows
  <2>3. CASE CloseCycle(r)
    BY <2>3, CloseTypes, GoalFrame DEF history
  <2>4. CASE CompleteTasks(r) \/ AdvanceTask(r)
    BY <1>3, <2>4 DEF CompleteTasks, AdvanceTask, history
  <2>5. CASE CreateReviewResponse(r)
    BY <2>5, RespondTypes, GoalFrame DEF history
  <2>6. CASE Fail(r)
    BY <2>6, FailTypes, GoalFrame DEF rows, history
  <2>7. ASSUME NEW e \in Staff, CreateReviewTask(r, e)
        PROVE  GoalInv'
    BY <2>7, CreateTaskTypes, GoalFrame DEF TaskCreated
  <2>8. ASSUME NEW e \in Staff, TaskFails(r, e)
        PROVE  GoalInv'
    BY <2>8, TaskFailsTypes, GoalFrame DEF rows, history
  <2>9. QED
    BY <1>10, <2>1, <2>2, <2>3, <2>4, <2>5, <2>6, <2>7, <2>8
<1>11. QED
  BY <1>1, <1>2, <1>4, <1>5, <1>6, <1>7, <1>8, <1>9, <1>10, NextCases

-----------------------------------------------------------------------------
(* Cycles get their tasks, and are closed with all of them *)

(* What a request does with a cycle, and what is so when no other does anything. *)
On(q, c) == Busy(q) /\ req[q].thing = c
Doing(r, c) == IF On(r, c) THEN pc[r] ELSE "done"
AloneOK(r, c) ==
  /\ Doing(r, c) \in {"select", "task"} => cycles[c].status # "closed"
  /\ Doing(r, c) \notin {"select", "task"} => Tasked(c) \in {{}, selected[c]}
  /\ Doing(r, c) = "select" => Tasked(c) = {}
  /\ Doing(r, c) = "task" => Tasked(c) \cup req[r].left = selected[c]
  /\ cycles[c].status = "closed" =>
       /\ Doing(r, c) # "complete" => \A t \in DOMAIN tasks \ claimed : t[1] = c => tasks[t].status = "completed"
       /\ Doing(r, c) \in {"respond", "advance"} => req[r].task \in claimed

LEMMA AloneBefore ==
  ASSUME NEW r \in Requests, NEW c, CycleOK(c), \A q \in Requests \ {r} : ~On(q, c)
  PROVE  AloneOK(r, c)
<1>1. \A labels \in SUBSET (Labels \ {"new", "done"}) : At(c, labels) <=> Doing(r, c) \in labels
  BY DEF At, Doing, On, Busy
<1>2. /\ At(c, {"select", "task"}) <=> Doing(r, c) \in {"select", "task"}
      /\ At(c, {"complete"}) <=> Doing(r, c) = "complete"
  BY <1>1 DEF Labels
<1>3. QED
  BY <1>2 DEF CycleOK, AloneOK, Doing, On, Busy

LEMMA AloneAfter ==
  ASSUME NEW r \in Requests, NEW c, AloneOK(r, c)', \A q \in Requests \ {r} : ~On(q, c)'
  PROVE  CycleOK(c)'
<1>1. \A labels \in SUBSET (Labels \ {"new", "done"}) : At(c, labels)' <=> Doing(r, c)' \in labels
  BY DEF At, Doing, On, Busy
<1>2. /\ At(c, {"select", "task"})' <=> Doing(r, c)' \in {"select", "task"}
      /\ At(c, {"complete"})' <=> Doing(r, c)' = "complete"
  BY <1>1 DEF Labels
<1>3. QED
  BY <1>2 DEF CycleOK, AloneOK, Doing, On, Busy


(* A cycle a step has nothing to do with. *)
Untouched(c) ==
  /\ c \in DOMAIN cycles /\ cycles'[c] = cycles[c] /\ selected'[c] = selected[c] /\ claimed \subseteq claimed'
  /\ \A t \in DOMAIN tasks \cup DOMAIN tasks' : t[1] = c => t \in DOMAIN tasks /\ t \in DOMAIN tasks' /\ tasks'[t] = tasks[t]

LEMMA TaskedStays ==
  ASSUME NEW c, Untouched(c)
  PROVE  Tasked(c)' = Tasked(c)
<1>1. \A e \in Staff : <<c, e>>[1] = c
  OBVIOUS
<1>2. QED
  BY <1>1 DEF Tasked, Untouched

LEMMA CycleFrame ==
  ASSUME NEW c, Untouched(c), CycleOK(c),
         \A q \in Requests : (pc'[q] = pc[q] /\ req'[q] = req[q]) \/ (~On(q, c) /\ ~On(q, c)')
  PROVE  CycleOK(c)'
<1>1. Tasked(c)' = Tasked(c) /\ cycles'[c] = cycles[c] /\ selected'[c] = selected[c]
  BY TaskedStays DEF Untouched
<1>2. \A q \in Requests : \A label \in Labels \ {"new", "done"} :
        pc'[q] = label /\ req'[q].thing = c <=> pc[q] = label /\ req[q].thing = c
  BY DEF On, Busy
<1>3. \A q \in Requests : \A label \in Labels \ {"new", "done"} :
        pc'[q] = label /\ req'[q].thing = c => req'[q] = req[q]
  BY DEF On, Busy
<1>4. \A labels \in SUBSET (Labels \ {"new", "done"}) : At(c, labels)' <=> At(c, labels)
  BY <1>2 DEF At
<1>5. (At(c, {"select", "task"})' <=> At(c, {"select", "task"})) /\ (At(c, {"complete"})' <=> At(c, {"complete"}))
  BY <1>4 DEF Labels
<1>6. \A t \in DOMAIN tasks' \ claimed' : t[1] = c => t \in DOMAIN tasks \ claimed /\ tasks'[t] = tasks[t]
  BY DEF Untouched
<1>7. ASSUME NEW q \in Requests
      PROVE  /\ pc'[q] = "select" /\ req'[q].thing = c => Tasked(c)' = {}
             /\ pc'[q] = "task" /\ req'[q].thing = c => Tasked(c)' \cup req'[q].left = selected'[c]
             /\ cycles'[c].status = "closed" /\ pc'[q] \in {"respond", "advance"} /\ req'[q].thing = c => req'[q].task \in claimed'
  BY <1>1, <1>2, <1>3 DEF CycleOK, Labels, Untouched
<1>8. QED
  BY <1>1, <1>5, <1>6, <1>7 DEF CycleOK


(* A step of one request: the cycles it is not on it does not touch, and the one it *)
(* is on, if undisturbed, it has for itself.                                        *)
LEMMA CycleOne ==
  ASSUME LoneInv, LoneInv', CycleInv, NEW r \in Requests, Elsewhere(r), disturbed \subseteq disturbed',
         \A c \in DOMAIN cycles' \ disturbed' : ~On(r, c) /\ ~On(r, c)' => Untouched(c),
         \A c \in DOMAIN cycles' \ disturbed' :
           (On(r, c) \/ On(r, c)') /\ (c \in DOMAIN cycles => AloneOK(r, c)) => AloneOK(r, c)'
  PROVE  CycleInv'
<1>1. SUFFICES ASSUME NEW c \in DOMAIN cycles' \ disturbed' PROVE CycleOK(c)'
  BY DEF CycleInv
<1>2. c \in DOMAIN cycles => CycleOK(c)
  BY <1>1 DEF CycleInv
<1>3. \A q \in Requests \ {r} : pc'[q] = pc[q] /\ req'[q] = req[q] /\ (On(q, c)' <=> On(q, c))
  BY DEF Elsewhere, On, Busy
<1>4. CASE ~On(r, c) /\ ~On(r, c)'
  <2>1. Untouched(c)
    BY <1>1, <1>4
  <2>2. \A q \in Requests : (pc'[q] = pc[q] /\ req'[q] = req[q]) \/ (~On(q, c) /\ ~On(q, c)')
    BY <1>3, <1>4
  <2>3. CycleOK(c)
    BY <1>2, <2>1 DEF Untouched
  <2>4. QED
    BY <2>1, <2>2, <2>3, CycleFrame
<1>5. CASE On(r, c) \/ On(r, c)'
  <2>1. \A q \in Requests \ {r} : ~On(q, c) /\ ~On(q, c)'
    <3>1. CASE On(r, c)
      BY <1>1, <1>3, <3>1 DEF LoneInv, On
    <3>2. CASE On(r, c)'
      BY <1>1, <1>3, <3>2 DEF LoneInv, On
    <3>3. QED
      BY <1>5, <3>1, <3>2
  <2>2. c \in DOMAIN cycles => AloneOK(r, c)
    BY <1>2, <2>1, AloneBefore
  <2>3. AloneOK(r, c)'
    BY <1>1, <1>5, <2>2
  <2>4. QED
    BY <2>1, <2>3, AloneAfter
<1>6. QED
  BY <1>4, <1>5

(* A step that touches no cycle, of a request that neither makes tasks nor answers. *)
Plain(r) == pc[r] \in {"new", "goal", "close", "done"}
LEMMA CyclePlain ==
  ASSUME TInv, LoneInv, LoneInv', CycleInv, NEW r \in Requests, Elsewhere(r), disturbed \subseteq disturbed',
         UNCHANGED <<cycles, tasks, selected, claimed>>, Plain(r), Plain(r)'
  PROVE  CycleInv'
<1>1. \A c \in DOMAIN cycles' \ disturbed' : Untouched(c)
  BY DEF Untouched
<1>2. ASSUME NEW c \in DOMAIN cycles' \ disturbed', AloneOK(r, c)
      PROVE  AloneOK(r, c)'
  <2>1. /\ Doing(r, c) \in {"new", "goal", "close", "done"} /\ Doing(r, c)' \in {"new", "goal", "close", "done"}
    BY DEF Doing, Plain
  <2>2. Tasked(c)' = Tasked(c)
    BY <1>1, TaskedStays
  <2>3. QED
    BY <1>2, <2>1, <2>2 DEF AloneOK
<1>3. QED
  BY <1>1, <1>2, CycleOne


LEMMA CycleCreate ==
  ASSUME TInv, LoneInv, LoneInv', CycleInv, NEW r \in Requests, NEW a \in Actors, NEW selection \in SUBSET Staff,
         NEW hr \in BOOLEAN, CreateReviewCycle(r, a, selection, hr)
  PROVE  CycleInv'
<1>1. /\ pc[r] = "new" /\ pc'[r] = "select" /\ req'[r].thing = r /\ req'[r].selection = selection /\ Elsewhere(r)
      /\ r \notin DOMAIN cycles /\ DOMAIN cycles' = DOMAIN cycles \cup {r}
      /\ \A c \in DOMAIN cycles : cycles'[c] = cycles[c] /\ selected'[c] = selected[c]
      /\ cycles'[r].status = "draft"
  <2>1. CycleCreated(r, selection)
    BY CreateCycleTypes
  <2>2. QED
    BY <2>1 DEF CycleCreated
<1>2. UNCHANGED <<tasks, claimed, disturbed>>
  BY DEF CreateReviewCycle
<1>3. \A c \in DOMAIN cycles : Untouched(c)
  BY <1>1, <1>2 DEF Untouched
<1>4. \A c : ~On(r, c) /\ (On(r, c)' <=> c = r)
  BY <1>1 DEF On, Busy
<1>5. AloneOK(r, r)'
  <2>1. Tasked(r)' = {}
    <3>1. \A t \in DOMAIN tasks' : t \in (DOMAIN cycles) \X Staff
      BY <1>2 DEF TInv, CyclesOK
    <3>2. QED
      BY <1>1, <3>1 DEF Tasked
  <2>2. Doing(r, r)' = "select"
    BY <1>1, <1>4 DEF Doing
  <2>3. QED
    BY <1>1, <2>1, <2>2 DEF AloneOK
<1>6. \A c \in DOMAIN cycles' \ disturbed' : ~On(r, c) /\ ~On(r, c)' => Untouched(c)
  BY <1>1, <1>3, <1>4
<1>7. \A c \in DOMAIN cycles' \ disturbed' : On(r, c) \/ On(r, c)' => AloneOK(r, c)'
  BY <1>4, <1>5
<1>8. QED
  BY <1>1, <1>2, <1>6, <1>7, CycleOne

(* A request on a thing that stays on it or is done. *)
LEMMA OnStays ==
  ASSUME NEW r \in Requests, Busy(r), pc'[r] = "done" \/ req'[r].thing = req[r].thing
  PROVE  \A c : (On(r, c) <=> c = req[r].thing) /\ (On(r, c)' => c = req[r].thing)
BY DEF On, Busy

LEMMA CycleSelect ==
  ASSUME TInv, LoneInv, LoneInv', CycleInv, NEW r \in Requests, SelectEmployees(r)
  PROVE  CycleInv'
<1>0. PICK c : c = req[r].thing
  OBVIOUS
<1>1. PICK list \in SUBSET Staff : Selected(r, list)
  BY SelectTypes
<1>2. /\ pc[r] = "select" /\ Elsewhere(r) /\ UNCHANGED <<cycles, tasks, claimed, disturbed>>
      /\ selected' = [selected EXCEPT ![c] = list] /\ DOMAIN selected = DOMAIN cycles
      /\ \/ pc'[r] = "done" /\ req'[r] = NoReq
         \/ pc'[r] = "task" /\ req'[r].thing = c /\ req'[r].left = list
  BY <1>0, <1>1 DEF Selected, rows, TInv, CyclesOK
<1>3. \A d \in DOMAIN cycles' \ {c} : Untouched(d)
  BY <1>2 DEF Untouched
<1>4. \A d : (On(r, d) <=> d = c) /\ (On(r, d)' => d = c)
  BY <1>0, <1>2, OnStays DEF Busy
<1>5. ASSUME c \in DOMAIN cycles, AloneOK(r, c)
      PROVE  AloneOK(r, c)'
  <2>1. Doing(r, c) = "select" /\ Tasked(c)' = Tasked(c) /\ selected'[c] = list
    BY <1>2, <1>4, <1>5 DEF Doing, Tasked
  <2>2. cycles[c].status # "closed" /\ Tasked(c) = {}
    BY <1>5, <2>1 DEF AloneOK
  <2>3. /\ Doing(r, c)' \in {"done", "task"}
        /\ Doing(r, c)' = "task" => req'[r].left = list
    BY <1>2 DEF Doing
  <2>4. QED
    BY <1>2, <2>1, <2>2, <2>3 DEF AloneOK
<1>6. \A d \in DOMAIN cycles' \ disturbed' :
        (On(r, d) \/ On(r, d)') /\ (d \in DOMAIN cycles => AloneOK(r, d)) => AloneOK(r, d)'
  BY <1>2, <1>4, <1>5
<1>7. QED
  BY <1>2, <1>3, <1>4, <1>6, CycleOne

LEMMA CycleTask ==
  ASSUME TInv, LoneInv, LoneInv', CycleInv, NEW r \in Requests, NEW e \in Staff, CreateReviewTask(r, e)
  PROVE  CycleInv'
<1>0. PICK c : c = req[r].thing
  OBVIOUS
<1>1. /\ pc[r] = "task" /\ e \in req[r].left /\ Elsewhere(r) /\ DOMAIN tasks' = DOMAIN tasks \cup {<<c, e>>}
      /\ \A t \in DOMAIN tasks' : IF t = <<c, e>> THEN tasks'[t].status = "self_pending" ELSE tasks'[t] = tasks[t]
      /\ \/ pc'[r] = "done" /\ req'[r] = NoReq /\ req[r].left \ {e} = {}
         \/ pc'[r] = "task" /\ req'[r].thing = c /\ req'[r].left = req[r].left \ {e}
  <2>1. TaskCreated(r, e)
    BY CreateTaskTypes
  <2>2. QED
    BY <1>0, <2>1 DEF TaskCreated
<1>2. UNCHANGED <<cycles, selected, claimed, disturbed>>
  BY DEF CreateReviewTask, history
<1>3. \A d : (On(r, d) <=> d = c) /\ (On(r, d)' => d = c)
  BY <1>0, <1>1, OnStays DEF Busy
<1>4. ASSUME c \in DOMAIN cycles, AloneOK(r, c)
      PROVE  AloneOK(r, c)'
  <2>1. Doing(r, c) = "task"
    BY <1>1, <1>3 DEF Doing
  <2>2. cycles[c].status # "closed" /\ Tasked(c) \cup req[r].left = selected[c]
    BY <1>4, <2>1 DEF AloneOK
  <2>3. Tasked(c)' = Tasked(c) \cup {e}
    BY <1>1 DEF Tasked
  <2>4. /\ Doing(r, c)' \in {"done", "task"}
        /\ Doing(r, c)' = "task" => req'[r].left = req[r].left \ {e}
        /\ Doing(r, c)' = "done" => req[r].left \ {e} = {}
    BY <1>1 DEF Doing, On, Busy
  <2>5. CASE Doing(r, c)' = "task"
    BY <1>1, <1>2, <2>2, <2>3, <2>4, <2>5 DEF AloneOK
  <2>6. CASE Doing(r, c)' = "done"
    BY <1>1, <1>2, <2>2, <2>3, <2>4, <2>6 DEF AloneOK
  <2>7. QED
    BY <2>4, <2>5, <2>6
<1>5. \A d \in DOMAIN cycles' \ disturbed' : ~On(r, d) => Untouched(d)
  BY <1>1, <1>2, <1>3 DEF Untouched
<1>6. \A d \in DOMAIN cycles' \ disturbed' :
        (On(r, d) \/ On(r, d)') /\ (d \in DOMAIN cycles => AloneOK(r, d)) => AloneOK(r, d)'
  BY <1>2, <1>3, <1>4
<1>7. QED
  BY <1>1, <1>2, <1>5, <1>6, CycleOne

(* A task that fails, or a request, disturbs the cycle it is on. *)
LEMMA CycleFails ==
  ASSUME LoneInv, LoneInv', CycleInv, NEW r \in Requests, Elsewhere(r), Busy(r),
         pc'[r] = "done" \/ req'[r].thing = req[r].thing,
         disturbed' = disturbed \cup {req[r].thing}, UNCHANGED <<cycles, tasks, selected, claimed>>
  PROVE  CycleInv'
<1>1. \A c \in DOMAIN cycles' \ disturbed' : Untouched(c) /\ ~On(r, c) /\ ~On(r, c)'
  BY OnStays DEF Untouched
<1>2. QED
  BY <1>1, CycleOne


LEMMA CycleClose ==
  ASSUME TInv, LoneInv, LoneInv', CycleInv, NEW r \in Requests, CloseCycle(r)
  PROVE  CycleInv'
<1>0. PICK c : c = req[r].thing
  OBVIOUS
<1>1. /\ pc[r] = "close" /\ pc'[r] = "complete" /\ req'[r] = req[r] /\ Elsewhere(r)
      /\ c \in DOMAIN cycles /\ DOMAIN cycles' = DOMAIN cycles /\ \A d \in DOMAIN cycles \ {c} : cycles'[d] = cycles[d]
  BY <1>0, CloseTypes
<1>2. UNCHANGED <<tasks, selected, claimed, disturbed>>
  BY DEF CloseCycle, history
<1>3. \A d : (On(r, d) <=> d = c) /\ (On(r, d)' <=> d = c)
  BY <1>0, <1>1 DEF On, Busy
<1>4. \A d \in DOMAIN cycles' \ disturbed' : ~On(r, d) => Untouched(d)
  BY <1>1, <1>2, <1>3 DEF Untouched
<1>5. ASSUME AloneOK(r, c)
      PROVE  AloneOK(r, c)'
  <2>1. Doing(r, c) = "close" /\ Doing(r, c)' = "complete"
    BY <1>1, <1>3 DEF Doing
  <2>2. Tasked(c)' = Tasked(c)
    BY <1>2 DEF Tasked
  <2>3. QED
    BY <1>2, <1>5, <2>1, <2>2 DEF AloneOK
<1>6. \A d \in DOMAIN cycles' \ disturbed' :
        (On(r, d) \/ On(r, d)') /\ (d \in DOMAIN cycles => AloneOK(r, d)) => AloneOK(r, d)'
  BY <1>1, <1>3, <1>5
<1>7. QED
  BY <1>1, <1>2, <1>4, <1>6, CycleOne

LEMMA CycleComplete ==
  ASSUME TInv, LoneInv, LoneInv', CycleInv, NEW r \in Requests, CompleteTasks(r)
  PROVE  CycleInv'
<1>0. PICK c : c = req[r].thing
  OBVIOUS
<1>1. /\ pc[r] = "complete" /\ pc'[r] = "done" /\ Elsewhere(r) /\ DOMAIN tasks' = DOMAIN tasks
      /\ \A t \in DOMAIN tasks : IF t[1] = c THEN tasks'[t].status = "completed" ELSE tasks'[t] = tasks[t]
  BY <1>0, CompleteTypes
<1>2. UNCHANGED <<cycles, selected, claimed, disturbed>>
  BY DEF CompleteTasks, history
<1>3. \A d : (On(r, d) <=> d = c) /\ ~On(r, d)'
  BY <1>0, <1>1 DEF On, Busy
<1>4. \A d \in DOMAIN cycles' \ disturbed' : ~On(r, d) => Untouched(d)
  BY <1>1, <1>2, <1>3 DEF Untouched
<1>5. ASSUME AloneOK(r, c)
      PROVE  AloneOK(r, c)'
  <2>1. Doing(r, c) = "complete" /\ Doing(r, c)' = "done"
    BY <1>1, <1>3 DEF Doing
  <2>2. Tasked(c)' = Tasked(c)
    BY <1>1 DEF Tasked
  <2>3. QED
    BY <1>1, <1>2, <1>5, <2>1, <2>2 DEF AloneOK
<1>6. \A d \in DOMAIN cycles' \ disturbed' :
        (On(r, d) \/ On(r, d)') /\ (d \in DOMAIN cycles => AloneOK(r, d)) => AloneOK(r, d)'
  BY <1>2, <1>3, <1>5
<1>7. QED
  BY <1>1, <1>2, <1>4, <1>6, CycleOne

(* Whoever begins to answer a completed task in the end is not asked to. *)
LEMMA CycleSubmit ==
  ASSUME TInv, LoneInv, LoneInv', CycleInv, NEW r \in Requests, NEW a \in Actors, NEW t \in DOMAIN tasks, NEW ro \in Answers,
         SubmitReviewResponse(r, a, t, ro)
  PROVE  CycleInv'
<1>0. PICK c : c = t[1]
  OBVIOUS
<1>1. /\ pc[r] = "new" /\ pc'[r] = "respond" /\ req'[r].thing = c /\ req'[r].task = t /\ Elsewhere(r)
  BY <1>0, SubmitTypes DEF SubmitReviewResponse, Starts
<1>2. /\ MaySubmit(a, t) /\ UNCHANGED <<cycles, tasks, selected>>
      /\ claimed' = IF ro # DefaultRole(a) \/ RoleOf[a] \notin Answering THEN claimed \cup {t} ELSE claimed
  BY DEF SubmitReviewResponse, rows
<1>3. disturbed \subseteq disturbed'
  BY DEF SubmitReviewResponse, BeginOn
<1>4. claimed \subseteq claimed'
  BY <1>2
<1>5. \A d : ~On(r, d) /\ (On(r, d)' <=> d = c)
  BY <1>1 DEF On, Busy
<1>6. \A d \in DOMAIN cycles' : Untouched(d)
  BY <1>2, <1>4 DEF Untouched
<1>7. ASSUME c \in DOMAIN cycles, AloneOK(r, c)
      PROVE  AloneOK(r, c)'
  <2>1. Doing(r, c) = "done" /\ Doing(r, c)' = "respond"
    BY <1>1, <1>5 DEF Doing
  <2>2. Tasked(c)' = Tasked(c)
    BY <1>2 DEF Tasked
  <2>3. ASSUME cycles[c].status = "closed", t \notin claimed'
        PROVE  FALSE
    <3>1. tasks[t].status = "completed"
      BY <1>0, <1>4, <1>7, <2>1, <2>3 DEF AloneOK
    <3>2. RoleOf[a] \in Answering
      BY <1>2, <2>3
    <3>3. QED
      BY <1>2, <3>1, <3>2 DEF MaySubmit, Answering
  <2>4. QED
    BY <1>1, <1>2, <1>4, <1>7, <2>1, <2>2, <2>3 DEF AloneOK
<1>8. \A d \in DOMAIN cycles' \ disturbed' :
        (On(r, d) \/ On(r, d)') /\ (d \in DOMAIN cycles => AloneOK(r, d)) => AloneOK(r, d)'
  BY <1>2, <1>5, <1>7
<1>9. QED
  BY <1>1, <1>3, <1>6, <1>8, CycleOne

LEMMA CycleRespond ==
  ASSUME TInv, LoneInv, LoneInv', CycleInv, NEW r \in Requests, CreateReviewResponse(r)
  PROVE  CycleInv'
<1>1. pc[r] = "respond" /\ pc'[r] = "advance" /\ req'[r] = req[r] /\ Elsewhere(r)
  BY RespondTypes
<1>2. UNCHANGED <<cycles, tasks, selected, claimed, disturbed>>
  BY DEF CreateReviewResponse, history
<1>3. \A c \in DOMAIN cycles' : Untouched(c)
  BY <1>2 DEF Untouched
<1>4. ASSUME NEW c \in DOMAIN cycles, On(r, c) \/ On(r, c)', AloneOK(r, c)
      PROVE  AloneOK(r, c)'
  <2>1. Doing(r, c) = "respond" /\ Doing(r, c)' = "advance"
    BY <1>1, <1>4 DEF Doing, On, Busy
  <2>2. Tasked(c)' = Tasked(c)
    BY <1>2 DEF Tasked
  <2>3. QED
    BY <1>1, <1>2, <1>4, <2>1, <2>2 DEF AloneOK
<1>5. QED
  BY <1>1, <1>2, <1>3, <1>4, CycleOne

LEMMA CycleAdvance ==
  ASSUME TInv, LoneInv, LoneInv', CycleInv, NEW r \in Requests, AdvanceTask(r)
  PROVE  CycleInv'
<1>0. PICK task, c : task = req[r].task /\ c = req[r].thing
  OBVIOUS
<1>1. /\ pc[r] = "advance" /\ pc'[r] = "done" /\ Elsewhere(r) /\ task[1] = c /\ DOMAIN tasks' = DOMAIN tasks
      /\ \A t \in DOMAIN tasks \ {task} : tasks'[t] = tasks[t]
  BY <1>0, AdvanceTypes
<1>2. UNCHANGED <<cycles, selected, claimed, disturbed>>
  BY DEF AdvanceTask, history
<1>3. \A d : (On(r, d) <=> d = c) /\ ~On(r, d)'
  BY <1>0, <1>1 DEF On, Busy
<1>4. \A d \in DOMAIN cycles' \ disturbed' : ~On(r, d) => Untouched(d)
  BY <1>1, <1>2, <1>3 DEF Untouched
<1>5. ASSUME AloneOK(r, c)
      PROVE  AloneOK(r, c)'
  <2>1. Doing(r, c) = "advance" /\ Doing(r, c)' = "done"
    BY <1>1, <1>3 DEF Doing
  <2>2. Tasked(c)' = Tasked(c)
    BY <1>1 DEF Tasked
  <2>3. cycles[c].status = "closed" => task \in claimed
    BY <1>0, <1>5, <2>1 DEF AloneOK
  <2>4. QED
    BY <1>1, <1>2, <1>5, <2>1, <2>2, <2>3 DEF AloneOK
<1>6. \A d \in DOMAIN cycles' \ disturbed' :
        (On(r, d) \/ On(r, d)') /\ (d \in DOMAIN cycles => AloneOK(r, d)) => AloneOK(r, d)'
  BY <1>2, <1>3, <1>5
<1>7. QED
  BY <1>1, <1>2, <1>4, <1>6, CycleOne


LEMMA CycleStep ==
  ASSUME TInv, LoneInv, LoneInv', CycleInv, [Next]_vars
  PROVE  CycleInv'
<1>1. CASE \/ UNCHANGED vars
           \/ \E e \in Moving, m \in Staff \cup {None} : Reassign(e, m)
  <2>1. UNCHANGED <<cycles, tasks, selected, claimed, pc, req, disturbed>>
    BY <1>1, ReassignTypes DEF vars, rows, history
  <2>2. ASSUME NEW c \in DOMAIN cycles' \ disturbed' PROVE CycleOK(c)'
    <3>1. Untouched(c) /\ CycleOK(c)
      BY <2>1, <2>2 DEF Untouched, CycleInv
    <3>2. QED
      BY <2>1, <3>1, CycleFrame
  <2>3. QED
    BY <2>2 DEF CycleInv
<1>2. ASSUME NEW r \in Requests, Finish(r), Plain(r), UNCHANGED <<cycles, tasks, selected, claimed, disturbed>>
      PROVE  CycleInv'
  <2>1. Elsewhere(r) /\ pc'[r] = "done"
    BY <1>2, FinishMoves
  <2>2. Plain(r)'
    BY <2>1 DEF Plain
  <2>3. QED
    BY <1>2, <2>1, <2>2, CyclePlain
<1>3. ASSUME NEW r \in Requests, NEW a \in Actors, NEW e \in Staff, NEW m \in Staff \cup {None}, NEW dated \in BOOLEAN,
             CreateGoal(r, a, e, m, dated) \/ CreatePIP(r, a, e, m) \/ CreateCheckin(r, a, e, m) \/ CreateFeedback(r, a, e)
      PROVE  CycleInv'
  BY <1>2, <1>3 DEF CreateGoal, CreatePIP, CreateCheckin, CreateFeedback, Starts, Plain, history
<1>4. ASSUME NEW r \in Requests, NEW a \in Actors, NEW p \in DOMAIN pips, NEW status, UpdatePIP(r, a, p, status)
      PROVE  CycleInv'
  BY <1>2, <1>4 DEF UpdatePIP, Starts, Plain, history
<1>5. ASSUME NEW r \in Requests, NEW thing, NEW label \in {"goal", "close"}, NEW knows, BeginOn(r, thing, label, knows),
             Starts(r), UNCHANGED <<rows, history>>
      PROVE  CycleInv'
  <2>1. label \in Labels \ {"new", "done"}
    BY DEF Labels
  <2>2. pc'[r] = label /\ Elsewhere(r) /\ disturbed \subseteq disturbed'
    BY <1>5, <2>1, BeginOnMoves
  <2>3. Plain(r) /\ Plain(r)' /\ UNCHANGED <<cycles, tasks, selected, claimed>>
    BY <1>5, <2>2 DEF Plain, Starts, rows, history
  <2>4. QED
    BY <2>2, <2>3, CyclePlain
<1>6. ASSUME NEW r \in Requests, NEW a \in Actors, NEW g \in DOMAIN goals, NEW sent \in SUBSET Columns, UpdateGoal(r, a, g, sent)
      PROVE  CycleInv'
  BY <1>5, <1>6 DEF UpdateGoal
<1>7. ASSUME NEW r \in Requests, NEW a \in Actors, NEW c \in DOMAIN cycles, FinalizeReviewCycle(r, a, c)
      PROVE  CycleInv'
  BY <1>5, <1>7 DEF FinalizeReviewCycle
<1>8. ASSUME NEW r \in Requests,
             \/ WriteGoal(r) \/ SelectEmployees(r) \/ CloseCycle(r) \/ CompleteTasks(r)
             \/ CreateReviewResponse(r) \/ AdvanceTask(r) \/ Fail(r)
             \/ \E e \in Staff : CreateReviewTask(r, e) \/ TaskFails(r, e)
      PROVE  CycleInv'
  <2>1. CASE WriteGoal(r)
    BY <1>2, <2>1 DEF WriteGoal, Plain
  <2>2. CASE SelectEmployees(r) \/ CloseCycle(r) \/ CompleteTasks(r) \/ CreateReviewResponse(r) \/ AdvanceTask(r)
    BY <2>2, CycleSelect, CycleClose, CycleComplete, CycleRespond, CycleAdvance
  <2>3. CASE Fail(r)
    BY <2>3, FailTypes, CycleFails DEF rows, history
  <2>4. ASSUME NEW e \in Staff, CreateReviewTask(r, e)
        PROVE  CycleInv'
    BY <2>4, CycleTask
  <2>5. ASSUME NEW e \in Staff, TaskFails(r, e)
        PROVE  CycleInv'
    BY <2>5, TaskFailsTypes, CycleFails DEF rows, history, Busy
  <2>6. QED
    BY <1>8, <2>1, <2>2, <2>3, <2>4, <2>5
<1>9. QED
  BY <1>1, <1>3, <1>4, <1>6, <1>7, <1>8, CycleCreate, CycleSubmit, NextCases

(* A cycle has a task for everyone its list of employees had or for nobody, the list *)
(* being perhaps cut short, and once closed none that is open; and a goal has the     *)
(* title and progress last asked for: of all cycles and goals of which no two         *)
(* requests overlapped and none stopped half way.                                     *)
THEOREM UndisturbedStands == Spec => []UpdatesStand
<1>1. Init => GoalInv /\ CycleInv
  <2>1. SUFFICES ASSUME Init PROVE GoalInv /\ CycleInv
    OBVIOUS
  <2>2. /\ goals = <<>> /\ pc = [r \in Requests |-> "new"] /\ req = [r \in Requests |-> NoReq]
        /\ cycles = [c \in {Past} |-> [status |-> "active", hr |-> HRRequired]]
        /\ DOMAIN tasks = {Past} \X selected[Past] /\ selected[Past] = {e \in Accounts : manager[e] # None}
    BY <2>1 DEF Init
  <2>3. GoalInv
    BY <2>2 DEF GoalInv, MergeOK
  <2>4. Tasked(Past) = selected[Past]
    BY <2>2, PerformanceAssumption DEF Tasked
  <2>5. DOMAIN cycles = {Past} /\ cycles[Past].status = "active"
    BY <2>2
  <2>6. CycleOK(Past)
    BY <2>2, <2>4, <2>5 DEF CycleOK, At
  <2>7. QED
    BY <2>3, <2>5, <2>6 DEF CycleInv
<1>2. TInv /\ LoneInv /\ GoalInv /\ [Next]_vars => GoalInv'
  BY GoalStep
<1>3. TInv /\ LoneInv /\ LoneInv' /\ CycleInv /\ [Next]_vars => CycleInv'
  BY CycleStep
<1>4. TInv /\ GoalInv /\ CycleInv => UpdatesStand
  <2>1. SUFFICES ASSUME TInv, GoalInv, CycleInv PROVE UpdatesStand
    OBVIOUS
  <2>2. ASSUME NEW c \in DOMAIN cycles, Settled(c)
        PROVE  /\ {t[2] : t \in {u \in DOMAIN tasks : u[1] = c}} \in {{}, selected[c]}
               /\ cycles[c].status = "closed" =>
                    \A t \in DOMAIN tasks \ claimed : t[1] = c => tasks[t].status = "completed"
    <3>1. CycleOK(c) /\ ~At(c, {"select", "task"}) /\ ~At(c, {"complete"})
      BY <2>1, <2>2 DEF CycleInv, Settled, At
    <3>2. {t[2] : t \in {u \in DOMAIN tasks : u[1] = c}} = Tasked(c)
      <4>1. \A t \in DOMAIN tasks : t = <<t[1], t[2]>> /\ t[2] \in Staff
        BY <2>1 DEF TInv, CyclesOK
      <4>2. QED
        BY <4>1 DEF Tasked
    <3>3. QED
      BY <3>1, <3>2 DEF CycleOK
  <2>3. ASSUME claimed = {}, \A c \in DOMAIN cycles : Settled(c) /\ cycles[c].status = "closed",
               NEW a \in Actors, RoleOf[a] = "HR"
        PROVE  Summary(a).completed = Summary(a).total
    <3>1. \A t \in DOMAIN tasks : tasks[t].status = "completed"
      BY <2>1, <2>2, <2>3 DEF TInv, CyclesOK
    <3>2. Shown(a) /\ ManagerEmployeeID(a) = None
      BY <2>3 DEF Shown, ManagerEmployeeID
    <3>3. SummaryTasks(None) = DOMAIN tasks /\ {t \in DOMAIN tasks : tasks[t].status = "completed"} = DOMAIN tasks
      BY <3>1 DEF SummaryTasks
    <3>4. Summary(a) = [total |-> Cardinality(DOMAIN tasks), completed |-> Cardinality(DOMAIN tasks)]
      BY <3>2, <3>3 DEF Summary
    <3>5. QED
      BY <3>4
  <2>4. \A g \in DOMAIN goals : Settled(g) => goals[g].title = asked[g].title /\ goals[g].progress = asked[g].progress
    BY <2>1 DEF GoalInv, GoalOK, Settled
  <2>5. QED
    BY <2>2, <2>3, <2>4 DEF UpdatesStand
<1>5. QED
  BY <1>1, <1>2, <1>3, <1>4, Typed, Lone, PTL DEF Spec
=============================================================================
