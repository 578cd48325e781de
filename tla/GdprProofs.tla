----------------------------- MODULE GdprProofs -----------------------------
(* Proofs about Gdpr for any rows, requests, edits and policies.                  *)
EXTENDS Gdpr, TLAPS

(* A step of request r. *)
Step(r) == Begins(r) \/ Advance(r) \/ ExecutionFails(r) \/ CollectFails(r) \/ PurgeFails(r) \/ Leave(r)

(* No request that has yet to begin is among the ids. *)
Past(ids) == \A q \in Requests : pc[q] = "new" => q \notin ids

AnonKnows == [task : {"job"}, job : Ids, of : Employees \cup {None}, i : 1..(Len(AnonSteps) + 1),
              touched : SUBSET Ids, had : SUBSET Ids]
CollectKnows == [task : {"export"}, of : Employees \cup {None}, i : 1..(Len(Sections) + 1),
                 got : SUBSET Ids, missing : SUBSET Exported, had : SUBSET Ids]
PurgeKnows == [task : {"purge"}, category : DOMAIN Purges, i : Nat \ {0}, todo : SUBSET DOMAIN Purges,
               periods : SUBSET Ids, status : {"completed", "failed"}, recorded : BOOLEAN]

(* The job that a request executes is there, and retention cannot delete it. *)
JobStands(r) ==
  /\ req[r].job \in DOMAIN rows
  /\ rows[req[r].job].kind = "job" /\ rows[req[r].job].of = req[r].of
  /\ ~(rows[req[r].job].old /\ rows[req[r].job].text = "completed")

(* The first i - 1 statements of an anonymization write rows of this kind. *)
Reached(kind, i) == (\E k \in 1..(i - 1) : kind = AnonSteps[k]) \/ (kind = "nickname" /\ i > 1)

TouchedOwn(r) ==
  \A id \in req[r].touched \cap DOMAIN rows :
    id = req[r].job \/ (rows[id].of = req[r].of /\ Reached(rows[id].kind, req[r].i))

(* The periods that a run has selected are old as long as they are there. *)
PeriodsOld(periods) ==
  /\ periods \subseteq Ids /\ Past(periods)
  /\ \A p \in periods \cap DOMAIN rows : rows[p].kind = "period" /\ rows[p].old

KnowOK(r) ==
  /\ pc[r] \in {"lock", "anon"} => req[r] \in AnonKnows /\ JobStands(r) /\ Past(req[r].touched) /\ Past(req[r].had)
  /\ pc[r] = "lock" => req[r].i = 1
  /\ pc[r] = "anon" => TouchedOwn(r)
  /\ pc[r] \in {"fail", "report"} =>
       /\ req[r].job \in Ids /\ Past({req[r].job})
       /\ req[r].job \in DOMAIN rows => rows[req[r].job].kind = "job"
  /\ pc[r] = "collect" => req[r] \in CollectKnows /\ Past(req[r].had)
  /\ pc[r] \in {"collect", "save", "unsaved"} /\ r \in DOMAIN rows => rows[r].kind = "export"
  /\ pc[r] = "start" => req[r].todo \subseteq DOMAIN Purges /\ req[r].recorded \in BOOLEAN
  /\ pc[r] = "purge" => req[r].i <= Len(Purges[req[r].category])
  /\ pc[r] \in {"purge", "record"} => req[r] \in PurgeKnows /\ PeriodsOld(req[r].periods)

RowsOK ==
  /\ DOMAIN rows \subseteq Ids /\ Past(DOMAIN rows)
  /\ \A id \in DOMAIN rows :
       /\ rows[id] \in RowType /\ MayBeUnder(rows, rows[id].kind, rows[id].parent)
       /\ rows[id].kind \in {"payslip", "comment"} => ~rows[id].old

TInv == TypeOK /\ RowsOK /\ DOMAIN req = Requests /\ \A r \in Requests : KnowOK(r)

(* What a step may do to the row of an id. *)
Stays(id) ==
  /\ rows'[id].kind = rows[id].kind /\ rows'[id].of = rows[id].of /\ rows'[id].by = rows[id].by
  /\ rows'[id].old => rows[id].old
  /\ rows[id].kind = "period" => rows'[id].old = rows[id].old
  /\ rows'[id].old /\ rows'[id].text = "completed" => rows[id].text = "completed"

Comes(id) == id \in Requests /\ pc[id] = "new" /\ pc'[id] # "new" /\ ~rows'[id].old /\ rows'[id].text # "completed"

Goes(id) ==
  /\ Aged(rows, id) \/ (rows[id].kind = "contact" /\ \E j \in DOMAIN rows' :
       rows'[j].kind = "job" /\ rows'[j].text = "completed" /\ rows'[j].of = rows[id].of)
  /\ rows[id].kind \in {"export", "job"} => rows[id].old /\ rows[id].text = "completed"

Evolves ==
  /\ \A id \in DOMAIN rows' : IF id \in DOMAIN rows THEN Stays(id) ELSE Comes(id)
  /\ \A id \in DOMAIN rows \ DOMAIN rows' : Goes(id)

-----------------------------------------------------------------------------
(* The tables of names *)

LEMMA Steps ==
  /\ Len(AnonSteps) = 9 /\ DOMAIN AnonSteps = 1..9
  /\ AnonSteps[1] = "profile" /\ AnonSteps[2] = "user" /\ AnonSteps[3] = "leave" /\ AnonSteps[4] = "goal"
  /\ AnonSteps[5] = "feedback" /\ AnonSteps[6] = "checkin" /\ AnonSteps[7] = "pip" /\ AnonSteps[8] = "payslip"
  /\ AnonSteps[9] = "contact"
BY DEF AnonSteps

AnonKinds == {"profile", "user", "leave", "goal", "feedback", "checkin", "pip", "payslip", "contact"}

LEMMA StepKinds ==
  /\ \A i \in 1..9 : AnonSteps[i] \in AnonKinds
  /\ \A kind \in AnonKinds : \E i \in 1..9 : AnonSteps[i] = kind
  /\ Blankable = AnonKinds \cup {"nickname"}
<1>1. \A i \in 1..9 : AnonSteps[i] \in AnonKinds
  BY Steps DEF AnonKinds
<1>2. \A kind \in AnonKinds : \E i \in 1..9 : AnonSteps[i] = kind
  BY Steps DEF AnonKinds
<1>3. Blankable = AnonKinds \cup {"nickname"}
  BY DEF Blankable, AnonKinds
<1>4. QED
  BY <1>1, <1>2, <1>3

LEMMA StepsDiffer == \A i, k \in 1..9 : AnonSteps[i] = AnonSteps[k] => i = k
BY Steps

LEMMA SectionNames ==
  /\ Len(Sections) = 12 /\ DOMAIN Sections = 1..12
  /\ Sections[1] = "profile" /\ Sections[2] = "leave" /\ Sections[3] = "payslip" /\ Sections[4] = "goal"
  /\ Sections[5] = "comment" /\ Sections[6] = "feedback" /\ Sections[7] = "checkin" /\ Sections[8] = "pip"
  /\ Sections[9] = "task" /\ Sections[10] = "response" /\ Sections[11] = "consent" /\ Sections[12] = "contact"
BY DEF Sections

LEMMA PurgeNames ==
  /\ DOMAIN Purges = {"leave", "payroll", "performance", "gdpr", "emergency_contacts", "employee_profile"}
  /\ \A c \in DOMAIN Purges : Len(Purges[c]) \in Nat \ {0} /\ DOMAIN Purges[c] = 1..Len(Purges[c])
BY DEF Purges

LEMMA Keys ==
  /\ DOMAIN ForeignKey = {"approval", "payslip", "task", "response", "comment", "feedback"}
  /\ ForeignKey["approval"] = "leave" /\ ForeignKey["payslip"] = "period" /\ ForeignKey["task"] = "cycle"
  /\ ForeignKey["response"] = "task" /\ ForeignKey["comment"] = "goal" /\ ForeignKey["feedback"] = "goal"
BY DEF ForeignKey

LEMMA KindsKnown ==
  Kinds = {"profile", "user", "leave", "goal", "feedback", "checkin", "pip", "payslip", "contact", "nickname",
           "approval", "period", "cycle", "task", "response", "comment", "consent", "export", "job"}
BY StepKinds DEF Kinds, AnonKinds

-----------------------------------------------------------------------------
(* What steps have in common *)

LEMMA GotoMoves ==
  ASSUME TInv, NEW r \in Requests, NEW label \in Labels \ {"new"}, NEW knows, Goto(r, label, knows)
  PROVE  /\ pc'[r] = label /\ req'[r] = knows
         /\ \A q \in Requests \ {r} : pc'[q] = pc[q] /\ req'[q] = req[q]
         /\ DOMAIN req' = Requests /\ pc' \in [Requests -> Labels]
         /\ \A q \in Requests : pc'[q] = "new" => pc[q] = "new"
<1>1. pc \in [Requests -> Labels] /\ DOMAIN req = Requests
  BY DEF TInv, TypeOK
<1>2. QED
  BY <1>1 DEF Goto

LEMMA FinishMoves ==
  ASSUME TInv, NEW r \in Requests, Finish(r)
  PROVE  /\ pc'[r] = "done"
         /\ \A q \in Requests \ {r} : pc'[q] = pc[q] /\ req'[q] = req[q]
         /\ \A q \in Requests : pc'[q] = "new" => pc[q] = "new"
<1>1. Goto(r, "done", NoReq) /\ "done" \in Labels \ {"new"}
  BY DEF Finish, Labels
<1>2. QED
  BY <1>1, GotoMoves

(* What a request knows stays right while the rows evolve. *)
LEMMA OthersKnow ==
  ASSUME TInv, NEW q \in Requests, pc'[q] = pc[q], req'[q] = req[q], pc[q] # "new",
         \A s \in Requests : pc'[s] = "new" => pc[s] = "new", Evolves
  PROVE  KnowOK(q)'
<1>1. KnowOK(q)
  BY DEF TInv
<1>2. CASE pc[q] \in {"lock", "anon"}
  <2>1. req[q] \in AnonKnows /\ JobStands(q) /\ Past(req[q].touched) /\ Past(req[q].had)
    BY <1>1, <1>2 DEF KnowOK
  <2>2. req[q].job \in DOMAIN rows'
    BY <2>1 DEF JobStands, Evolves, Goes
  <2>3. JobStands(q)'
    BY <2>1, <2>2 DEF JobStands, Evolves, Stays
  <2>4. Past(req[q].touched)' /\ Past(req[q].had)'
    BY <2>1 DEF Past
  <2>5. pc[q] = "anon" => TouchedOwn(q)'
    <3> SUFFICES ASSUME pc[q] = "anon", NEW id \in req[q].touched \cap DOMAIN rows'
                 PROVE  id = req[q].job \/ (rows'[id].of = req[q].of /\ Reached(rows'[id].kind, req[q].i))
      BY DEF TouchedOwn, Reached
    <3>1. id \in DOMAIN rows /\ Stays(id)
      BY <2>1 DEF Evolves, Comes, Past
    <3>2. id = req[q].job \/ (rows[id].of = req[q].of /\ Reached(rows[id].kind, req[q].i))
      BY <1>1, <3>1 DEF KnowOK, TouchedOwn
    <3>3. QED
      BY <3>1, <3>2 DEF Stays
  <2>6. QED
    BY <1>1, <1>2, <2>1, <2>3, <2>4, <2>5 DEF KnowOK
<1>3. CASE pc[q] \in {"collect", "save", "unsaved"}
  <2>1. q \in DOMAIN rows' => rows'[q].kind = "export"
    BY <1>1, <1>3 DEF KnowOK, Evolves, Comes, Stays
  <2>2. pc[q] = "collect" => req[q] \in CollectKnows /\ Past(req[q].had)'
    BY <1>1 DEF KnowOK, Past
  <2>3. QED
    BY <1>3, <2>1, <2>2 DEF KnowOK
<1>4. CASE pc[q] \in {"fail", "report"}
  <2>1. req[q].job \in Ids /\ Past({req[q].job}) /\ (req[q].job \in DOMAIN rows => rows[req[q].job].kind = "job")
    BY <1>1, <1>4 DEF KnowOK
  <2>2. Past({req[q].job})'
    BY <2>1 DEF Past
  <2>3. req[q].job \in DOMAIN rows' => rows'[req[q].job].kind = "job"
    BY <2>1 DEF Past, Evolves, Comes, Stays
  <2>4. QED
    BY <1>4, <2>1, <2>2, <2>3 DEF KnowOK
<1>5. CASE pc[q] \notin {"lock", "anon", "collect", "save", "unsaved", "fail", "report", "purge", "record"}
  BY <1>1, <1>5 DEF KnowOK
<1>6. CASE pc[q] \in {"purge", "record"}
  <2>1. /\ pc[q] = "purge" => req[q].i <= Len(Purges[req[q].category])
        /\ req[q] \in PurgeKnows /\ PeriodsOld(req[q].periods)
    BY <1>1, <1>6 DEF KnowOK
  <2>2. PeriodsOld(req[q].periods)'
    BY <2>1 DEF PeriodsOld, Past, Evolves, Comes, Stays
  <2>3. QED
    BY <1>6, <2>1, <2>2 DEF KnowOK
<1>7. QED
  BY <1>2, <1>3, <1>4, <1>5, <1>6

(* What TInv says of the variables but rows. *)
Columns == /\ reports \subseteq Ids /\ DOMAIN files \subseteq Requests
           /\ policies \subseteq DOMAIN Purges
           /\ {run.status : run \in runs} \subseteq {"completed", "failed"}

LEMMA StepKeeps ==
  ASSUME TInv, NEW r \in Requests, NEW label \in Labels \ {"new"}, NEW knows, Goto(r, label, knows),
         RowsOK', Evolves, Columns', KnowOK(r)'
  PROVE  TInv'
<1>1. /\ \A q \in Requests \ {r} : pc'[q] = pc[q] /\ req'[q] = req[q]
      /\ DOMAIN req' = Requests /\ pc' \in [Requests -> Labels]
      /\ \A q \in Requests : pc'[q] = "new" => pc[q] = "new"
  BY GotoMoves
<1>2. ASSUME NEW q \in Requests \ {r} PROVE KnowOK(q)'
  <2>1. CASE pc[q] = "new"
    BY <1>1, <2>1 DEF KnowOK
  <2>2. CASE pc[q] # "new"
    BY <1>1, <2>2, OthersKnow
  <2>3. QED
    BY <2>1, <2>2
<1>3. TypeOK'
  BY <1>1 DEF TypeOK, RowsOK, Columns
<1>4. QED
  BY <1>1, <1>2, <1>3 DEF TInv

LEMMA Tables == TInv => RowsOK /\ Columns
BY DEF TInv, TypeOK, Columns

(* The rows stay as they are. *)
LEMMA RowsStay ==
  ASSUME TInv, UNCHANGED rows, \A q \in Requests : pc'[q] = "new" => pc[q] = "new"
  PROVE  RowsOK' /\ Evolves
<1>1. Evolves
  BY DEF Evolves, Stays
<1>2. RowsOK'
  BY Tables DEF RowsOK, Past
<1>3. QED
  BY <1>1, <1>2

LEMMA FinishKeeps ==
  ASSUME TInv, NEW r \in Requests, Finish(r), RowsOK', Evolves, Columns'
  PROVE  TInv'
<1>1. Goto(r, "done", NoReq) /\ "done" \in Labels \ {"new"}
  BY DEF Finish, Labels
<1>2. KnowOK(r)'
  BY <1>1, GotoMoves DEF KnowOK
<1>3. QED
  BY <1>1, <1>2, StepKeeps

(* A row comes. *)
LEMMA InsertKeeps ==
  ASSUME TInv, NEW r \in Requests, pc[r] = "new", pc'[r] # "new",
         \A q \in Requests : pc'[q] = "new" => pc[q] = "new",
         NEW row \in RowType, MayBeUnder(rows, row.kind, row.parent), ~row.old, row.text # "completed",
         Insert(r, row)
  PROVE  RowsOK' /\ Evolves
<1>1. r \notin DOMAIN rows /\ DOMAIN rows' = DOMAIN rows \cup {r}
  BY Tables DEF RowsOK, Past, Insert, Put
<1>2. rows'[r] = row /\ \A id \in DOMAIN rows : rows'[id] = rows[id]
  BY <1>1 DEF Insert, Put
<1>3. Evolves
  BY <1>1, <1>2 DEF Evolves, Stays, Comes
<1>4. \A kind, parent : MayBeUnder(rows, kind, parent) => MayBeUnder(rows', kind, parent)
  BY <1>1, <1>2 DEF MayBeUnder
<1>5. \A id \in DOMAIN rows' : rows'[id] \in RowType /\ MayBeUnder(rows', rows'[id].kind, rows'[id].parent)
  BY <1>1, <1>2, <1>4, Tables DEF RowsOK
<1>6. \A id \in DOMAIN rows' : rows'[id].kind \in {"payslip", "comment"} => ~rows'[id].old
  BY <1>1, <1>2, Tables DEF RowsOK
<1>7. DOMAIN rows' \subseteq Ids /\ Past(DOMAIN rows)'
  BY <1>1, Tables DEF RowsOK, Past, Ids
<1>8. QED
  BY <1>3, <1>5, <1>6, <1>7 DEF RowsOK

(* Rows are written, and some go that nothing which stays is under. *)
LEMMA RewriteKeeps ==
  ASSUME TInv, \A q \in Requests : pc'[q] = "new" => pc[q] = "new", DOMAIN rows' \subseteq DOMAIN rows,
         \A id \in DOMAIN rows' :
           /\ Stays(id) /\ rows'[id] \in RowType
           /\ rows'[id].parent = rows[id].parent \/ rows'[id].parent = None
           /\ rows'[id].parent \in DOMAIN rows => rows'[id].parent \in DOMAIN rows',
         \A id \in DOMAIN rows \ DOMAIN rows' : Goes(id)
  PROVE  RowsOK' /\ Evolves
<1>1. Evolves
  BY DEF Evolves
<1>2. ASSUME NEW id \in DOMAIN rows' PROVE MayBeUnder(rows', rows'[id].kind, rows'[id].parent)
  <2>1. MayBeUnder(rows, rows[id].kind, rows[id].parent) /\ rows'[id].kind = rows[id].kind
    BY Tables DEF RowsOK, Stays
  <2>2. QED
    BY <2>1 DEF MayBeUnder, Stays
<1>3. \A id \in DOMAIN rows' : rows'[id].kind \in {"payslip", "comment"} => ~rows'[id].old
  BY Tables DEF RowsOK, Stays
<1>4. DOMAIN rows' \subseteq Ids /\ Past(DOMAIN rows)'
  BY Tables DEF RowsOK, Past
<1>5. QED
  BY <1>1, <1>2, <1>3, <1>4 DEF RowsOK

LEMMA StayKeeps ==
  ASSUME TInv, NEW r \in Requests, NEW label \in Labels \ {"new"}, NEW knows, Goto(r, label, knows),
         UNCHANGED rows, Columns', KnowOK(r)'
  PROVE  TInv'
<1>1. \A q \in Requests : pc'[q] = "new" => pc[q] = "new"
  BY GotoMoves
<1>2. RowsOK' /\ Evolves
  BY <1>1, RowsStay
<1>3. QED
  BY <1>2, StepKeeps

LEMMA ColumnsStay == ASSUME TInv, UNCHANGED <<reports, files, policies, runs>> PROVE Columns'
BY Tables DEF Columns

-----------------------------------------------------------------------------
(* The steps, one by one: their rows and what the request knows *)

LEMMA InitTInv == Init => TInv
<1> SUFFICES ASSUME Init PROVE TInv
  OBVIOUS
<1>1. rows = Initial /\ pc = [r \in Requests |-> "new"] /\ req = [r \in Requests |-> NoReq]
  BY DEF Init
<1>2. RowsOK
  BY <1>1, GdprAssumption DEF RowsOK, Past, Ids
<1>3. Columns
  BY GdprAssumption DEF Init, Columns
<1>4. \A r \in Requests : KnowOK(r)
  BY <1>1 DEF KnowOK
<1>5. TypeOK
  BY <1>1, <1>2, <1>3 DEF TypeOK, RowsOK, Columns, Labels
<1>6. QED
  BY <1>1, <1>2, <1>4, <1>5 DEF TInv

(* The rows that the requests insert. *)
LEMMA NewRow ==
  ASSUME NEW kind \in Kinds, NEW e \in Employees \cup {None}, NEW a \in Actors, NEW text \in Texts
  PROVE  /\ Row(kind, e, a, text) \in RowType /\ ~Row(kind, e, a, text).old
         /\ Row(kind, e, a, text).kind = kind /\ Row(kind, e, a, text).text = text
         /\ Row(kind, e, a, text).of = e /\ Row(kind, e, a, text).by = a
         /\ MayBeUnder(rows, Row(kind, e, a, text).kind, Row(kind, e, a, text).parent)
BY DEF Row, RowType, MayBeUnder

LEMMA InsertSteps ==
  ASSUME TInv, NEW r \in Requests, NEW a \in Actors, NEW e \in Employees,
         CreateConsent(r, a, e) \/ RequestAnonymization(r, a, e)
  PROVE  TInv' /\ Evolves
<1>1. PICK kind \in {"consent", "job"}, text \in {"personal", "requested"} : Insert(r, Row(kind, e, a, text))
  BY DEF CreateConsent, RequestAnonymization
<1>2. pc[r] = "new" /\ Finish(r) /\ UNCHANGED <<reports, files, policies, runs>>
  BY DEF CreateConsent, RequestAnonymization, Starts
<1>3. kind \in Kinds /\ text \in Texts /\ text # "completed"
  BY KindsKnown DEF Texts, JobStatuses
<1>4. pc'[r] # "new" /\ \A q \in Requests : pc'[q] = "new" => pc[q] = "new"
  BY <1>2, FinishMoves
<1>5. RowsOK' /\ Evolves
  BY <1>1, <1>2, <1>3, <1>4, NewRow, InsertKeeps
<1>6. QED
  BY <1>2, <1>5, ColumnsStay, FinishKeeps

LEMMA WriteStep ==
  ASSUME TInv, NEW r \in Requests, NEW w \in Writable, Write(r, w.by, w.kind, w.of, w.parent)
  PROVE  TInv' /\ Evolves
<1>1. w.by \in Actors /\ w.kind \in Kinds /\ w.of \in Employees \cup {None} /\ w.parent \in Ids \cup {None}
  BY GdprAssumption
<1> DEFINE row == [Row(w.kind, w.of, w.by, "personal") EXCEPT !.parent = w.parent]
<1>2. /\ row \in RowType /\ ~row.old /\ row.text # "completed" /\ row.kind = w.kind /\ row.parent = w.parent
  BY <1>1 DEF Row, RowType, Texts
<1>3. /\ pc[r] = "new" /\ Finish(r) /\ UNCHANGED <<reports, files, policies, runs>>
      /\ MayBeUnder(rows, w.kind, w.parent) /\ Insert(r, row)
  BY DEF Write, Starts
<1> HIDE DEF row
<1>4. pc'[r] # "new" /\ \A q \in Requests : pc'[q] = "new" => pc[q] = "new"
  BY <1>3, FinishMoves
<1>5. RowsOK' /\ Evolves
  BY <1>2, <1>3, <1>4, InsertKeeps
<1>6. QED
  BY <1>3, <1>5, ColumnsStay, FinishKeeps

LEMMA RequestDSARStep ==
  ASSUME TInv, NEW r \in Requests, NEW a \in Actors, NEW e \in Employees, RequestDSAR(r, a, e)
  PROVE  TInv' /\ Evolves
<1> DEFINE knows == [task |-> "export", of |-> e, i |-> 1, got |-> {}, missing |-> {}, had |-> DataOf(e)]
<1>1. /\ pc[r] = "new" /\ Insert(r, Row("export", e, a, "processing"))
      /\ Goto(r, "collect", knows) /\ UNCHANGED <<reports, files, policies, runs>>
  BY DEF RequestDSAR, Starts
<1>2. DataOf(e) \subseteq DOMAIN rows
  BY DEF DataOf
<1>3. knows \in CollectKnows /\ knows.had = DataOf(e)
  BY <1>2, SectionNames, Tables DEF CollectKnows, RowsOK
<1> HIDE DEF knows
<1>4. "collect" \in Labels \ {"new"} /\ "export" \in Kinds /\ "processing" \in Texts
  BY KindsKnown DEF Labels, Texts, JobStatuses
<1>5. /\ pc'[r] = "collect" /\ req'[r] = knows
      /\ \A q \in Requests : pc'[q] = "new" => pc[q] = "new"
  BY <1>1, <1>4, GotoMoves
<1>6. RowsOK' /\ Evolves
  BY <1>1, <1>4, <1>5, NewRow, InsertKeeps
<1>7. rows'[r].kind = "export"
  BY <1>1, <1>4, NewRow DEF Insert, Put
<1>8. Past(DataOf(e))
  BY <1>2, Tables DEF RowsOK, Past
<1>9. Past(req[r].had)'
  BY <1>3, <1>5, <1>8 DEF Past
<1>10. KnowOK(r)'
  BY <1>3, <1>5, <1>7, <1>9 DEF KnowOK
<1>11. QED
  BY <1>1, <1>4, <1>6, <1>10, ColumnsStay, StepKeeps

(* The steps of a request that only reads. *)
LEMMA EditStep ==
  ASSUME TInv, NEW r \in Requests, NEW id \in DOMAIN rows, Edit(r, id)
  PROVE  TInv'
<1>1. /\ UNCHANGED rows /\ Columns'
      /\ Goto(r, "edit", [task |-> "edit", row |-> id]) /\ "edit" \in Labels \ {"new"}
  BY ColumnsStay DEF Edit, Labels, tables
<1>2. KnowOK(r)'
  BY <1>1, GotoMoves DEF KnowOK
<1>3. QED
  BY <1>1, <1>2, StayKeeps

LEMMA ExecuteStep ==
  ASSUME TInv, NEW r \in Requests, NEW a \in Actors, NEW id \in DOMAIN rows, Execute(r, a, id)
  PROVE  TInv'
<1> DEFINE knows == [task |-> "job", job |-> id, of |-> rows[id].of, i |-> 1, touched |-> {}, had |-> {}]
<1>1. /\ UNCHANGED rows /\ Columns'
      /\ Goto(r, "lock", knows) /\ "lock" \in Labels \ {"new"} /\ rows[id].kind = "job" /\ rows[id].text = "requested"
  BY ColumnsStay DEF Execute, ListAnonymizationJobs, Labels, tables
<1>2. rows[id] \in RowType /\ id \in Ids
  BY Tables DEF RowsOK
<1>3. /\ knows \in AnonKnows /\ knows.job = id /\ knows.of = rows[id].of /\ knows.touched = {} /\ knows.had = {}
      /\ knows.i = 1
  BY <1>2, Steps DEF AnonKnows, RowType
<1> HIDE DEF knows
<1>4. pc'[r] = "lock" /\ req'[r] = knows
  BY <1>1, GotoMoves
<1>5. KnowOK(r)'
  BY <1>1, <1>3, <1>4 DEF KnowOK, JobStands, Past
<1>6. QED
  BY <1>1, <1>5, StayKeeps

LEMMA RunStep ==
  ASSUME TInv, NEW r \in Requests,
         Scheduled(r) \/ \E a \in Actors : \E asked \in {policies} \cup {{c} : c \in policies} : RunRetention(r, a, asked)
  PROVE  TInv'
<1>1. UNCHANGED rows /\ Columns'
  BY ColumnsStay DEF RunRetention, Scheduled, tables
<1>2. PICK todo \in SUBSET policies, recorded \in BOOLEAN :
        Goto(r, "start", [task |-> "run", todo |-> todo, recorded |-> recorded])
  BY DEF RunRetention, Scheduled
<1>3. "start" \in Labels \ {"new"}
  BY DEF Labels
<1>4. pc'[r] = "start" /\ req'[r].todo = todo /\ req'[r].recorded = recorded
  BY <1>2, <1>3, GotoMoves
<1>5. KnowOK(r)'
  BY <1>2, <1>4, Tables DEF KnowOK, Columns
<1>6. QED
  BY <1>1, <1>2, <1>3, <1>5, StayKeeps

LEMMA PolicyStep ==
  ASSUME TInv, NEW r \in Requests, NEW a \in Actors, NEW c \in Saved, SavePolicy(r, a, c)
  PROVE  TInv'
<1>1. Columns'
  BY Tables, GdprAssumption DEF SavePolicy, Columns
<1>2. RowsOK' /\ Evolves /\ Finish(r)
  BY RowsStay, FinishMoves DEF SavePolicy
<1>3. QED
  BY <1>1, <1>2, FinishKeeps

LEMMA LeaveStep == ASSUME TInv, NEW r \in Requests, Leave(r) PROVE TInv'
<1>1. Columns'
  BY ColumnsStay DEF Leave, tables
<1>2. RowsOK' /\ Evolves /\ Finish(r)
  BY RowsStay, FinishMoves DEF Leave, tables
<1>3. QED
  BY <1>1, <1>2, FinishKeeps

-----------------------------------------------------------------------------
(* The rows change and none goes. *)
LEMMA SameRowsKeep ==
  ASSUME TInv, \A q \in Requests : pc'[q] = "new" => pc[q] = "new", DOMAIN rows' = DOMAIN rows,
         \A id \in DOMAIN rows' :
           /\ Stays(id) /\ rows'[id] \in RowType
           /\ rows'[id].parent = rows[id].parent \/ rows'[id].parent = None
  PROVE  RowsOK' /\ Evolves
BY RewriteKeeps

LEMMA TextChanged ==
  ASSUME NEW row \in RowType, NEW text \in Texts
  PROVE  LET new == [row EXCEPT !.text = text]
         IN /\ new \in RowType /\ new.text = text /\ new.kind = row.kind /\ new.of = row.of /\ new.by = row.by
            /\ new.parent = row.parent /\ new.old = row.old
BY DEF RowType

LEMMA AgeChanged ==
  ASSUME NEW row \in RowType
  PROVE  LET new == [row EXCEPT !.old = FALSE]
         IN /\ new \in RowType /\ new.text = row.text /\ new.kind = row.kind /\ new.of = row.of /\ new.by = row.by
            /\ new.parent = row.parent /\ ~new.old
BY DEF RowType

(* One table of rows is another with other texts, or younger. *)
Like(new, old) ==
  /\ new \in RowType /\ new.kind = old.kind /\ new.of = old.of /\ new.by = old.by /\ new.parent = old.parent
  /\ new.old => old.old
  /\ old.kind = "period" => new.old = old.old
  /\ new.old /\ new.text = "completed" => old.text = "completed"

LEMMA WithStatusLike ==
  ASSUME NEW table, \A id \in DOMAIN table : table[id] \in RowType, NEW status \in Texts,
         NEW j, j \in DOMAIN table => table[j].kind # "period"
  PROVE  /\ DOMAIN WithStatus(table, j, status) = DOMAIN table
         /\ \A id \in DOMAIN table :
              /\ Like(WithStatus(table, j, status)[id], table[id])
              /\ id = j => WithStatus(table, j, status)[id].text = status
              /\ id # j => WithStatus(table, j, status)[id] = table[id]
<1> DEFINE New(row) == [row EXCEPT !.text = status, !.old = row.old /\ status # "completed"]
<1>1. \A row \in RowType : row.kind # "period" => Like(New(row), row) /\ New(row).text = status
  BY DEF RowType, Like
<1>2. WithStatus(table, j, status) = [id \in DOMAIN table |-> IF id = j THEN New(table[j]) ELSE table[id]]
  BY DEF WithStatus
<1> HIDE DEF New
<1>3. \A row \in RowType : Like(row, row)
  BY DEF Like
<1>4. QED
  BY <1>1, <1>2, <1>3

LEMMA SetTextLike ==
  ASSUME \A id \in DOMAIN rows : rows[id] \in RowType, NEW ids, NEW text \in Texts \ {"completed"}
  PROVE  /\ DOMAIN SetText(ids, text) = DOMAIN rows
         /\ \A id \in DOMAIN rows :
              /\ Like(SetText(ids, text)[id], rows[id])
              /\ id \in ids => SetText(ids, text)[id].text = text
              /\ id \notin ids => SetText(ids, text)[id] = rows[id]
BY TextChanged DEF SetText, Like

LEMMA TouchedLike ==
  ASSUME NEW table, \A id \in DOMAIN table : table[id] \in RowType, NEW ids, NEW kinds, "period" \notin kinds
  PROVE  /\ DOMAIN Touched(table, ids, kinds) = DOMAIN table
         /\ \A id \in DOMAIN table :
              /\ Like(Touched(table, ids, kinds)[id], table[id])
              /\ Touched(table, ids, kinds)[id].text = table[id].text
              /\ id \notin ids => Touched(table, ids, kinds)[id] = table[id]
BY AgeChanged DEF Touched, Like

LEMMA LikeLike ==
  \A x, y, z : Like(x, y) /\ Like(y, z) => Like(x, z)
BY DEF Like

LEMMA LikeStays ==
  ASSUME TInv, \A q \in Requests : pc'[q] = "new" => pc[q] = "new", DOMAIN rows' = DOMAIN rows,
         \A id \in DOMAIN rows : Like(rows'[id], rows[id])
  PROVE  RowsOK' /\ Evolves
BY SameRowsKeep DEF Like, Stays

LEMMA RevokeStep ==
  ASSUME TInv, NEW r \in Requests, NEW a \in Actors, NEW id \in DOMAIN rows, RevokeConsent(r, a, id)
  PROVE  TInv' /\ Evolves
<1>1. rows' = SetText({id}, "revoked") /\ Finish(r) /\ Columns'
  BY ColumnsStay DEF RevokeConsent
<1>2. DOMAIN rows' = DOMAIN rows /\ \A k \in DOMAIN rows : Like(rows'[k], rows[k])
  BY <1>1, Tables, SetTextLike DEF Texts, RowsOK
<1>3. RowsOK' /\ Evolves
  BY <1>1, <1>2, FinishMoves, LikeStays
<1>4. QED
  BY <1>1, <1>3, FinishKeeps

LEMMA SaveEditStep ==
  ASSUME TInv, NEW r \in Requests, SaveEdit(r)
  PROVE  TInv' /\ Evolves
<1> DEFINE saved == SavedWith(req[r].row)
           texts == SetText(saved, "personal")
<1>1. rows' = Touched(texts, saved, {"pip"}) /\ Finish(r) /\ Columns'
  BY ColumnsStay DEF SaveEdit
<1>2. DOMAIN texts = DOMAIN rows /\ \A k \in DOMAIN rows : Like(texts[k], rows[k])
  BY Tables, SetTextLike DEF Texts, JobStatuses, RowsOK
<1> HIDE DEF texts, saved
<1>3. DOMAIN rows' = DOMAIN texts /\ \A k \in DOMAIN texts : Like(rows'[k], texts[k])
  BY <1>1, <1>2, TouchedLike DEF Like
<1>4. RowsOK' /\ Evolves
  BY <1>1, <1>2, <1>3, LikeLike, FinishMoves, LikeStays
<1>5. QED
  BY <1>1, <1>4, FinishKeeps

(* A status is saved, by the last step of a request. *)
LEMMA StatusSteps ==
  ASSUME TInv, NEW r \in Requests, FailAnonymization(r) \/ SaveExport(r) \/ WriteReport(r)
  PROVE  TInv' /\ Evolves
<1>1. Finish(r) /\ UNCHANGED <<files, policies, runs>>
  BY DEF FailAnonymization, SaveExport, WriteReport
<1>2. Columns'
  <2>1. CASE WriteReport(r)
    <3>1. req[r].job \in Ids /\ reports' = reports \cup {req[r].job}
      BY <2>1 DEF WriteReport, TInv, KnowOK
    <3>2. QED
      BY <1>1, <3>1, Tables DEF Columns
  <2>2. QED
    BY <1>1, <2>1, ColumnsStay DEF FailAnonymization, SaveExport
<1>3. ASSUME rows' # rows
      PROVE  \E status \in JobStatuses : \E j :
               rows' = WithStatus(rows, j, status) /\ (j \in DOMAIN rows => rows[j].kind # "period")
  <2>1. \/ pc[r] = "fail" /\ rows' = WithStatus(rows, req[r].job, "failed")
        \/ pc[r] \in {"save", "unsaved"} /\ rows' = WithStatus(rows, r, IF pc[r] = "save" THEN "completed" ELSE "failed")
    BY <1>3 DEF FailAnonymization, SaveExport, WriteReport
  <2>2. /\ pc[r] = "fail" /\ req[r].job \in DOMAIN rows => rows[req[r].job].kind # "period"
        /\ pc[r] \in {"save", "unsaved"} /\ r \in DOMAIN rows => rows[r].kind # "period"
    BY DEF TInv, KnowOK
  <2>3. "failed" \in JobStatuses /\ (IF pc[r] = "save" THEN "completed" ELSE "failed") \in JobStatuses
    BY DEF JobStatuses
  <2>4. QED
    BY <2>1, <2>2, <2>3
<1>4. RowsOK' /\ Evolves
  <2>1. CASE rows' = rows
    BY <1>1, <2>1, FinishMoves, RowsStay
  <2>2. ASSUME NEW j, NEW status \in JobStatuses, rows' = WithStatus(rows, j, status),
               j \in DOMAIN rows => rows[j].kind # "period"
        PROVE  RowsOK' /\ Evolves
    <3>1. status \in Texts
      BY DEF Texts
    <3>2. DOMAIN rows' = DOMAIN rows /\ \A k \in DOMAIN rows : Like(rows'[k], rows[k])
      BY <2>2, <3>1, Tables, WithStatusLike DEF Like, RowsOK
    <3>3. QED
      BY <1>1, <3>2, FinishMoves, LikeStays
  <2>3. CASE rows' # rows
    <3>1. PICK status \in JobStatuses : \E j :
                 rows' = WithStatus(rows, j, status) /\ (j \in DOMAIN rows => rows[j].kind # "period")
      BY <1>3, <2>3
    <3>2. PICK j : rows' = WithStatus(rows, j, status) /\ (j \in DOMAIN rows => rows[j].kind # "period")
      BY <3>1
    <3>3. QED
      BY <3>2, <2>2
  <2>4. QED
    BY <2>1, <2>3
<1>5. QED
  BY <1>1, <1>2, <1>4, FinishKeeps

LEMMA LockStep ==
  ASSUME TInv, NEW r \in Requests, LockJob(r)
  PROVE  TInv'
<1> DEFINE knows == [req[r] EXCEPT !.touched = {req[r].job}, !.had = About(req[r].of)]
<1>1. pc[r] = "lock" /\ Goto(r, "anon", knows) /\ "anon" \in Labels \ {"new"} /\ UNCHANGED rows /\ Columns'
  BY ColumnsStay DEF LockJob, tables, Labels
<1>2. req[r] \in AnonKnows /\ JobStands(r)
  BY <1>1 DEF TInv, KnowOK
<1>3. About(req[r].of) \subseteq DOMAIN rows
  BY DEF About
<1>4. /\ knows \in AnonKnows /\ knows.job = req[r].job /\ knows.of = req[r].of
      /\ knows.touched = {req[r].job} /\ knows.had = About(req[r].of)
  BY <1>2, <1>3, Tables DEF AnonKnows, RowsOK
<1> HIDE DEF knows
<1>5. pc'[r] = "anon" /\ req'[r] = knows /\ \A q \in Requests : pc'[q] = "new" => pc[q] = "new"
  BY <1>1, GotoMoves
<1>6. JobStands(r)' /\ TouchedOwn(r)'
  BY <1>1, <1>2, <1>4, <1>5 DEF JobStands, TouchedOwn
<1>7. Past(req[r].touched)' /\ Past(req[r].had)'
  BY <1>2, <1>3, <1>4, <1>5, Tables DEF RowsOK, Past, JobStands
<1>8. KnowOK(r)'
  BY <1>4, <1>5, <1>6, <1>7 DEF KnowOK
<1>9. QED
  BY <1>1, <1>8, StayKeeps

LEMMA WantedMatched ==
  ASSUME NEW r \in Requests, pc[r] = "anon", ~Finished(r)
  PROVE  \A id : id \in Wanted(r) <=> id \in Matched(req[r].of, req[r].i)
BY DEF Wanted

LEMMA TableStep ==
  ASSUME TInv, NEW r \in Requests, AnonymizeTable(r)
  PROVE  TInv'
<1> DEFINE new == Wanted(r)
           knows == [req[r] EXCEPT !.i = @ + 1, !.touched = @ \cup new]
<1>1. /\ pc[r] = "anon" /\ Goto(r, "anon", knows) /\ "anon" \in Labels \ {"new"} /\ UNCHANGED rows /\ Columns'
      /\ req[r].i <= 9
  BY ColumnsStay, Steps DEF AnonymizeTable, tables, Labels
<1>2. /\ req[r] \in AnonKnows /\ JobStands(r) /\ TouchedOwn(r)
      /\ Past(req[r].touched) /\ Past(req[r].had)
  BY <1>1 DEF TInv, KnowOK
<1>3. new \subseteq DOMAIN rows /\ \A id \in new : rows[id].of = req[r].of /\ Reached(rows[id].kind, req[r].i + 1)
  <2>1. req[r].i \in 1..9
    BY <1>1, <1>2, Steps DEF AnonKnows
  <2>2. \A id \in new : id \in Matched(req[r].of, req[r].i)
    BY <1>1, <2>1, Steps, WantedMatched DEF Finished
  <2>3. Matched(req[r].of, req[r].i) \subseteq DOMAIN rows
    BY DEF Matched, About
  <2>4. \A id \in Matched(req[r].of, req[r].i) : rows[id].of = req[r].of /\ Reached(rows[id].kind, req[r].i + 1)
    BY <2>1 DEF Matched, About, Reached
  <2> HIDE DEF new
  <2>5. QED
    BY <2>2, <2>3, <2>4
<1>5. \A kind : Reached(kind, req[r].i) => Reached(kind, req[r].i + 1)
  BY <1>2 DEF Reached, AnonKnows
<1> HIDE DEF new
<1>6. /\ knows \in AnonKnows /\ knows.job = req[r].job /\ knows.of = req[r].of
      /\ knows.touched = req[r].touched \cup new /\ knows.had = req[r].had /\ knows.i = req[r].i + 1
  <2>1. req[r].i + 1 \in 1..(Len(AnonSteps) + 1)
    BY <1>1, <1>2, Steps DEF AnonKnows
  <2>2. req[r].touched \cup new \in SUBSET Ids
    BY <1>2, <1>3, Tables DEF AnonKnows, RowsOK
  <2>3. QED
    BY <1>2, <2>1, <2>2 DEF AnonKnows
<1> HIDE DEF knows
<1>7. pc'[r] = "anon" /\ req'[r] = knows /\ \A q \in Requests : pc'[q] = "new" => pc[q] = "new"
  BY <1>1, GotoMoves
<1>8. JobStands(r)'
  BY <1>1, <1>2, <1>6, <1>7 DEF JobStands
<1>9. TouchedOwn(r)'
  <2> SUFFICES ASSUME NEW id \in req'[r].touched \cap DOMAIN rows'
               PROVE  id = req'[r].job \/ (rows'[id].of = req'[r].of /\ Reached(rows'[id].kind, req'[r].i))
    BY DEF TouchedOwn, Reached
  <2>1. id \in new \/ id \in req[r].touched \cap DOMAIN rows
    BY <1>1, <1>6, <1>7
  <2>2. QED
    BY <1>1, <1>2, <1>3, <1>5, <1>6, <1>7, <2>1 DEF TouchedOwn
<1>10. Past(req[r].touched)' /\ Past(req[r].had)'
  BY <1>2, <1>3, <1>6, <1>7, Tables DEF RowsOK, Past
<1>11. KnowOK(r)'
  BY <1>6, <1>7, <1>8, <1>9, <1>10 DEF KnowOK
<1>12. QED
  BY <1>1, <1>11, StayKeeps

(* Under a contact there is nothing. *)
LEMMA NotUnderContact ==
  ASSUME TInv, NEW id \in DOMAIN rows, NEW p \in DOMAIN rows, rows[id].parent = p
  PROVE  rows[p].kind \in {"leave", "period", "cycle", "task", "goal"}
<1>1. p # None /\ MayBeUnder(rows, rows[id].kind, p)
  BY Tables, GdprAssumption DEF RowsOK
<1>2. QED
  BY <1>1, Keys DEF MayBeUnder

LEMMA BlankedLike ==
  ASSUME \A id \in DOMAIN rows : rows[id] \in RowType, NEW ids
  PROVE  /\ DOMAIN Blanked(ids) = {k \in DOMAIN rows : ~(k \in ids /\ rows[k].kind = "contact")}
         /\ \A id \in DOMAIN Blanked(ids) :
              /\ Like(Blanked(ids)[id], rows[id])
              /\ id \in ids => Blanked(ids)[id].text \in {"anonymized", "null"}
              /\ id \in ids /\ rows[id].kind = "nickname" => Blanked(ids)[id].text = "null"
              /\ id \notin ids => Blanked(ids)[id] = rows[id]
<1> DEFINE New(row) == [row EXCEPT !.text = Blank(row.kind)]
           left == {k \in DOMAIN rows : ~(k \in ids /\ rows[k].kind = "contact")}
<1>1. \A row \in RowType : Blank(row.kind) \in {"anonymized", "null"} /\ (row.kind = "nickname" => Blank(row.kind) = "null")
  BY DEF Blank
<1>2. \A row \in RowType : /\ Like(New(row), row) /\ New(row).text \in {"anonymized", "null"}
                           /\ row.kind = "nickname" => New(row).text = "null"
  BY <1>1 DEF Like, RowType, Texts
<1>3. Blanked(ids) = [id \in left |-> IF id \in ids THEN New(rows[id]) ELSE rows[id]]
  BY DEF Blanked
<1>4. \A row \in RowType : Like(row, row)
  BY DEF Like
<1> HIDE DEF New
<1>5. QED
  BY <1>2, <1>3, <1>4

(* What the commit of an anonymization makes of the rows. *)
LEMMA CommitRows ==
  ASSUME TInv, NEW r \in Requests, pc[r] = "anon", Commit(r), \A q \in Requests : pc'[q] = "new" => pc[q] = "new"
  PROVE  /\ RowsOK' /\ Evolves
         /\ \A id \in DOMAIN rows' :
              /\ id \in DOMAIN rows
              /\ id \in req[r].touched \ {req[r].job} =>
                   rows'[id].text \in {"anonymized", "null"} /\ (rows[id].kind = "nickname" => rows'[id].text = "null")
              /\ id \notin req[r].touched \cup {req[r].job} => rows'[id] = rows[id]
              /\ id = req[r].job => rows'[id].text = "completed"
<1> DEFINE job == req[r].job
           ids == req[r].touched \ {job}
           blank == Blanked(ids)
           table == Touched(blank, ids, {"goal", "pip"})
<1>1. rows' = WithStatus(table, job, "completed")
  BY DEF Commit
<1>2. JobStands(r) /\ TouchedOwn(r) /\ "completed" \in Texts
  BY DEF TInv, KnowOK, Texts, JobStatuses
<1>0. job \in DOMAIN rows /\ rows[job].kind # "period"
  BY <1>2 DEF JobStands
<1> HIDE DEF blank
<1>3. /\ DOMAIN blank = {k \in DOMAIN rows : ~(k \in ids /\ rows[k].kind = "contact")}
      /\ \A id \in DOMAIN blank :
           /\ Like(blank[id], rows[id]) /\ blank[id] \in RowType
           /\ id \in ids => blank[id].text \in {"anonymized", "null"} /\ (rows[id].kind = "nickname" => blank[id].text = "null")
           /\ id \notin ids => blank[id] = rows[id]
  <2>1. \A id \in DOMAIN rows : rows[id] \in RowType
    BY Tables DEF RowsOK
  <2> HIDE DEF ids
  <2>2. /\ DOMAIN blank = {k \in DOMAIN rows : ~(k \in ids /\ rows[k].kind = "contact")}
        /\ \A id \in DOMAIN blank : /\ Like(blank[id], rows[id])
                                    /\ id \in ids => blank[id].text \in {"anonymized", "null"}
                                    /\ id \in ids /\ rows[id].kind = "nickname" => blank[id].text = "null"
                                    /\ id \notin ids => blank[id] = rows[id]
    BY <2>1, BlankedLike DEF blank
  <2>3. QED
    BY <2>2 DEF Like
<1> HIDE DEF table
<1>4. /\ DOMAIN table = DOMAIN blank
      /\ \A id \in DOMAIN blank : /\ Like(table[id], blank[id]) /\ table[id] \in RowType
                                  /\ table[id].text = blank[id].text
                                  /\ id \notin ids => table[id] = blank[id]
  BY <1>3, TouchedLike DEF table, Like
<1>5. /\ DOMAIN rows' = DOMAIN table
      /\ \A id \in DOMAIN table : /\ Like(rows'[id], table[id])
                                  /\ id = job => rows'[id].text = "completed"
                                  /\ id # job => rows'[id] = table[id]
  <2>1. job \in DOMAIN table => table[job].kind # "period"
    BY <1>0, <1>3, <1>4 DEF Like
  <2>2. QED
    BY <1>1, <1>2, <1>4, <2>1, WithStatusLike
<1> HIDE DEF job, ids
<1>6. /\ DOMAIN rows' = {k \in DOMAIN rows : ~(k \in ids /\ rows[k].kind = "contact")}
      /\ \A id \in DOMAIN rows' : Like(rows'[id], rows[id])
  BY <1>3, <1>4, <1>5, LikeLike
<1>7. \A id \in DOMAIN rows' : rows'[id].parent \in DOMAIN rows => rows'[id].parent \in DOMAIN rows'
  <2> SUFFICES ASSUME NEW id \in DOMAIN rows', rows'[id].parent \in DOMAIN rows PROVE rows'[id].parent \in DOMAIN rows'
    OBVIOUS
  <2>1. rows[id].parent = rows'[id].parent /\ id \in DOMAIN rows
    BY <1>6 DEF Like
  <2>2. rows[rows[id].parent].kind # "contact"
    BY <2>1, NotUnderContact
  <2>3. QED
    BY <1>6, <2>1, <2>2
<1>8. ASSUME NEW id \in DOMAIN rows \ DOMAIN rows' PROVE Goes(id)
  <2>1. id \in ids /\ rows[id].kind = "contact"
    BY <1>6
  <2>2. rows[id].of = req[r].of
    BY <1>2, <2>1 DEF TouchedOwn, ids, job
  <2>3. job \in DOMAIN rows /\ rows[job].kind = "job" /\ rows[job].of = req[r].of
    BY <1>2 DEF JobStands, job
  <2>4. job \in DOMAIN rows'
    BY <1>6, <2>3
  <2>5. rows'[job].kind = "job" /\ rows'[job].of = req[r].of /\ rows'[job].text = "completed"
    BY <1>5, <1>6, <2>3, <2>4 DEF Like
  <2>6. QED
    BY <2>1, <2>2, <2>4, <2>5 DEF Goes
<1>9. \A id \in DOMAIN rows' : Stays(id) /\ rows'[id] \in RowType /\ rows'[id].parent = rows[id].parent
  BY <1>6 DEF Like, Stays
<1>10. RowsOK' /\ Evolves
  BY <1>6, <1>7, <1>8, <1>9, RewriteKeeps
<1>11. \A id \in DOMAIN rows' : /\ id \in ids => rows'[id].text \in {"anonymized", "null"}
                                /\ id \in ids /\ rows[id].kind = "nickname" => rows'[id].text = "null"
                                /\ id \notin ids /\ id # job => rows'[id] = rows[id]
                                /\ id = job => rows'[id].text = "completed"
  BY <1>3, <1>4, <1>5 DEF ids
<1>12. QED
  BY <1>6, <1>10, <1>11 DEF ids, job

(* A request that is done with the rows of its job knows it still. *)
LEMMA JobRemembered ==
  ASSUME TInv, NEW r \in Requests, req[r].job \in Ids, JobStands(r), Evolves,
         \A q \in Requests : pc'[q] = "new" => pc[q] = "new",
         pc'[r] \in {"fail", "report"}, req'[r].job = req[r].job
  PROVE  KnowOK(r)'
<1>1. Past(DOMAIN rows) /\ req[r].job \in DOMAIN rows /\ rows[req[r].job].kind = "job"
  BY Tables DEF RowsOK, JobStands
<1>2. Past({req[r].job})'
  BY <1>1 DEF Past
<1>3. req[r].job \in DOMAIN rows' => rows'[req[r].job].kind = "job"
  BY <1>1 DEF Evolves, Stays
<1>4. QED
  BY <1>2, <1>3 DEF KnowOK

LEMMA CommitStep ==
  ASSUME TInv, NEW r \in Requests, CommitJob(r)
  PROVE  TInv' /\ Evolves
<1> DEFINE knows == [task |-> "report", job |-> req[r].job]
<1>1. pc[r] = "anon" /\ Commit(r) /\ Goto(r, "report", knows) /\ "report" \in Labels \ {"new"} /\ Columns'
  BY ColumnsStay DEF CommitJob, Finished, Labels
<1>2. knows.job = req[r].job /\ req[r].job \in Ids /\ JobStands(r)
  <2>1. JobStands(r)
    BY <1>1 DEF TInv, KnowOK
  <2>2. QED
    BY <2>1, Tables DEF JobStands, RowsOK
<1> HIDE DEF knows
<1>3. pc'[r] = "report" /\ req'[r] = knows /\ \A q \in Requests : pc'[q] = "new" => pc[q] = "new"
  BY <1>1, GotoMoves
<1>4. RowsOK' /\ Evolves
  BY <1>1, <1>3, CommitRows
<1>5. KnowOK(r)'
  BY <1>2, <1>3, <1>4, JobRemembered
<1>6. QED
  BY <1>1, <1>4, <1>5, StepKeeps

LEMMA ExecutionFailsStep ==
  ASSUME TInv, NEW r \in Requests, ExecutionFails(r)
  PROVE  TInv' /\ Evolves
<1> DEFINE knows == [task |-> "fail", job |-> req[r].job]
<1>1. /\ pc[r] \in {"lock", "anon"} /\ Goto(r, "fail", knows) /\ "fail" \in Labels \ {"new"} /\ Columns'
      /\ UNCHANGED rows \/ (pc[r] = "anon" /\ Commit(r))
  BY ColumnsStay DEF ExecutionFails, Finished, Labels
<1>2. knows.job = req[r].job /\ req[r].job \in Ids /\ JobStands(r)
  <2>1. JobStands(r)
    BY <1>1 DEF TInv, KnowOK
  <2>2. QED
    BY <2>1, Tables DEF JobStands, RowsOK
<1> HIDE DEF knows
<1>3. pc'[r] = "fail" /\ req'[r] = knows /\ \A q \in Requests : pc'[q] = "new" => pc[q] = "new"
  BY <1>1, GotoMoves
<1>4. RowsOK' /\ Evolves
  BY <1>1, <1>3, CommitRows, RowsStay
<1>5. KnowOK(r)'
  BY <1>2, <1>3, <1>4, JobRemembered
<1>6. QED
  BY <1>1, <1>4, <1>5, StepKeeps

-----------------------------------------------------------------------------
(* Exports and retention *)

LEMMA CollectSteps ==
  ASSUME TInv, NEW r \in Requests, Collect(r) \/ CollectFails(r)
  PROVE  TInv'
<1> DEFINE kind == Sections[req[r].i]
           read == [req[r] EXCEPT !.i = @ + 1, !.got = @ \cup Section(req[r].of, kind)]
           failed == [req[r] EXCEPT !.i = @ + 1, !.missing = @ \cup {kind}]
<1>1. /\ pc[r] = "collect" /\ req[r].i <= 12 /\ UNCHANGED rows /\ Columns'
      /\ Goto(r, "collect", read) \/ Goto(r, "collect", failed) \/ Goto(r, "unsaved", [task |-> "unsaved"])
  BY ColumnsStay, SectionNames DEF Collect, CollectFails, tables
<1>2. /\ req[r] \in CollectKnows /\ Past(req[r].had)
      /\ r \in DOMAIN rows => rows[r].kind = "export"
  BY <1>1 DEF TInv, KnowOK
<1>3. req[r].i + 1 \in 1..(Len(Sections) + 1) /\ kind \in Exported
  BY <1>1, <1>2, SectionNames DEF CollectKnows, Exported
<1>4. Section(req[r].of, kind) \subseteq Ids
  BY Tables DEF Section, RowsOK
<1>5. read \in CollectKnows /\ read.had = req[r].had
  BY <1>2, <1>3, <1>4 DEF CollectKnows
<1>6. failed \in CollectKnows /\ failed.had = req[r].had
  BY <1>2, <1>3 DEF CollectKnows
<1> HIDE DEF read, failed
<1>7. {"collect", "unsaved"} \subseteq Labels \ {"new"}
  BY DEF Labels
<1>8. ASSUME NEW knows \in CollectKnows, knows.had = req[r].had, Goto(r, "collect", knows) PROVE TInv'
  <2>1. pc'[r] = "collect" /\ req'[r] = knows /\ \A q \in Requests : pc'[q] = "new" => pc[q] = "new"
    BY <1>7, <1>8, GotoMoves
  <2>2. Past(req[r].had)'
    BY <1>2, <1>8, <2>1 DEF Past
  <2>3. KnowOK(r)'
    BY <1>1, <1>2, <1>8, <2>1, <2>2 DEF KnowOK
  <2>4. QED
    BY <1>1, <1>7, <1>8, <2>3, StayKeeps
<1>9. ASSUME Goto(r, "unsaved", [task |-> "unsaved"]) PROVE TInv'
  <2>1. pc'[r] = "unsaved"
    BY <1>7, <1>9, GotoMoves
  <2>2. KnowOK(r)'
    BY <1>1, <1>2, <2>1 DEF KnowOK
  <2>3. QED
    BY <1>1, <1>7, <1>9, <2>2, StayKeeps
<1>10. QED
  BY <1>1, <1>5, <1>6, <1>8, <1>9

LEMMA WriteFileStep ==
  ASSUME TInv, NEW r \in Requests, WriteFile(r)
  PROVE  TInv'
<1>1. /\ pc[r] = "collect" /\ UNCHANGED <<rows, reports, policies, runs>>
      /\ Goto(r, "save", [task |-> "save"]) \/ Goto(r, "unsaved", [task |-> "unsaved"])
  BY DEF WriteFile
<1>2. DOMAIN files' \subseteq DOMAIN files \cup {r}
  BY DEF WriteFile, Put
<1>3. Columns'
  BY <1>1, <1>2, Tables DEF Columns
<1>4. r \in DOMAIN rows => rows[r].kind = "export"
  BY <1>1 DEF TInv, KnowOK
<1>5. ASSUME NEW label \in {"save", "unsaved"}, NEW knows, Goto(r, label, knows) PROVE TInv'
  <2>1. label \in Labels \ {"new"}
    BY DEF Labels
  <2>2. pc'[r] = label
    BY <1>5, <2>1, GotoMoves
  <2>3. KnowOK(r)'
    BY <1>1, <1>4, <2>2 DEF KnowOK
  <2>4. QED
    BY <1>1, <1>3, <1>5, <2>1, <2>3, StayKeeps
<1>6. QED
  BY <1>1, <1>5

(* Periods are selected first, and deleted last. *)
LEMMA SelectFirst ==
  ASSUME NEW r \in Requests, req[r] \in PurgeKnows, req[r].i <= Len(Purges[req[r].category])
  PROVE  /\ Statement(r) = "select" => req[r].i = 1 /\ req[r].i + 1 <= Len(Purges[req[r].category])
         /\ req[r].category = "payroll" => (LastStatement(r) <=> Statement(r) = "period")
         /\ req[r].category # "payroll" => Statement(r) \notin {"select", "payslip", "period"}
<1>1. req[r].category \in DOMAIN Purges /\ req[r].i \in 1..Len(Purges[req[r].category])
  BY PurgeNames DEF PurgeKnows
<1>2. \A c \in DOMAIN Purges : \A i \in 1..Len(Purges[c]) :
        /\ Purges[c][i] = "select" => i = 1 /\ i + 1 <= Len(Purges[c])
        /\ c = "payroll" => (i = Len(Purges[c]) <=> Purges[c][i] = "period")
        /\ c # "payroll" => Purges[c][i] \notin {"select", "payslip", "period"}
  <2>1. /\ Purges["payroll"] = <<"select", "payslip", "period">>
        /\ Purges["leave"] = <<"approval", "leave">>
        /\ Purges["performance"] = <<"unlink", "response", "task", "cycle", "comment", "goal", "feedback", "checkin", "pip">>
        /\ Purges["gdpr"] = <<"export", "job">>
        /\ Purges["emergency_contacts"] = <<"contact">>
        /\ Purges["employee_profile"] = <<"nickname">>
    BY DEF Purges
  <2>2. \A i \in 1..3 : LET p == <<"select", "payslip", "period">>
                       IN (p[i] = "select" <=> i = 1) /\ (p[i] = "period" <=> i = 3)
    OBVIOUS
  <2>3. Len(<<"select", "payslip", "period">>) = 3
    OBVIOUS
  <2>4. \A i \in 1..9 : <<"unlink", "response", "task", "cycle", "comment", "goal", "feedback", "checkin", "pip">>[i]
                         \notin {"select", "payslip", "period"}
    OBVIOUS
  <2>5. \A i \in 1..2 : <<"approval", "leave">>[i] \notin {"select", "payslip", "period"}
                      /\ <<"export", "job">>[i] \notin {"select", "payslip", "period"}
    OBVIOUS
  <2>6. \A i \in 1..1 : <<"contact">>[i] \notin {"select", "payslip", "period"}
                      /\ <<"nickname">>[i] \notin {"select", "payslip", "period"}
    OBVIOUS
  <2>7. /\ Len(Purges["performance"]) = 9 /\ Len(Purges["leave"]) = 2 /\ Len(Purges["gdpr"]) = 2
        /\ Len(Purges["emergency_contacts"]) = 1 /\ Len(Purges["employee_profile"]) = 1
    BY <2>1
  <2>8. SUFFICES ASSUME NEW c \in DOMAIN Purges, NEW i \in 1..Len(Purges[c])
                 PROVE  /\ Purges[c][i] = "select" => i = 1 /\ i + 1 <= Len(Purges[c])
                        /\ c = "payroll" => (i = Len(Purges[c]) <=> Purges[c][i] = "period")
                        /\ c # "payroll" => Purges[c][i] \notin {"select", "payslip", "period"}
    OBVIOUS
  <2>9. CASE c = "payroll"
    <3>1. i \in 1..3 /\ Len(Purges[c]) = 3
      BY <2>1, <2>3, <2>9
    <3>2. (Purges[c][i] = "select" <=> i = 1) /\ (Purges[c][i] = "period" <=> i = 3)
      BY <2>1, <2>2, <2>9, <3>1
    <3>3. QED
      BY <2>9, <3>1, <3>2
  <2>10. CASE c = "performance"
    <3>1. i \in 1..9
      BY <2>7, <2>10
    <3>2. QED
      BY <2>1, <2>4, <2>10, <3>1
  <2>11. CASE c \in {"leave", "gdpr"}
    <3>1. i \in 1..2
      BY <2>7, <2>11
    <3>2. QED
      BY <2>1, <2>5, <2>11, <3>1
  <2>12. CASE c \in {"emergency_contacts", "employee_profile"}
    <3>1. i \in 1..1
      BY <2>7, <2>12
    <3>2. QED
      BY <2>1, <2>6, <2>12, <3>1
  <2>13. QED
    BY <2>9, <2>10, <2>11, <2>12, PurgeNames
<1>3. QED
  BY <1>1, <1>2 DEF Statement, LastStatement

LEMMA RetentionSteps ==
  ASSUME TInv, NEW r \in Requests,
         StartCategory(r) \/ SelectPeriods(r) \/ PurgeFails(r) \/ PurgeRefused(r) \/ RecordRetentionRun(r)
  PROVE  TInv'
<1>1. UNCHANGED rows /\ {"done", "start", "purge", "record"} \subseteq Labels \ {"new"}
  BY DEF StartCategory, SelectPeriods, PurgeFails, PurgeRefused, RecordRetentionRun, tables, Labels
<1>2. CASE StartCategory(r)
  <2>1. pc[r] = "start" /\ Columns' /\ req[r].todo \subseteq DOMAIN Purges /\ req[r].recorded \in BOOLEAN
    BY <1>2, ColumnsStay DEF StartCategory, tables, TInv, KnowOK
  <2>2. CASE Finish(r)
    BY <1>1, <2>1, <2>2, FinishMoves, RowsStay, FinishKeeps
  <2>3. ASSUME NEW c \in req[r].todo, NEW recorded \in BOOLEAN,
               Goto(r, "purge", [task |-> "purge", category |-> c, i |-> 1, todo |-> req[r].todo \ {c},
                                 periods |-> {}, status |-> "completed", recorded |-> recorded])
        PROVE  TInv'
    <3> DEFINE knows == [task |-> "purge", category |-> c, i |-> 1, todo |-> req[r].todo \ {c},
                         periods |-> {}, status |-> "completed", recorded |-> recorded]
    <3>1. /\ knows \in PurgeKnows /\ knows.i <= Len(Purges[knows.category]) /\ knows.periods = {}
      BY <2>1, PurgeNames DEF PurgeKnows
    <3>2. Goto(r, "purge", knows)
      BY <2>3
    <3> HIDE DEF knows
    <3>3. pc'[r] = "purge" /\ req'[r] = knows
      BY <1>1, <3>2, GotoMoves
    <3>4. KnowOK(r)'
      BY <3>1, <3>3 DEF KnowOK, PeriodsOld, Past
    <3>5. QED
      BY <1>1, <2>1, <3>2, <3>4, StayKeeps
  <2>4. QED
    BY <1>2, <2>1, <2>2, <2>3 DEF StartCategory
<1>3. CASE PurgeFails(r) \/ PurgeRefused(r)
  <2> DEFINE knows == [req[r] EXCEPT !.status = Outcome]
  <2>1. pc[r] = "purge" /\ Goto(r, "record", knows) /\ Columns'
    BY <1>3, ColumnsStay DEF PurgeFails, PurgeRefused, tables
  <2>2. knows \in PurgeKnows /\ PeriodsOld(knows.periods)
    <3>1. req[r] \in PurgeKnows /\ PeriodsOld(req[r].periods)
      BY <2>1 DEF TInv, KnowOK
    <3>2. knows \in PurgeKnows /\ knows.periods = req[r].periods
      BY <3>1 DEF PurgeKnows, Outcome
    <3>3. QED
      BY <3>1, <3>2
  <2> HIDE DEF knows
  <2>3. pc'[r] = "record" /\ req'[r] = knows /\ \A q \in Requests : pc'[q] = "new" => pc[q] = "new"
    BY <1>1, <2>1, GotoMoves
  <2>4. KnowOK(r)'
    BY <1>1, <2>2, <2>3 DEF KnowOK, PeriodsOld, Past
  <2>5. QED
    BY <1>1, <2>1, <2>4, StayKeeps
<1>4. CASE RecordRetentionRun(r)
  <2> DEFINE knows == [task |-> "run", todo |-> req[r].todo, recorded |-> req[r].recorded]
             run == [run |-> r, category |-> req[r].category, periods |-> req[r].periods, status |-> req[r].status]
  <2>1. pc[r] = "record" /\ Goto(r, "start", knows) /\ UNCHANGED <<reports, files, policies>>
    BY <1>4 DEF RecordRetentionRun
  <2>2. req[r] \in PurgeKnows
    BY <2>1 DEF TInv, KnowOK
  <2>3. runs' = runs \/ runs' = runs \cup {run}
    BY <1>4 DEF RecordRetentionRun
  <2>4. run.status \in {"completed", "failed"} /\ knows.todo \subseteq DOMAIN Purges /\ knows.recorded \in BOOLEAN
    BY <2>2 DEF PurgeKnows
  <2> HIDE DEF run, knows
  <2>5. Columns'
    BY <2>1, <2>3, <2>4, Tables DEF Columns
  <2>6. pc'[r] = "start" /\ req'[r] = knows
    BY <1>1, <2>1, GotoMoves
  <2>7. KnowOK(r)'
    BY <2>4, <2>6 DEF KnowOK
  <2>8. QED
    BY <1>1, <2>1, <2>5, <2>7, StayKeeps
<1>5. CASE SelectPeriods(r)
  <2>1. PICK list \in SUBSET OldOf("period") :
          IF list = {} THEN Goto(r, "record", req[r]) ELSE Goto(r, "purge", [req[r] EXCEPT !.i = @ + 1, !.periods = list])
    BY <1>5 DEF SelectPeriods
  <2> DEFINE next == [req[r] EXCEPT !.i = @ + 1, !.periods = list]
  <2>2. pc[r] = "purge" /\ Statement(r) = "select" /\ Columns'
    BY <1>5, ColumnsStay DEF SelectPeriods, tables
  <2>3. req[r] \in PurgeKnows /\ PeriodsOld(req[r].periods) /\ req[r].i <= Len(Purges[req[r].category])
    BY <2>2 DEF TInv, KnowOK
  <2>4. PeriodsOld(list)
    BY Tables DEF PeriodsOld, OldOf, RowsOK, Past
  <2>5. next \in PurgeKnows /\ next.periods = list /\ next.i <= Len(Purges[next.category])
    <3>1. next \in PurgeKnows /\ next.periods = list /\ next.i = req[r].i + 1 /\ next.category = req[r].category
      <4>1. [req[r] EXCEPT !.i = @ + 1] \in PurgeKnows
        BY <2>3 DEF PurgeKnows
      <4>2. list \subseteq Ids
        BY <2>4 DEF PeriodsOld
      <4>3. \A x \in PurgeKnows : /\ [x EXCEPT !.periods = list] \in PurgeKnows
                                  /\ [x EXCEPT !.periods = list].periods = list
                                  /\ [x EXCEPT !.periods = list].i = x.i /\ [x EXCEPT !.periods = list].category = x.category
        BY <4>2 DEF PurgeKnows
      <4>4. next = [[req[r] EXCEPT !.i = @ + 1] EXCEPT !.periods = list]
        OBVIOUS
      <4>5. [req[r] EXCEPT !.i = @ + 1].i = req[r].i + 1 /\ [req[r] EXCEPT !.i = @ + 1].category = req[r].category
        BY <2>3 DEF PurgeKnows
      <4>6. QED
        BY <4>1, <4>3, <4>4, <4>5
    <3>2. req[r].i + 1 <= Len(Purges[req[r].category])
      BY <2>2, <2>3, SelectFirst
    <3>3. QED
      BY <3>1, <3>2
  <2> HIDE DEF next
  <2>6. PICK label \in {"record", "purge"}, knows \in PurgeKnows :
          /\ Goto(r, label, knows) /\ PeriodsOld(knows.periods)
          /\ label = "purge" => knows.i <= Len(Purges[knows.category])
    BY <2>1, <2>3, <2>4, <2>5 DEF next
  <2>7. pc'[r] = label /\ req'[r] = knows /\ \A q \in Requests : pc'[q] = "new" => pc[q] = "new"
    BY <1>1, <2>6, GotoMoves
  <2>8. KnowOK(r)'
    BY <1>1, <2>6, <2>7 DEF KnowOK, PeriodsOld, Past
  <2>9. QED
    BY <1>1, <2>2, <2>6, <2>8, StayKeeps
<1>6. QED
  BY <1>2, <1>3, <1>4, <1>5

(* Which table a row that is under another is of, and which the other. *)
LEMMA ParentKind ==
  ASSUME TInv, NEW id \in DOMAIN rows, rows[id].parent \in DOMAIN rows
  PROVE  \/ rows[id].kind = "approval" /\ rows[rows[id].parent].kind = "leave"
         \/ rows[id].kind = "payslip" /\ rows[rows[id].parent].kind = "period"
         \/ rows[id].kind = "task" /\ rows[rows[id].parent].kind = "cycle"
         \/ rows[id].kind = "response" /\ rows[rows[id].parent].kind = "task"
         \/ rows[id].kind \in {"comment", "feedback"} /\ rows[rows[id].parent].kind = "goal"
<1>1. rows[id].parent # None /\ MayBeUnder(rows, rows[id].kind, rows[id].parent)
  BY Tables, GdprAssumption DEF RowsOK
<1>2. QED
  BY <1>1, Keys DEF MayBeUnder

(* What a DELETE finds is there, and old enough. *)
LEMMA DueAged ==
  ASSUME TInv, NEW kind, NEW periods, PeriodsOld(periods), NEW id \in Due(kind, periods)
  PROVE  /\ id \in DOMAIN rows /\ rows[id].kind = kind
         /\ kind \in {"export", "job"} => rows[id].old /\ rows[id].text = "completed"
         /\ rows[id].old \/ (/\ kind \in {"payslip", "comment"} /\ rows[id].parent \in DOMAIN rows
                             /\ rows[rows[id].parent].old)
<1>1. CASE kind = "comment"
  <2>1. id \in DOMAIN rows /\ rows[id].kind = kind /\ OldParents(id)
    BY <1>1 DEF Due
  <2>2. rows[id].parent \in DOMAIN rows
    BY <2>1, Tables DEF RowsOK, MayBeUnder, OldParents
  <2>3. QED
    BY <1>1, <2>1, <2>2 DEF OldParents
<1>2. CASE kind = "payslip"
  <2>1. id \in DOMAIN rows /\ rows[id].kind = kind /\ rows[id].parent \in periods /\ rows[id].parent # None
    BY <1>2, GdprAssumption DEF Due, PeriodsOld
  <2>2. rows[id].parent \in DOMAIN rows
    BY <2>1, Tables DEF RowsOK, MayBeUnder
  <2>3. QED
    BY <1>2, <2>1, <2>2 DEF PeriodsOld
<1>3. CASE kind = "period"
  BY <1>3 DEF Due, PeriodsOld
<1>4. CASE kind \notin {"payslip", "comment", "period"}
  BY <1>4 DEF Due, OldOf
<1>5. QED
  BY <1>1, <1>2, <1>3, <1>4

LEMMA DeleteKeeps ==
  ASSUME TInv, \A q \in Requests : pc'[q] = "new" => pc[q] = "new", NEW kind, NEW periods, PeriodsOld(periods),
         ~Referenced(Due(kind, periods)), rows' = [id \in DOMAIN rows \ Cascade(Due(kind, periods)) |-> rows[id]]
  PROVE  RowsOK' /\ Evolves
<1> DEFINE due == Due(kind, periods)
<1>1. Cascade(due) = due \cup Under(due) \cup Under(Under(due)) /\ due \subseteq DOMAIN rows
  BY DueAged DEF Cascade
<1>2. \A ids : Under(ids) = {id \in DOMAIN rows : rows[id].kind # "feedback" /\ rows[id].parent \in ids}
  BY DEF Under
<1>3. \A id \in DOMAIN rows : rows[id].kind = "feedback" => rows[id].parent \notin due
  BY DEF Referenced
<1>4. /\ \A id \in due : /\ rows[id].kind = kind /\ (kind \in {"export", "job"} => rows[id].old /\ rows[id].text = "completed")
                         /\ rows[id].old \/ (/\ kind \in {"payslip", "comment"} /\ rows[id].parent \in DOMAIN rows
                                             /\ rows[rows[id].parent].old)
  BY DueAged
<1> HIDE DEF due
<1>5. ASSUME NEW id \in DOMAIN rows \ Cascade(due), rows[id].parent \in DOMAIN rows PROVE rows[id].parent \notin Cascade(due)
  <2> DEFINE p == rows[id].parent
  <2>1. p \notin due
    BY <1>1, <1>2, <1>3, <1>5
  <2>2. ASSUME p \in Under(due) PROVE FALSE
    <3>1. rows[p].parent \in DOMAIN rows
      BY <1>1, <1>2, <2>2
    <3>2. rows[id].kind # "feedback"
      BY <1>5, <3>1, ParentKind
    <3>3. QED
      BY <1>1, <1>2, <1>5, <2>2, <3>2
  <2>3. ASSUME p \in Under(Under(due)) PROVE FALSE
    <3>1. rows[p].parent \in DOMAIN rows /\ rows[rows[p].parent].parent \in DOMAIN rows
      BY <1>1, <1>2, <2>3
    <3>2. rows[p].kind = "response"
      BY <1>5, <3>1, ParentKind
    <3>3. QED
      BY <1>5, <3>2, ParentKind
  <2>4. QED
    BY <1>1, <2>1, <2>2, <2>3
<1>6. ASSUME NEW id \in Cascade(due) PROVE Goes(id)
  <2>1. CASE id \in due
    <3>1. Aged(rows, id)
      BY <1>4, <2>1 DEF Aged
    <3>2. QED
      BY <1>4, <2>1, <3>1 DEF Goes
  <2>2. CASE id \in Under(due)
    <3>1. id \in DOMAIN rows /\ rows[id].parent \in due
      BY <1>2, <2>2
    <3>2. rows[rows[id].parent].old /\ rows[id].kind \notin {"export", "job"}
      BY <1>1, <1>4, <3>1, ParentKind
    <3>3. QED
      BY <1>1, <3>1, <3>2 DEF Goes, Aged
  <2>3. CASE id \in Under(Under(due))
    <3>1. /\ id \in DOMAIN rows /\ rows[id].parent \in DOMAIN rows
          /\ rows[rows[id].parent].parent \in due
      BY <1>2, <2>3
    <3>2. rows[rows[rows[id].parent].parent].old /\ rows[id].kind \notin {"export", "job"}
      BY <1>1, <1>4, <3>1, ParentKind
    <3>3. QED
      BY <1>1, <3>1, <3>2 DEF Goes, Aged
  <2>4. QED
    BY <1>1, <1>6, <2>1, <2>2, <2>3
<1>7. \A id \in DOMAIN rows' : /\ Stays(id) /\ rows'[id] \in RowType /\ rows'[id].parent = rows[id].parent
                               /\ rows'[id].parent \in DOMAIN rows => rows'[id].parent \in DOMAIN rows'
  BY <1>5, Tables DEF RowsOK, Stays, due
<1>8. DOMAIN rows' \subseteq DOMAIN rows /\ \A id \in DOMAIN rows \ DOMAIN rows' : Goes(id)
  BY <1>6 DEF due
<1>9. QED
  BY <1>7, <1>8, RewriteKeeps

LEMMA AfterKeeps ==
  ASSUME TInv, \A q \in Requests : pc'[q] = "new" => pc[q] = "new", NEW kind, NEW periods, PeriodsOld(periods),
         ~Referenced(Due(kind, periods)), rows' = After(kind, periods)
  PROVE  RowsOK' /\ Evolves
<1>1. \A id \in DOMAIN rows : rows[id] \in RowType
  BY Tables DEF RowsOK
<1>2. CASE kind = "unlink"
  <2> DEFINE Free1(row) == [row EXCEPT !.parent = None]
             linked == {id \in DOMAIN rows : rows[id].kind = "feedback" /\ OldParents(id)}
  <2>1. rows' = [id \in DOMAIN rows |-> IF id \in linked THEN Free1(rows[id]) ELSE rows[id]]
    BY <1>2 DEF After
  <2>2. \A row \in RowType : /\ Free1(row) \in RowType /\ Free1(row).parent = None /\ Free1(row).kind = row.kind
                             /\ Free1(row).of = row.of /\ Free1(row).by = row.by
                             /\ Free1(row).old = row.old /\ Free1(row).text = row.text
    BY DEF RowType
  <2> HIDE DEF Free1, linked
  <2>3. QED
    BY <1>1, <2>1, <2>2, SameRowsKeep DEF Stays
<1>3. CASE kind = "nickname"
  <2>1. rows' = SetText(OldOf("nickname"), "null") /\ "null" \in Texts \ {"completed"}
    BY <1>3 DEF After, Texts
  <2>2. DOMAIN rows' = DOMAIN rows /\ \A id \in DOMAIN rows : Like(rows'[id], rows[id])
    BY <1>1, <2>1, SetTextLike
  <2>3. QED
    BY <2>2, LikeStays
<1>4. CASE kind \notin {"unlink", "nickname"}
  <2>1. rows' = [id \in DOMAIN rows \ Cascade(Due(kind, periods)) |-> rows[id]]
    BY <1>4 DEF After
  <2>2. QED
    BY <2>1, DeleteKeeps
<1>5. QED
  BY <1>2, <1>3, <1>4

LEMMA PurgeStep ==
  ASSUME TInv, NEW r \in Requests, Purge(r)
  PROVE  TInv' /\ Evolves
<1> DEFINE next == [req[r] EXCEPT !.i = @ + 1]
<1>1. /\ pc[r] = "purge" /\ ~Referenced(Due(Statement(r), req[r].periods))
      /\ rows' = After(Statement(r), req[r].periods) /\ Columns'
      /\ IF LastStatement(r) THEN Goto(r, "record", req[r]) ELSE Goto(r, "purge", next)
  BY ColumnsStay DEF Purge, Refused
<1>2. req[r] \in PurgeKnows /\ PeriodsOld(req[r].periods) /\ req[r].i <= Len(Purges[req[r].category])
  BY <1>1 DEF TInv, KnowOK
<1>3. next \in PurgeKnows /\ next.periods = req[r].periods /\ (~LastStatement(r) => next.i <= Len(Purges[next.category]))
  <2>1. next \in PurgeKnows /\ next.i = req[r].i + 1 /\ next.category = req[r].category /\ next.periods = req[r].periods
    BY <1>2 DEF PurgeKnows
  <2>2. req[r].i \in Nat /\ Len(Purges[req[r].category]) \in Nat
    BY <1>2, PurgeNames DEF PurgeKnows
  <2> HIDE DEF next
  <2>3. QED
    BY <1>2, <2>1, <2>2 DEF LastStatement
<1> HIDE DEF next
<1>4. PICK label \in {"record", "purge"}, knows \in PurgeKnows :
        /\ Goto(r, label, knows) /\ knows.periods = req[r].periods
        /\ label = "purge" => knows.i <= Len(Purges[knows.category])
  BY <1>1, <1>2, <1>3
<1>5. label \in Labels \ {"new"}
  BY DEF Labels
<1>6. pc'[r] = label /\ req'[r] = knows /\ \A q \in Requests : pc'[q] = "new" => pc[q] = "new"
  BY <1>4, <1>5, GotoMoves
<1>7. RowsOK' /\ Evolves
  BY <1>1, <1>2, <1>6, AfterKeeps
<1>8. KnowOK(r)'
  <2>1. PeriodsOld(knows.periods)'
    BY <1>2, <1>4, <1>6, <1>7 DEF PeriodsOld, Past, Evolves, Comes, Stays
  <2>2. QED
    BY <1>4, <1>6, <2>1 DEF KnowOK
<1>9. QED
  BY <1>1, <1>4, <1>5, <1>7, <1>8, StepKeeps

(* Every step keeps what is known, and changes rows only as Evolves says. *)
LEMMA RowsUnchanged == UNCHANGED rows => Evolves
BY DEF Evolves, Stays

LEMMA StepTInv ==
  ASSUME TInv, NEW r \in Requests, Step(r)
  PROVE  TInv' /\ Evolves
<1>1. CASE Begins(r)
  <2>1. ASSUME NEW w \in Writable, Write(r, w.by, w.kind, w.of, w.parent) PROVE TInv' /\ Evolves
    BY <2>1, WriteStep
  <2>2. ASSUME NEW a \in Actors, NEW e \in Employees, CreateConsent(r, a, e) \/ RequestAnonymization(r, a, e)
        PROVE  TInv' /\ Evolves
    BY <2>2, InsertSteps
  <2>3. ASSUME NEW a \in Actors, NEW e \in Employees, RequestDSAR(r, a, e) PROVE TInv' /\ Evolves
    BY <2>3, RequestDSARStep
  <2>4. ASSUME NEW a \in Actors, NEW id \in DOMAIN rows, RevokeConsent(r, a, id) PROVE TInv' /\ Evolves
    BY <2>4, RevokeStep
  <2>5. ASSUME NEW a \in Actors, NEW c \in Saved, SavePolicy(r, a, c) PROVE TInv' /\ Evolves
    <3>1. UNCHANGED rows
      BY <2>5 DEF SavePolicy
    <3>2. QED
      BY <2>5, <3>1, PolicyStep, RowsUnchanged
  <2>6. ASSUME NEW id \in DOMAIN rows, Edit(r, id) PROVE TInv' /\ Evolves
    <3>1. UNCHANGED rows
      BY <2>6 DEF Edit, tables
    <3>2. QED
      BY <2>6, <3>1, EditStep, RowsUnchanged
  <2>7. ASSUME NEW a \in Actors, NEW id \in DOMAIN rows, Execute(r, a, id) PROVE TInv' /\ Evolves
    <3>1. UNCHANGED rows
      BY <2>7 DEF Execute, tables
    <3>2. QED
      BY <2>7, <3>1, ExecuteStep, RowsUnchanged
  <2>8. CASE Scheduled(r) \/ \E a \in Actors : \E asked \in {policies} \cup {{c} : c \in policies} : RunRetention(r, a, asked)
    <3>1. UNCHANGED rows
      BY <2>8 DEF RunRetention, Scheduled, tables
    <3>2. QED
      BY <2>8, <3>1, RunStep, RowsUnchanged
  <2>9. QED
    BY <1>1, <2>1, <2>2, <2>3, <2>4, <2>5, <2>6, <2>7, <2>8 DEF Begins
<1>2. CASE Advance(r)
  <2>1. CASE SaveEdit(r)
    BY <2>1, SaveEditStep
  <2>2. CASE LockJob(r) \/ AnonymizeTable(r) \/ Collect(r) \/ WriteFile(r) \/ StartCategory(r) \/ SelectPeriods(r)
               \/ PurgeRefused(r) \/ RecordRetentionRun(r)
    <3>1. UNCHANGED rows
      BY <2>2 DEF LockJob, AnonymizeTable, Collect, WriteFile, StartCategory, SelectPeriods, PurgeRefused, RecordRetentionRun, tables
    <3>2. TInv'
      BY <2>2, LockStep, TableStep, CollectSteps, WriteFileStep, RetentionSteps
    <3>3. QED
      BY <3>1, <3>2, RowsUnchanged
  <2>3. CASE CommitJob(r)
    BY <2>3, CommitStep
  <2>4. CASE FailAnonymization(r) \/ WriteReport(r) \/ SaveExport(r)
    BY <2>4, StatusSteps
  <2>5. CASE Purge(r)
    BY <2>5, PurgeStep
  <2>6. QED
    BY <1>2, <2>1, <2>2, <2>3, <2>4, <2>5 DEF Advance
<1>3. CASE ExecutionFails(r)
  BY <1>3, ExecutionFailsStep
<1>4. CASE CollectFails(r) \/ PurgeFails(r) \/ Leave(r)
  <2>1. UNCHANGED rows
    BY <1>4 DEF CollectFails, PurgeFails, Leave, tables
  <2>2. TInv'
    BY <1>4, CollectSteps, RetentionSteps, LeaveStep
  <2>3. QED
    BY <2>1, <2>2, RowsUnchanged
<1>5. QED
  BY <1>1, <1>2, <1>3, <1>4 DEF Step

LEMMA StillTInv == ASSUME TInv, UNCHANGED vars PROVE TInv' /\ Evolves
<1>1. UNCHANGED <<rows, reports, files, policies, runs, pc, req>>
  BY DEF vars, tables
<1>2. RowsOK' /\ Evolves
  BY <1>1, RowsStay
<1>3. TypeOK'
  BY <1>1 DEF TInv, TypeOK, MayBeUnder
<1>4. ASSUME NEW q \in Requests PROVE KnowOK(q)'
  <2>1. KnowOK(q)
    BY DEF TInv
  <2>2. QED
    BY <1>1, <2>1 DEF KnowOK, JobStands, Past, TouchedOwn, Reached, PeriodsOld
<1>5. QED
  BY <1>1, <1>2, <1>3, <1>4 DEF TInv

LEMMA NextIsStep == ASSUME Next PROVE \E r \in Requests : Step(r)
BY DEF Next, Step

(* Of what follows every theorem rests on this: what the requests know is right,   *)
(* and rows evolve, in every execution.                                            *)
LEMMA Evolution == Spec => []TInv /\ [][Evolves]_vars
<1>1. Init => TInv
  BY InitTInv
<1>2. TInv /\ [Next]_vars => TInv' /\ Evolves
  BY NextIsStep, StepTInv, StillTInv
<1>3. TInv /\ [Next]_vars => TInv' /\ [Evolves]_vars
  BY <1>2
<1>4. QED
  BY <1>1, <1>3, PTL DEF Spec

(* The rows, the files and what the requests know have their types, and every row  *)
(* is under one that exists, whatever is anonymized and deleted at once.           *)
THEOREM TypeCorrect == Spec => []TypeOK
<1>1. TInv => TypeOK
  BY DEF TInv
<1>2. QED
  BY <1>1, Evolution, PTL

(* RetentionSpares, for any rows: what goes away was too old by the date that        *)
(* retention looks at, or a contact of somebody who is anonymized.                 *)
THEOREM RetentionSparing == Spec => RetentionSpares
<1>1. Evolves => \A id \in DOMAIN rows \ DOMAIN rows' :
        /\ Aged(rows, id) \/ (rows[id].kind = "contact" /\ \E j \in DOMAIN rows' :
             rows'[j].kind = "job" /\ rows'[j].text = "completed" /\ rows'[j].of = rows[id].of)
        /\ rows[id].kind \in {"export", "job"} => rows[id].text = "completed"
  BY DEF Evolves, Goes
<1>2. [Evolves]_vars => [\A id \in DOMAIN rows \ DOMAIN rows' :
        /\ Aged(rows, id) \/ (rows[id].kind = "contact" /\ \E j \in DOMAIN rows' :
             rows'[j].kind = "job" /\ rows'[j].text = "completed" /\ rows'[j].of = rows[id].of)
        /\ rows[id].kind \in {"export", "job"} => rows[id].text = "completed"]_vars
  BY <1>1
<1>3. QED
  BY <1>2, Evolution, PTL DEF RetentionSpares

-----------------------------------------------------------------------------
(* Where the steps lead *)

(* Which steps come to a label that the invariants below speak of. *)
Leads(r, label) ==
  /\ label = "anon" => LockJob(r) \/ AnonymizeTable(r)
  /\ label = "report" => CommitJob(r)
  /\ label = "collect" =>
       Collect(r) \/ CollectFails(r) \/ \E a \in Actors : \E e \in Employees : RequestDSAR(r, a, e)
  /\ label = "purge" => StartCategory(r) \/ SelectPeriods(r) \/ Purge(r)
  /\ label = "record" => SelectPeriods(r) \/ Purge(r) \/ PurgeFails(r) \/ PurgeRefused(r)

LeadsOn(r, label) == label \in Labels \ {"new"} /\ Leads(r, label) /\ \E knows : Goto(r, label, knows)

LEMMA StepLeads == ASSUME NEW r \in Requests, Step(r) PROVE \E label : LeadsOn(r, label)
<1>1. CASE Begins(r)
  <2>1. CASE \E a \in Actors : \E e \in Employees : RequestDSAR(r, a, e)
    <3>1. LeadsOn(r, "collect")
      BY <2>1 DEF RequestDSAR, LeadsOn, Leads, Labels
    <3>2. QED
      BY <3>1
  <2>2. CASE ~(\E a \in Actors : \E e \in Employees : RequestDSAR(r, a, e))
    <3>1. LeadsOn(r, "done") \/ LeadsOn(r, "edit") \/ LeadsOn(r, "lock") \/ LeadsOn(r, "start")
      <4>1. \E label \in {"done", "edit", "lock", "start"} : \E knows : Goto(r, label, knows)
        BY <1>1, <2>2 DEF Begins, Write, Edit, Scheduled, CreateConsent, RequestAnonymization, RevokeConsent, Execute,
                          SavePolicy, RunRetention, Finish
      <4>2. QED
        BY <4>1 DEF LeadsOn, Leads, Labels
    <3>2. QED
      BY <3>1
  <2>3. QED
    BY <2>1, <2>2
<1>2. CASE Advance(r)
  <2>1. CASE SaveEdit(r) \/ FailAnonymization(r) \/ WriteReport(r) \/ SaveExport(r)
    <3>1. LeadsOn(r, "done")
      BY <2>1 DEF SaveEdit, FailAnonymization, WriteReport, SaveExport, Finish, LeadsOn, Leads, Labels
    <3>2. QED
      BY <3>1
  <2>2. CASE LockJob(r) \/ AnonymizeTable(r)
    <3>1. LeadsOn(r, "anon")
      BY <2>2 DEF LockJob, AnonymizeTable, LeadsOn, Leads, Labels
    <3>2. QED
      BY <3>1
  <2>3. CASE CommitJob(r)
    <3>1. LeadsOn(r, "report")
      BY <2>3 DEF CommitJob, LeadsOn, Leads, Labels
    <3>2. QED
      BY <3>1
  <2>4. CASE Collect(r)
    <3>1. LeadsOn(r, "collect")
      BY <2>4 DEF Collect, LeadsOn, Leads, Labels
    <3>2. QED
      BY <3>1
  <2>5. CASE WriteFile(r) \/ RecordRetentionRun(r)
    <3>1. LeadsOn(r, "save") \/ LeadsOn(r, "unsaved") \/ LeadsOn(r, "start")
      BY <2>5 DEF WriteFile, RecordRetentionRun, LeadsOn, Leads, Labels
    <3>2. QED
      BY <3>1
  <2>6. CASE StartCategory(r) \/ SelectPeriods(r) \/ Purge(r) \/ PurgeRefused(r)
    <3>1. LeadsOn(r, "done") \/ LeadsOn(r, "purge") \/ LeadsOn(r, "record")
      BY <2>6 DEF StartCategory, SelectPeriods, Purge, PurgeRefused, Finish, LeadsOn, Leads, Labels
    <3>2. QED
      BY <3>1
  <2>7. QED
    BY <1>2, <2>1, <2>2, <2>3, <2>4, <2>5, <2>6 DEF Advance
<1>3. CASE ExecutionFails(r) \/ CollectFails(r) \/ PurgeFails(r) \/ Leave(r)
  <2>1. LeadsOn(r, "fail") \/ LeadsOn(r, "unsaved") \/ LeadsOn(r, "collect") \/ LeadsOn(r, "record") \/ LeadsOn(r, "done")
    BY <1>3 DEF ExecutionFails, CollectFails, PurgeFails, Leave, Finish, LeadsOn, Leads, Labels
  <2>2. QED
    BY <2>1
<1>4. QED
  BY <1>1, <1>2, <1>3 DEF Step

LEMMA StepMoves ==
  ASSUME TInv, NEW r \in Requests, Step(r)
  PROVE  /\ pc'[r] # "new" /\ Leads(r, pc'[r])
         /\ \A q \in Requests \ {r} : pc'[q] = pc[q] /\ req'[q] = req[q]
         /\ \A q \in Requests : pc'[q] = "new" => pc[q] = "new"
<1>1. PICK label : LeadsOn(r, label)
  BY StepLeads
<1>2. PICK knows : Goto(r, label, knows)
  BY <1>1 DEF LeadsOn
<1>3. label \in Labels \ {"new"} /\ Leads(r, label)
  BY <1>1 DEF LeadsOn
<1>4. /\ pc'[r] = label /\ \A q \in Requests \ {r} : pc'[q] = pc[q] /\ req'[q] = req[q]
      /\ \A q \in Requests : pc'[q] = "new" => pc[q] = "new"
  BY <1>2, <1>3, GotoMoves
<1>5. QED
  BY <1>3, <1>4

-----------------------------------------------------------------------------
(* Nobody waits in a circle *)

(* A transaction holds its job, and nobody else does. *)
LockInv ==
  /\ \A r \in Requests : pc[r] = "anon" => req[r].job \in req[r].touched
  /\ \A q, r \in Requests : pc[q] = "anon" /\ pc[r] = "anon" /\ req[q].job = req[r].job => q = r

LEMMA LockKept ==
  ASSUME TInv, LockInv, NEW r \in Requests, Step(r)
  PROVE  LockInv'
<1>1. /\ \A q \in Requests \ {r} : pc'[q] = pc[q] /\ req'[q] = req[q]
      /\ Leads(r, pc'[r])
  BY StepMoves
<1>2. CASE pc'[r] # "anon"
  BY <1>1, <1>2 DEF LockInv
<1>3. CASE LockJob(r)
  <2> DEFINE knows == [req[r] EXCEPT !.touched = {req[r].job}, !.had = About(req[r].of)]
  <2>1. pc[r] = "lock" /\ Goto(r, "anon", knows) /\ Free(r) /\ "anon" \in Labels \ {"new"}
    BY <1>3 DEF LockJob, Labels
  <2>2. knows.job = req[r].job /\ knows.touched = {req[r].job}
    <3>1. req[r] \in AnonKnows
      BY <2>1 DEF TInv, KnowOK
    <3>2. QED
      BY <3>1 DEF AnonKnows
  <2> HIDE DEF knows
  <2>3. req'[r] = knows
    BY <2>1, GotoMoves
  <2>4. \A q \in Requests \ {r} : pc[q] = "anon" => req[r].job \notin req[q].touched
    BY <2>1 DEF Free, Awaits, Wanted
  <2>5. QED
    BY <1>1, <2>2, <2>3, <2>4 DEF LockInv
<1>4. CASE AnonymizeTable(r)
  <2> DEFINE knows == [req[r] EXCEPT !.i = @ + 1, !.touched = @ \cup Wanted(r)]
  <2>1. pc[r] = "anon" /\ Goto(r, "anon", knows) /\ "anon" \in Labels \ {"new"}
    BY <1>4 DEF AnonymizeTable, Labels
  <2>2. knows.job = req[r].job /\ req[r].touched \subseteq knows.touched
    <3>1. req[r] \in AnonKnows
      BY <2>1 DEF TInv, KnowOK
    <3>2. QED
      BY <3>1 DEF AnonKnows
  <2> HIDE DEF knows
  <2>3. req'[r] = knows
    BY <2>1, GotoMoves
  <2>4. QED
    BY <1>1, <2>1, <2>2, <2>3 DEF LockInv
<1>5. QED
  BY <1>1, <1>2, <1>3, <1>4 DEF Leads

(* Who waits for a transaction in a transaction is at an earlier statement. *)
LEMMA WaitsAhead ==
  ASSUME TInv, LockInv, NEW r \in Requests, pc[r] = "anon", NEW q \in Awaits(r)
  PROVE  pc[q] = "anon" /\ req[r].i \in 1..10 /\ req[q].i \in 1..10 /\ req[r].i < req[q].i
<1>1. q \in Requests \ {r} /\ pc[q] = "anon" /\ req[q].touched \cap Wanted(r) # {}
  BY DEF Awaits
<1>2. /\ req[r] \in AnonKnows /\ JobStands(r) /\ req[q] \in AnonKnows /\ JobStands(q) /\ TouchedOwn(q)
  BY <1>1 DEF TInv, KnowOK
<1>3. req[r].i \in 1..10 /\ req[q].i \in 1..10
  BY <1>2, Steps DEF AnonKnows
<1>4. PICK id \in Wanted(r) : id \in req[q].touched
  BY <1>1
<1>5. ~Finished(r)
  <2> SUFFICES ASSUME Finished(r) PROVE FALSE
    OBVIOUS
  <2>1. id = req[r].job
    BY <1>4 DEF Wanted, Finished
  <2>2. id \in DOMAIN rows /\ rows[id].kind = "job"
    BY <1>2, <2>1 DEF JobStands
  <2>3. ~Reached("job", req[q].i)
    BY <1>3, StepKinds DEF Reached, AnonKinds
  <2>4. id = req[q].job
    BY <1>2, <1>4, <2>2, <2>3 DEF TouchedOwn
  <2>5. QED
    BY <1>1, <2>1, <2>4 DEF LockInv
<1>6. req[r].i \in 1..9 /\ id \in Matched(req[r].of, req[r].i)
  BY <1>3, <1>4, <1>5, Steps DEF Wanted, Finished
<1>7. id \in DOMAIN rows /\ (rows[id].kind = AnonSteps[req[r].i] \/ (req[r].i = 1 /\ rows[id].kind = "nickname"))
  BY <1>6 DEF Matched, About
<1>8. rows[id].kind # "job"
  BY <1>6, <1>7, StepKinds DEF AnonKinds
<1>9. Reached(rows[id].kind, req[q].i)
  BY <1>2, <1>4, <1>7, <1>8 DEF TouchedOwn, JobStands
<1>10. CASE rows[id].kind = "nickname"
  <2>1. req[r].i = 1
    BY <1>6, <1>7, <1>10, StepKinds DEF AnonKinds
  <2>2. req[q].i > 1
    BY <1>3, <1>9 DEF Reached
  <2>3. QED
    BY <1>1, <1>3, <2>1, <2>2
<1>11. CASE rows[id].kind # "nickname"
  <2>1. PICK k \in 1..(req[q].i - 1) : rows[id].kind = AnonSteps[k]
    BY <1>9, <1>11 DEF Reached
  <2>2. k \in 1..9 /\ AnonSteps[req[r].i] = AnonSteps[k]
    BY <1>3, <1>7, <1>11, <2>1
  <2>3. k = req[r].i
    BY <1>6, <2>2, StepsDiffer
  <2>4. QED
    BY <1>1, <1>3, <2>1, <2>3
<1>12. QED
  BY <1>10, <1>11

LEMMA NoAscent ==
  ASSUME NEW S, NEW f \in [S -> 1..10], \A r \in S : \E q \in S : f[r] < f[q]
  PROVE  S = {}
<1> DEFINE Below(n) == \A r \in S : f[r] < n
<1>1. Below(11)
  OBVIOUS
<1>2. Below(8)
  BY <1>1
<1>3. Below(5)
  BY <1>2
<1>4. Below(2)
  BY <1>3
<1>5. QED
  BY <1>4

LEMMA LockedNoDeadlock == ASSUME TInv, LockInv PROVE NoDeadlock
<1> SUFFICES ASSUME NEW waiting \in (SUBSET Requests) \ {{}}, \A r \in waiting : Awaits(r) \cap waiting # {}
             PROVE  FALSE
  BY DEF NoDeadlock
<1> DEFINE inside == {r \in waiting : pc[r] = "anon"}
           at == [r \in inside |-> req[r].i]
<1>1. \A r \in waiting : \E q \in inside : q \in Awaits(r)
  BY DEF Awaits
<1>2. \A r \in inside : \E q \in inside : req[r].i \in 1..10 /\ req[q].i \in 1..10 /\ req[r].i < req[q].i
  BY <1>1, WaitsAhead
<1>3. at \in [inside -> 1..10] /\ \A r \in inside : \E q \in inside : at[r] < at[q]
  BY <1>2
<1> HIDE DEF at
<1>4. inside = {}
  BY <1>3, NoAscent
<1>5. QED
  BY <1>1, <1>4

(* Among any requests, however many anonymize and edit at once, there is one that  *)
(* waits for none of the others.                                                   *)
THEOREM Deadlockless == Spec => []NoDeadlock
<1>1. Init => LockInv
  BY DEF Init, LockInv
<1>2. TInv /\ LockInv /\ [Next]_vars => LockInv'
  <2>1. TInv /\ LockInv /\ Next => LockInv'
    BY NextIsStep, LockKept
  <2>2. LockInv /\ UNCHANGED vars => LockInv'
    BY DEF LockInv, vars
  <2>3. QED
    BY <2>1, <2>2
<1>3. TInv /\ LockInv => NoDeadlock
  BY LockedNoDeadlock
<1>4. QED
  BY <1>1, <1>2, <1>3, Evolution, PTL DEF Spec

-----------------------------------------------------------------------------
(* What is anonymized stays so *)

(* A row that reads as personal did so before, or has just been saved again. *)
Wiped ==
  \A id \in DOMAIN rows' \cap DOMAIN rows :
    rows'[id].text = "personal" /\ id \notin rewritten' => rows[id].text = "personal" /\ id \notin rewritten

(* A job is completed by the commit of an execution only. *)
Completes ==
  /\ DOMAIN present \subseteq DOMAIN present'
  /\ \A j \in DOMAIN rows' : rows'[j].kind = "job" /\ rows'[j].text = "completed" =>
       j \in DOMAIN present' \/ (j \in DOMAIN rows /\ rows[j].text = "completed")

(* What employees called themselves, once it is gone, comes back only saved again. *)
Nicknamed ==
  \A id \in DOMAIN rows' \cap DOMAIN rows :
    rows[id].kind = "nickname" /\ (rows[id].text = "null" \/ id \in rewritten) =>
      rows'[id].text = "null" \/ id \in rewritten'

Commits(r) == Finished(r) /\ Commit(r)

LEMMA SameTexts ==
  ASSUME UNCHANGED history, \A id \in DOMAIN rows' \cap DOMAIN rows : rows'[id].text = rows[id].text,
         \A id \in DOMAIN rows' \ DOMAIN rows : rows'[id].text # "completed"
  PROVE  Wiped /\ Completes /\ Nicknamed
BY DEF Wiped, Completes, Nicknamed, history

LEMMA InsertTexts ==
  ASSUME TInv, UNCHANGED history, NEW r \in Requests, pc[r] = "new", NEW row, row.text # "completed", Insert(r, row)
  PROVE  Wiped /\ Completes /\ Nicknamed
<1>1. r \notin DOMAIN rows
  BY Tables DEF RowsOK, Past
<1>2. /\ \A id \in DOMAIN rows' \cap DOMAIN rows : rows'[id].text = rows[id].text
      /\ \A id \in DOMAIN rows' \ DOMAIN rows : rows'[id].text # "completed"
  BY <1>1 DEF Insert, Put
<1>3. QED
  BY <1>2, SameTexts

LEMMA StatusTexts ==
  ASSUME TInv, UNCHANGED history, NEW j, NEW status \in JobStatuses, rows' = WithStatus(rows, j, status),
         j \in DOMAIN rows => rows[j].kind \notin {"nickname", "period"} /\ (status = "completed" => rows[j].kind # "job")
  PROVE  Wiped /\ Completes /\ Nicknamed
<1>1. \A id \in DOMAIN rows : rows[id] \in RowType
  BY Tables DEF RowsOK
<1>2. status \in Texts /\ status # "personal"
  BY DEF Texts, JobStatuses
<1>3. DOMAIN rows' = DOMAIN rows /\ \A id \in DOMAIN rows :
         /\ rows'[id].kind = rows[id].kind
         /\ id = j => rows'[id].text = status
         /\ id # j => rows'[id] = rows[id]
  BY <1>1, <1>2, WithStatusLike DEF Like
<1>4. QED
  BY <1>2, <1>3 DEF Wiped, Completes, Nicknamed, history

LEMMA CommitTexts ==
  ASSUME TInv, NEW r \in Requests, Commits(r), \A q \in Requests : pc'[q] = "new" => pc[q] = "new"
  PROVE  Wiped /\ Completes /\ Nicknamed
<1>1. pc[r] = "anon" /\ Commit(r)
  BY DEF Commits, Finished
<1>2. \A id \in DOMAIN rows' :
        /\ id \in DOMAIN rows
        /\ id \in req[r].touched \ {req[r].job} =>
             rows'[id].text \in {"anonymized", "null"} /\ (rows[id].kind = "nickname" => rows'[id].text = "null")
        /\ id \notin req[r].touched \cup {req[r].job} => rows'[id] = rows[id]
        /\ id = req[r].job => rows'[id].text = "completed"
  BY <1>1, CommitRows
<1>3. rewritten' = rewritten \ (req[r].touched \ {req[r].job}) /\ DOMAIN present' = DOMAIN present \cup {req[r].job}
  BY <1>1 DEF Commit, Put
<1>4. Wiped
  BY <1>2, <1>3 DEF Wiped
<1>5. \A j \in DOMAIN rows' : rows'[j].text = "completed" => j = req[r].job \/ rows'[j] = rows[j]
  BY <1>2
<1>6. Completes
  BY <1>2, <1>3, <1>5 DEF Completes
<1>7. rows[req[r].job].kind = "job"
  BY <1>1 DEF TInv, KnowOK, JobStands
<1>8. Nicknamed
  BY <1>2, <1>3, <1>7 DEF Nicknamed
<1>9. QED
  BY <1>4, <1>6, <1>8

LEMMA SaveEditTexts == ASSUME TInv, NEW r \in Requests, SaveEdit(r) PROVE Wiped /\ Completes /\ Nicknamed
<1> DEFINE saved == SavedWith(req[r].row)
           texts == SetText(saved, "personal")
<1>1. rows' = Touched(texts, saved, {"pip"}) /\ rewritten' = rewritten \cup saved /\ present' = present
  BY DEF SaveEdit
<1>2. "personal" \in Texts \ {"completed"} /\ \A id \in DOMAIN rows : rows[id] \in RowType
  BY Tables DEF Texts, JobStatuses, RowsOK
<1>3. /\ DOMAIN texts = DOMAIN rows
      /\ \A id \in DOMAIN rows : /\ texts[id] \in RowType
                                 /\ id \in saved => texts[id].text = "personal"
                                 /\ id \notin saved => texts[id] = rows[id]
  BY <1>2, SetTextLike DEF Like
<1> HIDE DEF saved, texts
<1>4. DOMAIN rows' = DOMAIN texts /\ \A id \in DOMAIN texts : /\ rows'[id].text = texts[id].text
                                                              /\ id \notin saved => rows'[id] = texts[id]
  BY <1>1, <1>3, TouchedLike
<1>5. Wiped /\ Completes /\ Nicknamed
  <2>1. \A id \in DOMAIN rows' : /\ id \in saved => rows'[id].text = "personal"
                                 /\ id \notin saved => rows'[id] = rows[id]
    BY <1>3, <1>4
  <2>2. DOMAIN rows' = DOMAIN rows
    BY <1>3, <1>4
  <2>3. QED
    BY <1>1, <2>1, <2>2 DEF Wiped, Completes, Nicknamed
<1>6. QED
  BY <1>5

LEMMA RevokeTexts ==
  ASSUME TInv, NEW r \in Requests, NEW a \in Actors, NEW id \in DOMAIN rows, RevokeConsent(r, a, id)
  PROVE  Wiped /\ Completes /\ Nicknamed
<1>1. rows' = SetText({id}, "revoked") /\ UNCHANGED history /\ rows[id].kind = "consent"
  BY DEF RevokeConsent, ListConsents
<1>2. "revoked" \in Texts \ {"completed"} /\ \A k \in DOMAIN rows : rows[k] \in RowType
  BY Tables DEF Texts, JobStatuses, RowsOK
<1>3. /\ DOMAIN rows' = DOMAIN rows
      /\ \A k \in DOMAIN rows : /\ k \in {id} => rows'[k].text = "revoked"
                                /\ k \notin {id} => rows'[k] = rows[k]
  BY <1>1, <1>2, SetTextLike
<1>4. QED
  BY <1>1, <1>3 DEF Wiped, Completes, Nicknamed, history

LEMMA PurgeTexts == ASSUME TInv, NEW r \in Requests, Purge(r) PROVE Wiped /\ Completes /\ Nicknamed
<1>1. rows' = After(Statement(r), req[r].periods) /\ present' = present
  BY DEF Purge
<1>2. \A id \in DOMAIN rows : rows[id] \in RowType
  BY Tables DEF RowsOK
<1>3. CASE Statement(r) = "unlink"
  <2> DEFINE Unlinked(row) == [row EXCEPT !.parent = None]
             linked == {id \in DOMAIN rows : rows[id].kind = "feedback" /\ OldParents(id)}
  <2>1. rows' = [id \in DOMAIN rows |-> IF id \in linked THEN Unlinked(rows[id]) ELSE rows[id]] /\ UNCHANGED history
    BY <1>1, <1>3 DEF After, Purge, history
  <2>2. \A row \in RowType : Unlinked(row).text = row.text
    BY DEF RowType
  <2> HIDE DEF Unlinked, linked
  <2>3. QED
    BY <1>2, <2>1, <2>2, SameTexts
<1>4. CASE Statement(r) = "nickname"
  <2>1. /\ rows' = SetText(OldOf("nickname"), "null") /\ "null" \in Texts \ {"completed"}
        /\ rewritten' = rewritten \ OldOf("nickname")
    BY <1>1, <1>4 DEF After, Texts, Purge
  <2>2. /\ DOMAIN rows' = DOMAIN rows
        /\ \A id \in DOMAIN rows : /\ id \in OldOf("nickname") => rows'[id].text = "null"
                                   /\ id \notin OldOf("nickname") => rows'[id] = rows[id]
    BY <1>2, <2>1, SetTextLike
  <2>3. QED
    BY <1>1, <2>1, <2>2 DEF Wiped, Completes, Nicknamed
<1>5. CASE Statement(r) \notin {"unlink", "nickname"}
  <2>1. rows' = [id \in DOMAIN rows \ Cascade(Due(Statement(r), req[r].periods)) |-> rows[id]] /\ UNCHANGED history
    BY <1>1, <1>5 DEF After, Purge, history
  <2>2. QED
    BY <2>1, SameTexts
<1>6. QED
  BY <1>3, <1>4, <1>5

LEMMA StepTexts ==
  ASSUME TInv, NEW r \in Requests, Step(r)
  PROVE  Wiped /\ Completes /\ Nicknamed /\ (UNCHANGED <<present, reports>> \/ (Commits(r) /\ UNCHANGED reports) \/ WriteReport(r))
<1>1. CASE UNCHANGED <<rows, history, reports>>
  BY <1>1, SameTexts DEF history
<1>2. CASE Begins(r) /\ ~UNCHANGED <<rows, history, reports>>
  <2>1. CASE \E id \in DOMAIN rows : \E a \in Actors : RevokeConsent(r, a, id)
    BY <2>1, RevokeTexts DEF RevokeConsent, history
  <2>2. CASE ~\E id \in DOMAIN rows : \E a \in Actors : RevokeConsent(r, a, id)
    <3>1. CASE \E w \in Writable : Write(r, w.by, w.kind, w.of, w.parent)
      <4>1. PICK w \in Writable : Write(r, w.by, w.kind, w.of, w.parent)
        BY <3>1
      <4> DEFINE row == [Row(w.kind, w.of, w.by, "personal") EXCEPT !.parent = w.parent]
      <4>2. row.text # "completed"
        BY DEF Row
      <4>3. Insert(r, row) /\ UNCHANGED history /\ UNCHANGED reports /\ pc[r] = "new"
        BY <4>1 DEF Write, Starts
      <4> HIDE DEF row
      <4>4. QED
        BY <4>2, <4>3, InsertTexts DEF history
    <3>2. ASSUME NEW a \in Actors, NEW e \in Employees,
                 CreateConsent(r, a, e) \/ RequestAnonymization(r, a, e) \/ RequestDSAR(r, a, e)
          PROVE  Wiped /\ Completes /\ Nicknamed /\ UNCHANGED <<present, reports>>
      <4>1. PICK kind \in {"consent", "job", "export"}, text \in {"personal", "requested", "processing"} : Insert(r, Row(kind, e, a, text))
        BY <3>2 DEF CreateConsent, RequestAnonymization, RequestDSAR
      <4>2. Row(kind, e, a, text).text # "completed"
        BY DEF Row
      <4>3. UNCHANGED history /\ UNCHANGED reports /\ pc[r] = "new"
        BY <3>2 DEF CreateConsent, RequestAnonymization, RequestDSAR, Starts
      <4>4. QED
        BY <4>1, <4>2, <4>3, InsertTexts DEF history
    <3>3. QED
      BY <1>2, <2>2, <3>1, <3>2 DEF Begins, Edit, Scheduled, Execute, SavePolicy, RunRetention, tables, history
  <2>3. QED
    BY <2>1, <2>2
<1>3. CASE Advance(r) /\ ~UNCHANGED <<rows, history, reports>>
  <2>1. CASE SaveEdit(r)
    BY <2>1, SaveEditTexts DEF SaveEdit
  <2>2. CASE CommitJob(r)
    BY <2>2, StepMoves, CommitTexts DEF CommitJob, Commits
  <2>3. CASE FailAnonymization(r)
    <3>1. rows' = WithStatus(rows, req[r].job, "failed") /\ UNCHANGED history /\ "failed" \in JobStatuses
      BY <2>3 DEF FailAnonymization, JobStatuses
    <3>2. req[r].job \in DOMAIN rows => rows[req[r].job].kind = "job"
      BY <2>3 DEF FailAnonymization, TInv, KnowOK
    <3>3. QED
      BY <2>3, <3>1, <3>2, StatusTexts DEF history, FailAnonymization
  <2>4. CASE SaveExport(r)
    <3> DEFINE status == IF pc[r] = "save" THEN "completed" ELSE "failed"
    <3>1. rows' = WithStatus(rows, r, status) /\ UNCHANGED history /\ UNCHANGED reports /\ status \in JobStatuses
      BY <1>3, <2>4 DEF SaveExport, JobStatuses
    <3>2. r \in DOMAIN rows => rows[r].kind = "export"
      BY <2>4 DEF SaveExport, TInv, KnowOK
    <3> HIDE DEF status
    <3>3. QED
      BY <3>1, <3>2, StatusTexts DEF history
  <2>5. CASE WriteReport(r)
    BY <2>5, SameTexts DEF WriteReport
  <2>6. CASE Purge(r)
    BY <2>6, PurgeTexts DEF Purge
  <2>7. QED
    BY <1>3, <2>1, <2>2, <2>3, <2>4, <2>5, <2>6 DEF Advance, LockJob, AnonymizeTable, Collect, WriteFile, StartCategory,
       SelectPeriods, PurgeRefused, RecordRetentionRun, tables, history
<1>4. CASE ExecutionFails(r) /\ ~UNCHANGED <<rows, history, reports>>
  <2>1. Commits(r)
    BY <1>4 DEF ExecutionFails, Commits, history
  <2>2. QED
    BY <1>4, <2>1, StepMoves, CommitTexts DEF ExecutionFails
<1>5. CASE CollectFails(r) \/ PurgeFails(r) \/ Leave(r)
  BY <1>1, <1>5 DEF CollectFails, PurgeFails, Leave, tables
<1>6. QED
  BY <1>1, <1>2, <1>3, <1>4, <1>5 DEF Step

(* What a transaction found of its employee, and has come to, it has written; and   *)
(* of a job that is completed, or has a report, it is known what there was, of     *)
(* which nothing is personal but what has been saved again.                        *)
HadOwn(r) ==
  \A id \in req[r].had \cap DOMAIN rows :
    rows[id].of = req[r].of /\ (Reached(rows[id].kind, req[r].i) => id \in req[r].touched)

BlankOf(j) == \A id \in (present[j] \ rewritten) \cap DOMAIN rows : rows[id].kind \in Blankable => rows[id].text # "personal"

BlankInv ==
  /\ \A r \in Requests : pc[r] = "anon" => HadOwn(r)
  /\ \A j \in DOMAIN present : Past(present[j]) /\ BlankOf(j)
  /\ \A j \in DOMAIN rows : rows[j].kind = "job" /\ rows[j].text = "completed" => j \in DOMAIN present
  /\ reports \subseteq DOMAIN present
  /\ \A r \in Requests : pc[r] = "report" => req[r].job \in DOMAIN present

LEMMA HadKept ==
  ASSUME TInv, BlankInv, NEW r \in Requests, Step(r), NEW q \in Requests, pc'[q] = "anon"
  PROVE  HadOwn(q)'
<1>1. Evolves
  BY StepTInv
<1>2. CASE q # r
  <2>1. pc[q] = "anon" /\ req'[q] = req[q]
    BY <1>2, StepMoves
  <2>2. Past(req[q].had) /\ HadOwn(q)
    BY <2>1 DEF TInv, KnowOK, BlankInv
  <2>3. \A id \in req[q].had \cap DOMAIN rows' : id \in DOMAIN rows /\ Stays(id)
    BY <1>1, <2>2 DEF Evolves, Comes, Past
  <2>4. QED
    BY <2>1, <2>2, <2>3 DEF HadOwn, Stays, Reached
<1>3. CASE q = r /\ LockJob(r)
  <2> DEFINE knows == [req[r] EXCEPT !.touched = {req[r].job}, !.had = About(req[r].of)]
  <2>1. pc[r] = "lock" /\ Goto(r, "anon", knows) /\ "anon" \in Labels \ {"new"} /\ UNCHANGED rows
    BY <1>3 DEF LockJob, Labels, tables
  <2>2. req[r] \in AnonKnows /\ req[r].i = 1
    BY <2>1 DEF TInv, KnowOK
  <2>3. knows.of = req[r].of /\ knows.had = About(req[r].of) /\ knows.i = 1
    BY <2>2 DEF AnonKnows
  <2> HIDE DEF knows
  <2>4. req'[r] = knows
    BY <2>1, GotoMoves
  <2>5. \A kind : ~Reached(kind, 1)
    BY DEF Reached
  <2>6. QED
    BY <1>3, <2>1, <2>3, <2>4, <2>5 DEF HadOwn, About, Reached
<1>4. CASE q = r /\ AnonymizeTable(r)
  <2> DEFINE new == Wanted(r)
             knows == [req[r] EXCEPT !.i = @ + 1, !.touched = @ \cup new]
  <2>1. /\ pc[r] = "anon" /\ Goto(r, "anon", knows) /\ "anon" \in Labels \ {"new"} /\ UNCHANGED rows
        /\ req[r].i <= 9
    BY <1>4, Steps DEF AnonymizeTable, Labels, tables
  <2>2. req[r] \in AnonKnows /\ HadOwn(r) /\ req[r].i \in 1..9
    <3>1. req[r] \in AnonKnows /\ HadOwn(r)
      BY <2>1 DEF TInv, KnowOK, BlankInv
    <3>2. QED
      BY <2>1, <3>1, Steps DEF AnonKnows
  <2>3. /\ knows.of = req[r].of /\ knows.had = req[r].had /\ knows.i = req[r].i + 1
        /\ knows.touched = req[r].touched \cup new
    BY <2>2 DEF AnonKnows
  <2> HIDE DEF knows
  <2>4. req'[r] = knows
    BY <2>1, GotoMoves
  <2>5. \A kind : Reached(kind, req[r].i + 1) =>
          Reached(kind, req[r].i) \/ kind = AnonSteps[req[r].i] \/ (kind = "nickname" /\ req[r].i = 1)
    BY <2>2 DEF Reached
  <2>6. ASSUME NEW id \in req[r].had \cap DOMAIN rows, Reached(rows[id].kind, req[r].i + 1)
        PROVE  id \in req[r].touched \cup new
    <3>1. id \in req[r].touched \/ id \in Matched(req[r].of, req[r].i)
      BY <2>2, <2>5, <2>6 DEF HadOwn, Matched, About
    <3>2. QED
      BY <2>1, <2>2, <3>1, Steps, WantedMatched DEF Finished
  <2> HIDE DEF new
  <2>7. QED
    BY <1>4, <2>1, <2>2, <2>3, <2>4, <2>6 DEF HadOwn, Reached
<1>5. QED
  BY <1>2, <1>3, <1>4, StepMoves DEF Leads

(* Rows that were blank are, unless they have been saved again. *)
LEMMA StaysBlank ==
  ASSUME TInv, Wiped, Evolves, NEW ids, Past(ids),
         \A id \in (ids \ rewritten) \cap DOMAIN rows : rows[id].kind \in Blankable => rows[id].text # "personal"
  PROVE  \A id \in (ids \ rewritten') \cap DOMAIN rows' : rows'[id].kind \in Blankable => rows'[id].text # "personal"
<1> SUFFICES ASSUME NEW id \in (ids \ rewritten') \cap DOMAIN rows', rows'[id].kind \in Blankable, rows'[id].text = "personal"
             PROVE  FALSE
  OBVIOUS
<1>1. id \in DOMAIN rows /\ Stays(id)
  BY DEF Evolves, Comes, Past
<1>2. rows[id].text = "personal" /\ id \notin rewritten
  BY <1>1 DEF Wiped
<1>3. QED
  BY <1>1, <1>2 DEF Stays

LEMMA CommitBlank ==
  ASSUME TInv, BlankInv, NEW r \in Requests, Commits(r), \A q \in Requests : pc'[q] = "new" => pc[q] = "new"
  PROVE  \A id \in (req[r].had \ rewritten') \cap DOMAIN rows' :
           rows'[id].kind \in Blankable => rows'[id].text # "personal"
<1> SUFFICES ASSUME NEW id \in req[r].had \cap DOMAIN rows', rows'[id].kind \in Blankable
             PROVE  rows'[id].text # "personal"
  OBVIOUS
<1>1. pc[r] = "anon" /\ Commit(r) /\ req[r].i > 9
  BY Steps DEF Commits, Finished
<1>2. req[r] \in AnonKnows /\ HadOwn(r) /\ JobStands(r)
  BY <1>1 DEF BlankInv, TInv, KnowOK
<1>3. req[r].i = 10
  BY <1>1, <1>2, Steps DEF AnonKnows
<1>4. /\ Evolves /\ id \in DOMAIN rows
      /\ id \in req[r].touched \ {req[r].job} => rows'[id].text \in {"anonymized", "null"}
  BY <1>1, CommitRows
<1>5. rows'[id].kind = rows[id].kind
  BY <1>4 DEF Evolves, Stays
<1>6. Reached(rows[id].kind, 10)
  BY <1>5, StepKinds DEF Reached
<1>7. id \in req[r].touched
  BY <1>2, <1>3, <1>4, <1>6 DEF HadOwn
<1>8. id # req[r].job
  BY <1>2, <1>5, StepKinds DEF JobStands, AnonKinds
<1>9. QED
  BY <1>4, <1>7, <1>8

LEMMA BlankKept ==
  ASSUME TInv, BlankInv, NEW r \in Requests, Step(r)
  PROVE  BlankInv'
<1>1. /\ Wiped /\ Completes /\ (UNCHANGED <<present, reports>> \/ (Commits(r) /\ UNCHANGED reports) \/ WriteReport(r))
      /\ Evolves
  BY StepTexts, StepTInv
<1>2. /\ \A q \in Requests \ {r} : pc'[q] = pc[q] /\ req'[q] = req[q]
      /\ \A q \in Requests : pc'[q] = "new" => pc[q] = "new"
      /\ Leads(r, pc'[r])
  BY StepMoves
<1>3. \A q \in Requests : pc'[q] = "anon" => HadOwn(q)'
  BY HadKept
<1>4. ASSUME NEW j \in DOMAIN present'
      PROVE  /\ Past(present[j])'
             /\ \A id \in (present'[j] \ rewritten') \cap DOMAIN rows' :
                  rows'[id].kind \in Blankable => rows'[id].text # "personal"
  <2>1. CASE j \in DOMAIN present /\ present'[j] = present[j]
    <3>1. Past(present[j]) /\ BlankOf(j)
      BY <2>1 DEF BlankInv
    <3>2. Past(present[j])'
      BY <1>2, <2>1, <3>1 DEF Past
    <3>3. QED
      BY <1>1, <2>1, <3>1, <3>2, StaysBlank DEF BlankOf
  <2>2. CASE Commits(r) /\ j = req[r].job
    <3>1. present'[j] = req[r].had /\ pc[r] = "anon"
      BY <2>2 DEF Commits, Commit, Put, Finished
    <3>2. Past(req[r].had)
      BY <3>1 DEF TInv, KnowOK
    <3>3. Past(present[j])'
      BY <1>2, <3>1, <3>2 DEF Past
    <3>4. QED
      BY <1>2, <2>2, <3>1, <3>3, CommitBlank
  <2>3. CASE Commits(r) /\ j # req[r].job
    <3>1. j \in DOMAIN present /\ present'[j] = present[j]
      BY <2>3 DEF Commits, Commit, Put
    <3>2. QED
      BY <2>1, <3>1
  <2>4. CASE ~Commits(r)
    <3>1. present' = present
      BY <1>1, <2>4 DEF WriteReport, history
    <3>2. QED
      BY <2>1, <3>1
  <2>5. QED
    BY <2>2, <2>3, <2>4
<1>5. \A j \in DOMAIN rows' : rows'[j].kind = "job" /\ rows'[j].text = "completed" => j \in DOMAIN present'
  <2> SUFFICES ASSUME NEW j \in DOMAIN rows', rows'[j].kind = "job", rows'[j].text = "completed" PROVE j \in DOMAIN present'
    OBVIOUS
  <2>1. CASE j \in DOMAIN rows /\ rows[j].text = "completed"
    <3>1. rows[j].kind = "job"
      BY <1>1, <2>1 DEF Evolves, Stays
    <3>2. QED
      BY <1>1, <2>1, <3>1 DEF BlankInv, Completes
  <2>2. QED
    BY <1>1, <2>1 DEF Completes
<1>6. reports' \subseteq DOMAIN present'
  <2>1. CASE WriteReport(r)
    <3>1. reports' = reports \cup {req[r].job} /\ req[r].job \in DOMAIN present
      BY <2>1 DEF WriteReport, BlankInv
    <3>2. QED
      BY <1>1, <3>1 DEF BlankInv, Completes
  <2>2. CASE ~WriteReport(r)
    <3>1. reports' = reports
      BY <1>1, <2>2
    <3>2. QED
      BY <1>1, <3>1 DEF BlankInv, Completes
  <2>3. QED
    BY <2>1, <2>2
<1>7. ASSUME NEW q \in Requests, pc'[q] = "report" PROVE req'[q].job \in DOMAIN present'
  <2>1. CASE q # r
    BY <1>1, <1>2, <1>7, <2>1 DEF BlankInv, Completes
  <2>2. CASE q = r
    <3> DEFINE knows == [task |-> "report", job |-> req[r].job]
    <3>1. CommitJob(r)
      BY <1>2, <1>7, <2>2 DEF Leads
    <3>2. Commit(r) /\ Goto(r, "report", knows) /\ "report" \in Labels \ {"new"}
      BY <3>1 DEF CommitJob, Labels
    <3>3. knows.job = req[r].job
      OBVIOUS
    <3> HIDE DEF knows
    <3>4. req'[r] = knows
      BY <3>2, GotoMoves
    <3>5. QED
      BY <2>2, <3>2, <3>3, <3>4 DEF Commit, Put
  <2>3. QED
    BY <2>1, <2>2
<1>8. QED
  BY <1>3, <1>4, <1>5, <1>6, <1>7 DEF BlankInv, BlankOf

(* CompletedMeansBlank, for any rows and edits: a job that is shown as completed,   *)
(* or of which there is a report, has left nothing personal in the rows of the     *)
(* kinds listed in Blankable, but what has been saved again since.                 *)
THEOREM Anonymized == Spec => []CompletedMeansBlank
<1>1. Init => BlankInv
  <2> SUFFICES ASSUME Init PROVE BlankInv
    OBVIOUS
  <2>1. /\ rows = Initial /\ reports = {} /\ DOMAIN present = {}
        /\ \A r \in Requests : pc[r] = "new"
    BY DEF Init
  <2>2. \A j \in DOMAIN rows : ~(rows[j].kind = "job" /\ rows[j].text = "completed")
    BY <2>1, GdprAssumption
  <2>3. QED
    BY <2>1, <2>2 DEF BlankInv
<1>2. TInv /\ BlankInv /\ [Next]_vars => BlankInv'
  <2>1. TInv /\ BlankInv /\ Next => BlankInv'
    BY NextIsStep, BlankKept
  <2>2. BlankInv /\ UNCHANGED vars => BlankInv'
    BY DEF BlankInv, BlankOf, HadOwn, Reached, Past, vars, tables, history
  <2>3. QED
    BY <2>1, <2>2
<1>3. BlankInv => CompletedMeansBlank
  BY DEF BlankInv, BlankOf, CompletedMeansBlank, ListAnonymizationJobs, DownloadReport
<1>4. QED
  BY <1>1, <1>2, <1>3, Evolution, PTL DEF Spec

-----------------------------------------------------------------------------
(* An export has everything *)

(* Of what was there, is still there and belongs to one of the first n - 1 sections, *)
(* got has every row unless the query of its section has failed.                   *)
Collected(had, got, missing, n) ==
  \A id \in had \cap DOMAIN rows : \A k \in 1..(n - 1) :
    rows[id].kind = Sections[k] => id \in got \/ Sections[k] \in missing

(* The rows about an employee, and the feedback it gave. *)
Own(e, id) == rows[id].of = e \/ (rows[id].kind = "feedback" /\ ByUserOf(e, id))

Collecting(r) ==
  /\ Collected(req[r].had, req[r].got, req[r].missing, req[r].i)
  /\ \A id \in req[r].had \cap DOMAIN rows : Own(req[r].of, id) /\ rows[id].kind \in Exported

Written(x) ==
  /\ Past(files[x].had) /\ Collected(files[x].had, files[x].got, files[x].missing, 13)
  /\ \A id \in files[x].had \cap DOMAIN rows : rows[id].kind \in Exported

CollectInv ==
  /\ \A r \in Requests : pc[r] = "collect" => Collecting(r)
  /\ \A x \in DOMAIN files : Written(x)

(* One more section. *)
LEMMA Gathers ==
  ASSUME NEW had, NEW got, NEW missing, NEW n \in Nat, Collected(had, got, missing, n),
         NEW more, got \subseteq more, NEW lost, missing \subseteq lost,
         \A id \in had \cap DOMAIN rows : rows[id].kind = Sections[n] => id \in more \/ Sections[n] \in lost
  PROVE  Collected(had, more, lost, n + 1)
<1> SUFFICES ASSUME NEW id \in had \cap DOMAIN rows, NEW k \in 1..(n + 1 - 1), rows[id].kind = Sections[k]
             PROVE  id \in more \/ Sections[k] \in lost
  BY DEF Collected
<1>1. k \in 1..(n - 1) \/ k = n
  OBVIOUS
<1>2. QED
  BY <1>1 DEF Collected

(* The rows that were there stay whose they are. *)
LEMMA OwnStays ==
  ASSUME Evolves, NEW had, Past(had)
  PROVE  \A id \in had \cap DOMAIN rows' :
           id \in DOMAIN rows /\ rows'[id].kind = rows[id].kind /\ rows'[id].of = rows[id].of /\ rows'[id].by = rows[id].by
BY DEF Evolves, Comes, Past, Stays

LEMMA FilesWritten == ASSUME NEW r \in Requests, Step(r) PROVE UNCHANGED files \/ WriteFile(r)
<1>1. CASE Begins(r)
  BY <1>1 DEF Begins, Write, Edit, Scheduled, CreateConsent, RequestAnonymization, RequestDSAR, RevokeConsent, Execute,
              SavePolicy, RunRetention, tables
<1>2. CASE Advance(r)
  BY <1>2 DEF Advance, SaveEdit, LockJob, AnonymizeTable, CommitJob, FailAnonymization, WriteReport, Collect, SaveExport,
              StartCategory, SelectPeriods, Purge, PurgeRefused, RecordRetentionRun, tables
<1>3. QED
  BY <1>1, <1>2 DEF Step, ExecutionFails, CollectFails, PurgeFails, Leave, tables

(* What a request that collects knows, after its step. *)
LEMMA CollectingKept ==
  ASSUME TInv, CollectInv, NEW r \in Requests, Step(r), pc'[r] = "collect"
  PROVE  Collecting(r)'
<1>1. Evolves /\ Leads(r, "collect")
  BY StepTInv, StepMoves
<1>2. "collect" \in Labels \ {"new"} /\ "unsaved" \in Labels \ {"new"}
  BY DEF Labels
<1>3. CASE \E a \in Actors : \E e \in Employees : RequestDSAR(r, a, e)
  <2>1. PICK e \in Employees : Goto(r, "collect", [task |-> "export", of |-> e, i |-> 1, got |-> {}, missing |-> {},
                                                   had |-> DataOf(e)])
    BY <1>3 DEF RequestDSAR
  <2> DEFINE had == DataOf(e)
  <2>2. req'[r].of = e /\ req'[r].had = had /\ req'[r].i = 1
    BY <1>2, <2>1, GotoMoves
  <2>3. Past(had) /\ \A id \in had \cap DOMAIN rows : Own(e, id) /\ rows[id].kind \in Exported
    BY Tables DEF DataOf, Own, RowsOK, Past
  <2> HIDE DEF had
  <2>4. \A id \in had \cap DOMAIN rows' :
          id \in DOMAIN rows /\ rows'[id].kind = rows[id].kind /\ rows'[id].of = rows[id].of /\ rows'[id].by = rows[id].by
    BY <1>1, <2>3, OwnStays
  <2>5. QED
    BY <2>2, <2>3, <2>4 DEF Collecting, Collected, Own, ByUserOf
<1>4. CASE Collect(r) \/ CollectFails(r)
  <2> DEFINE kind == Sections[req[r].i]
             found == Section(req[r].of, kind)
             read == [req[r] EXCEPT !.i = @ + 1, !.got = @ \cup found]
             failed == [req[r] EXCEPT !.i = @ + 1, !.missing = @ \cup {kind}]
  <2>1. /\ pc[r] = "collect" /\ req[r].i <= 12 /\ UNCHANGED rows
        /\ Goto(r, "collect", read) \/ Goto(r, "collect", failed) \/ Goto(r, "unsaved", [task |-> "unsaved"])
    BY <1>4, SectionNames DEF Collect, CollectFails, tables
  <2>2. req[r] \in CollectKnows /\ Collecting(r)
    BY <2>1 DEF TInv, KnowOK, CollectInv
  <2>3. /\ read.had = req[r].had /\ read.of = req[r].of /\ read.i = req[r].i + 1
        /\ read.got = req[r].got \cup found /\ read.missing = req[r].missing
    BY <2>2 DEF CollectKnows
  <2>4. /\ failed.had = req[r].had /\ failed.of = req[r].of /\ failed.i = req[r].i + 1
        /\ failed.got = req[r].got /\ failed.missing = req[r].missing \cup {kind}
    BY <2>2 DEF CollectKnows
  <2>5. req[r].i \in Nat
    BY <2>2 DEF CollectKnows
  <2>6. \A id \in req[r].had \cap DOMAIN rows : rows[id].kind = kind => id \in found
    BY <2>2 DEF Collecting, Section, Own
  <2> HIDE DEF read, failed, found
  <2>7. ~Goto(r, "unsaved", [task |-> "unsaved"])
    BY <1>2, GotoMoves
  <2>8. PICK next \in {read, failed} : req'[r] = next
    BY <1>2, <2>1, <2>7, GotoMoves
  <2>9. next.had = req[r].had /\ next.of = req[r].of /\ Collected(next.had, next.got, next.missing, next.i)
    <3>1. Collected(req[r].had, req[r].got, req[r].missing, req[r].i)
      BY <2>2 DEF Collecting
    <3>2. CASE next = read
      BY <2>3, <2>5, <2>6, <3>1, <3>2, Gathers
    <3>3. CASE next = failed
      BY <2>4, <2>5, <3>1, <3>3, Gathers
    <3>4. QED
      BY <2>3, <2>4, <3>2, <3>3
  <2>10. QED
    BY <2>1, <2>2, <2>8, <2>9 DEF Collecting, Collected, Own, ByUserOf
<1>5. QED
  BY <1>1, <1>3, <1>4 DEF Leads

LEMMA CollectKept ==
  ASSUME TInv, CollectInv, NEW r \in Requests, Step(r)
  PROVE  CollectInv'
<1>1. /\ \A q \in Requests \ {r} : pc'[q] = pc[q] /\ req'[q] = req[q]
      /\ \A q \in Requests : pc'[q] = "new" => pc[q] = "new"
      /\ Evolves
  BY StepMoves, StepTInv
<1>2. ASSUME NEW q \in Requests, pc'[q] = "collect" PROVE Collecting(q)'
  <2>1. CASE q = r
    BY <1>2, <2>1, CollectingKept
  <2>2. CASE q # r
    <3>1. pc[q] = "collect" /\ req'[q] = req[q]
      BY <1>1, <1>2, <2>2
    <3>2. Past(req[q].had) /\ Collecting(q)
      BY <3>1 DEF TInv, KnowOK, CollectInv
    <3>3. \A id \in req[q].had \cap DOMAIN rows' :
            id \in DOMAIN rows /\ rows'[id].kind = rows[id].kind /\ rows'[id].of = rows[id].of /\ rows'[id].by = rows[id].by
      BY <1>1, <3>2, OwnStays
    <3>4. QED
      BY <3>1, <3>2, <3>3 DEF Collecting, Own, ByUserOf, Collected
  <2>3. QED
    BY <2>1, <2>2
<1>3. ASSUME NEW x \in DOMAIN files' PROVE Written(x)'
  <2>1. ASSUME NEW had, NEW got, NEW missing, Past(had), Collected(had, got, missing, 13),
               \A id \in had \cap DOMAIN rows : rows[id].kind \in Exported,
               files'[x].had = had, files'[x].got = got, files'[x].missing = missing
        PROVE  Written(x)'
    <3>1. \A id \in had \cap DOMAIN rows' : id \in DOMAIN rows /\ rows'[id].kind = rows[id].kind
      BY <1>1, <2>1, OwnStays
    <3>2. Past(files[x].had)'
      BY <1>1, <2>1 DEF Past
    <3>3. QED
      BY <2>1, <3>1, <3>2 DEF Written, Collected
  <2>2. CASE x \in DOMAIN files /\ files'[x] = files[x]
    BY <2>1, <2>2 DEF CollectInv, Written
  <2>3. CASE WriteFile(r) /\ x = r /\ files' # files
    <3>1. /\ pc[r] = "collect" /\ req[r].i > 12
          /\ files'[r] = [got |-> req[r].got, missing |-> req[r].missing, had |-> req[r].had]
      BY <2>3, SectionNames DEF WriteFile, Put
    <3>2. req[r] \in CollectKnows /\ Past(req[r].had) /\ Collecting(r)
      BY <3>1 DEF TInv, KnowOK, CollectInv
    <3>3. req[r].i = 13
      BY <3>1, <3>2, SectionNames DEF CollectKnows
    <3>4. QED
      BY <2>1, <2>3, <3>1, <3>2, <3>3 DEF Collecting
  <2>4. CASE WriteFile(r) /\ ~(x = r /\ files' # files)
    <3>1. x \in DOMAIN files /\ files'[x] = files[x]
      BY <2>4 DEF WriteFile, Put
    <3>2. QED
      BY <2>2, <3>1
  <2>5. QED
    BY <2>2, <2>3, <2>4, FilesWritten
<1>4. QED
  BY <1>2, <1>3 DEF CollectInv

(* ExportWhole, for any rows and changes: a completed export of which no query has  *)
(* failed has all that was there and still is.                                     *)
THEOREM ExportComplete == Spec => []ExportWhole
<1>1. Init => CollectInv
  BY DEF Init, CollectInv
<1>2. TInv /\ CollectInv /\ [Next]_vars => CollectInv'
  <2>1. TInv /\ CollectInv /\ Next => CollectInv'
    BY NextIsStep, CollectKept
  <2>2. CollectInv /\ UNCHANGED vars => CollectInv'
    BY DEF CollectInv, Collecting, Written, Collected, Own, ByUserOf, Past, vars, tables
  <2>3. QED
    BY <2>1, <2>2
<1>3. TInv /\ CollectInv => ExportWhole
  <2> SUFFICES ASSUME CollectInv, NEW a \in Actors, NEW x \in ListDSARExports(a) \cap DOMAIN files,
                      rows[x].text = "completed", files[x].missing = {}, NEW id \in files[x].had \cap DOMAIN rows
               PROVE  id \in Download(a, x)
    BY DEF ExportWhole
  <2>1. rows[id].kind \in Exported /\ Collected(files[x].had, files[x].got, files[x].missing, 13)
    BY DEF CollectInv, Written
  <2>2. PICK k \in 1..12 : rows[id].kind = Sections[k]
    BY <2>1, SectionNames DEF Exported
  <2>3. id \in files[x].got
    BY <2>1, <2>2 DEF Collected
  <2>4. QED
    BY <2>3 DEF Download
<1>4. QED
  BY <1>1, <1>2, <1>3, Evolution, PTL DEF Spec

-----------------------------------------------------------------------------
(* What a completed run has left *)

(* What RunsTell lets be, though it is old. *)
Spared(id) ==
  \/ rows[id].kind \in {"export", "job"} /\ rows[id].text # "completed"
  \/ rows[id].kind = "nickname" /\ (rows[id].text = "null" \/ id \in rewritten)
  \/ rows[id].kind = "period"

(* Of these periods there is none, and none will come back. *)
Absent(periods) == Past(periods) /\ periods \cap DOMAIN rows = {}

(* The kth statement of a category leaves nothing to do. *)
Gone(c, k) == \A id \in DOMAIN rows : rows[id].old /\ rows[id].kind = Purges[c][k] => Spared(id)

(* The statements that a run of a category has executed have left nothing. *)
Purging(r) ==
  /\ req[r].status = "completed" /\ \A k \in 1..(req[r].i - 1) : Gone(req[r].category, k)
  /\ req[r].i = 1 \/ req[r].category # "payroll" => req[r].periods = {}
Purged(c) == \A k \in DOMAIN Purges[c] : Gone(c, k)

PurgeInv ==
  /\ \A r \in Requests : pc[r] = "purge" => Purging(r)
  /\ \A r \in Requests : pc[r] = "record" /\ req[r].status = "completed" =>
       Purged(req[r].category) /\ Absent(req[r].periods)
  /\ \A run \in runs : run.status = "completed" => Purged(run.category) /\ Absent(run.periods)

(* It stays so. *)
LEMMA SparedStays ==
  ASSUME TInv, Evolves, Nicknamed, NEW id \in DOMAIN rows', rows'[id].old,
         id \in DOMAIN rows /\ rows[id].old => Spared(id)
  PROVE  Spared(id)'
<1>1. id \in DOMAIN rows /\ Stays(id)
  BY DEF Evolves, Comes
<1>2. Spared(id)
  BY <1>1 DEF Stays
<1>3. QED
  BY <1>1, <1>2 DEF Spared, Stays, Nicknamed

LEMMA GoneStays ==
  ASSUME TInv, Evolves, Nicknamed, NEW c, NEW k, Gone(c, k)
  PROVE  Gone(c, k)'
<1> SUFFICES ASSUME NEW id \in DOMAIN rows', rows'[id].old, rows'[id].kind = Purges[c][k] PROVE Spared(id)'
  BY DEF Gone
<1>1. id \in DOMAIN rows => rows[id].kind = Purges[c][k]
  BY DEF Evolves, Stays
<1>2. id \in DOMAIN rows /\ rows[id].old => Spared(id)
  BY <1>1 DEF Gone
<1>3. QED
  BY <1>2, SparedStays

LEMMA AbsentStays ==
  ASSUME Evolves, \A q \in Requests : pc'[q] = "new" => pc[q] = "new", NEW periods, Absent(periods)
  PROVE  Past(periods)' /\ periods \cap DOMAIN rows' = {}
BY DEF Absent, Past, Evolves, Comes

(* Of payroll only what was selected counts. *)
LEMMA PayrollPurged == ASSUME TInv PROVE Purged("payroll")
<1> SUFFICES ASSUME NEW k \in DOMAIN Purges["payroll"], NEW id \in DOMAIN rows, rows[id].old,
                    rows[id].kind = Purges["payroll"][k]
             PROVE  Spared(id)
  BY DEF Purged, Gone
<1>1. Purges["payroll"] = <<"select", "payslip", "period">>
  BY DEF Purges
<1>2. rows[id].kind \in {"select", "payslip", "period"}
  BY <1>1
<1>3. rows[id].kind \in Kinds /\ rows[id].kind # "payslip"
  BY Tables DEF RowsOK, RowType
<1>4. rows[id].kind = "period"
  BY <1>2, <1>3, KindsKnown
<1>5. QED
  BY <1>4 DEF Spared

LEMMA PayrollStaysPurged == TInv' => Purged("payroll")'
<1>1. TInv => Purged("payroll")
  BY PayrollPurged
<1>2. QED
  BY <1>1, PTL

(* A statement leaves nothing of its kind. *)
LEMMA PurgeGone ==
  ASSUME TInv, NEW r \in Requests, Purge(r), NEW id \in DOMAIN rows', rows'[id].old, rows'[id].kind = Statement(r)
  PROVE  Spared(id)'
<1>1. rows' = After(Statement(r), req[r].periods) /\ \A k \in DOMAIN rows : rows[k] \in RowType
  BY Tables DEF Purge, RowsOK
<1>2. Evolves
  BY PurgeStep
<1>3. id \in DOMAIN rows /\ Stays(id)
  BY <1>2 DEF Evolves, Comes
<1>4. rows[id].kind = Statement(r) /\ rows[id].old
  BY <1>3 DEF Stays
<1>5. CASE Statement(r) = "unlink"
  BY <1>1, <1>3, <1>4, <1>5, KindsKnown DEF RowType
<1>6. CASE Statement(r) = "nickname"
  <2>1. rows' = SetText(OldOf("nickname"), "null") /\ "null" \in Texts \ {"completed"}
    BY <1>1, <1>6 DEF After, Texts
  <2>2. rows'[id].text = "null"
    BY <1>1, <1>3, <1>4, <1>6, <2>1, SetTextLike DEF OldOf
  <2>3. QED
    BY <1>6, <2>2 DEF Spared
<1>7. CASE Statement(r) \notin {"unlink", "nickname"}
  <2>1. rows' = [k \in DOMAIN rows \ Cascade(Due(Statement(r), req[r].periods)) |-> rows[k]]
    BY <1>1, <1>7 DEF After
  <2>2. id \notin Due(Statement(r), req[r].periods) /\ rows'[id] = rows[id]
    BY <2>1 DEF Cascade
  <2>3. Statement(r) \notin {"payslip", "comment"}
    BY <1>3, <1>4, Tables DEF RowsOK
  <2>4. \/ rows[id].kind \in {"export", "job"} /\ rows[id].text # "completed"
        \/ rows[id].kind = "period"
    BY <1>3, <1>4, <2>2, <2>3 DEF Due, OldOf
  <2>5. QED
    BY <2>2, <2>4 DEF Spared
<1>8. QED
  BY <1>5, <1>6, <1>7

LEMMA RunsRecorded == ASSUME NEW r \in Requests, Step(r) PROVE UNCHANGED runs \/ RecordRetentionRun(r)
<1>1. CASE Begins(r)
  BY <1>1 DEF Begins, Write, Edit, Scheduled, CreateConsent, RequestAnonymization, RequestDSAR, RevokeConsent, Execute,
              SavePolicy, RunRetention, tables
<1>2. CASE Advance(r)
  BY <1>2 DEF Advance, SaveEdit, LockJob, AnonymizeTable, CommitJob, FailAnonymization, WriteReport, Collect, WriteFile,
              SaveExport, StartCategory, SelectPeriods, Purge, PurgeRefused, tables
<1>3. QED
  BY <1>1, <1>2 DEF Step, ExecutionFails, CollectFails, PurgeFails, Leave, tables

(* What the request that has made the step has purged. *)
LEMMA PurgingKept ==
  ASSUME TInv, PurgeInv, NEW r \in Requests, Step(r), pc'[r] \in {"purge", "record"}
  PROVE  /\ pc'[r] = "purge" => Purging(r)'
         /\ pc'[r] = "record" /\ req'[r].status = "completed" => Purged(req[r].category)' /\ Absent(req[r].periods)'
<1>1. /\ TInv' /\ Evolves /\ Nicknamed /\ Leads(r, pc'[r])
      /\ \A q \in Requests : pc'[q] = "new" => pc[q] = "new"
  BY StepTInv, StepMoves, StepTexts
<1>2. {"purge", "record", "done"} \subseteq Labels \ {"new"}
  BY DEF Labels
<1>3. CASE StartCategory(r)
  <2>1. ~Finish(r)
    BY <1>2, FinishMoves
  <2>2. PICK c \in req[r].todo : Goto(r, "purge", [task |-> "purge", category |-> c, i |-> 1, todo |-> req[r].todo \ {c},
                                                   periods |-> {}, status |-> "completed", recorded |-> req[r].recorded])
    BY <1>3, <2>1 DEF StartCategory
  <2>3. pc'[r] = "purge" /\ req'[r].i = 1 /\ req'[r].status = "completed" /\ req'[r].periods = {}
    BY <1>2, <2>2, GotoMoves
  <2>4. QED
    BY <2>3 DEF Purging
<1>4. CASE PurgeFails(r) \/ PurgeRefused(r)
  <2> DEFINE knows == [req[r] EXCEPT !.status = Outcome]
  <2>1. pc[r] = "purge" /\ Goto(r, "record", knows)
    BY <1>4 DEF PurgeFails, PurgeRefused
  <2>2. req[r] \in PurgeKnows
    BY <2>1 DEF TInv, KnowOK
  <2>3. knows.status = "failed"
    BY <2>2 DEF PurgeKnows, Outcome
  <2> HIDE DEF knows
  <2>4. pc'[r] = "record" /\ req'[r].status = "failed"
    BY <1>2, <2>1, <2>3, GotoMoves
  <2>5. QED
    BY <2>4
<1>5. CASE Purge(r)
  <2> DEFINE next == [req[r] EXCEPT !.i = @ + 1]
             c == req[r].category
             n == req[r].i
  <2>1. /\ pc[r] = "purge"
        /\ IF LastStatement(r) THEN Goto(r, "record", req[r]) ELSE Goto(r, "purge", next)
    BY <1>5 DEF Purge
  <2>2. req[r] \in PurgeKnows /\ n <= Len(Purges[c]) /\ Purging(r)
    BY <2>1 DEF TInv, KnowOK, PurgeInv
  <2>3. n \in Nat \ {0} /\ c \in DOMAIN Purges
    BY <2>2 DEF PurgeKnows
  <2>4. next.i = n + 1 /\ next.category = c /\ next.status = req[r].status /\ next.periods = req[r].periods
    BY <2>2 DEF PurgeKnows
  <2> HIDE DEF next
  <2>5. \A k \in 1..(n - 1) : \A id \in DOMAIN rows' : rows'[id].old /\ rows'[id].kind = Purges[c][k] => Spared(id)'
    <3> SUFFICES ASSUME NEW k \in 1..(n - 1), NEW id \in DOMAIN rows', rows'[id].old, rows'[id].kind = Purges[c][k]
                 PROVE  Spared(id)'
      OBVIOUS
    <3>1. Gone(c, k)
      BY <2>2 DEF Purging
    <3>2. id \in DOMAIN rows /\ rows[id].old => Spared(id)
      BY <1>1, <3>1 DEF Gone, Evolves, Stays
    <3>3. QED
      BY <1>1, <3>2, SparedStays
  <2>6. \A id \in DOMAIN rows' : rows'[id].old /\ rows'[id].kind = Purges[c][n] => Spared(id)'
    BY <1>5, PurgeGone DEF Statement
  <2>7. \A k \in 1..n : \A id \in DOMAIN rows' : rows'[id].old /\ rows'[id].kind = Purges[c][k] => Spared(id)'
    <3>1. \A k \in 1..n : k \in 1..(n - 1) \/ k = n
      BY <2>3
    <3>2. QED
      BY <2>5, <2>6, <3>1
  <2> HIDE DEF c, n
  <2>8. CASE LastStatement(r)
    <3>1. pc'[r] = "record" /\ req'[r] = req[r]
      BY <1>2, <2>1, <2>8, GotoMoves
    <3>2. DOMAIN Purges[c] = 1..n
      BY <2>3, <2>8, PurgeNames DEF LastStatement, c, n
    <3>3. PeriodsOld(req[r].periods)
      BY <2>1 DEF TInv, KnowOK
    <3>4. Past(req[r].periods)'
      BY <1>1, <3>1, <3>3 DEF PeriodsOld, Past
    <3>5. req[r].periods \cap DOMAIN rows' = {}
      <4>1. CASE c # "payroll"
        BY <2>2, <4>1 DEF Purging, c
      <4>2. CASE c = "payroll"
        <5>1. Statement(r) = "period"
          BY <2>2, <2>8, <4>2, SelectFirst DEF c, n
        <5>2. rows' = [id \in DOMAIN rows \ Cascade(Due("period", req[r].periods)) |-> rows[id]]
          BY <1>5, <5>1 DEF Purge, After
        <5>3. req[r].periods \cap DOMAIN rows \subseteq Due("period", req[r].periods)
          BY <3>3 DEF PeriodsOld, Due
        <5>4. QED
          BY <5>2, <5>3 DEF Cascade
      <4>3. QED
        BY <4>1, <4>2
    <3>6. QED
      BY <2>7, <3>1, <3>2, <3>4, <3>5 DEF Purged, Gone, Absent, c
  <2>9. CASE ~LastStatement(r)
    <3>1. pc'[r] = "purge" /\ req'[r] = next
      BY <1>2, <2>1, <2>9, GotoMoves
    <3>2. next.i - 1 = n /\ next.i # 1 /\ next.status = "completed" /\ (c # "payroll" => next.periods = {})
      BY <2>2, <2>3, <2>4 DEF Purging, c
    <3>3. QED
      BY <2>4, <2>7, <3>1, <3>2 DEF Purging, Gone
  <2>10. QED
    BY <2>8, <2>9
<1>6. CASE SelectPeriods(r)
  <2>1. pc[r] = "purge" /\ Statement(r) = "select"
    BY <1>6 DEF SelectPeriods
  <2>2. req[r] \in PurgeKnows /\ req[r].i <= Len(Purges[req[r].category]) /\ Purging(r)
    BY <2>1 DEF TInv, KnowOK, PurgeInv
  <2>3. req[r].i = 1 /\ req[r].category = "payroll"
    BY <2>1, <2>2, SelectFirst
  <2>4. Purged("payroll")'
    BY <1>1, PayrollStaysPurged
  <2>5. CASE Goto(r, "record", req[r])
    <3>1. pc'[r] = "record" /\ req'[r] = req[r]
      BY <1>2, <2>5, GotoMoves
    <3>2. req[r].periods = {}
      BY <2>2, <2>3 DEF Purging
    <3>3. QED
      BY <2>3, <2>4, <3>1, <3>2 DEF Absent, Past
  <2>6. ASSUME NEW list, Goto(r, "purge", [req[r] EXCEPT !.i = @ + 1, !.periods = list])
        PROVE  pc'[r] = "purge" /\ Purging(r)'
    <3> DEFINE next == [req[r] EXCEPT !.i = @ + 1, !.periods = list]
    <3>1. next.i = 2 /\ next.category = "payroll" /\ next.status = "completed"
      BY <2>2, <2>3 DEF PurgeKnows, Purging
    <3> HIDE DEF next
    <3>2. pc'[r] = "purge" /\ req'[r] = next
      BY <1>2, <2>6, GotoMoves DEF next
    <3>3. 1 \in DOMAIN Purges["payroll"]
      BY PurgeNames
    <3>4. \A k \in 1..(2 - 1) : k = 1
      OBVIOUS
    <3>5. QED
      BY <2>4, <3>1, <3>2, <3>3, <3>4 DEF Purging, Purged
  <2>7. QED
    BY <1>6, <2>5, <2>6 DEF SelectPeriods
<1>7. QED
  BY <1>1, <1>3, <1>4, <1>5, <1>6 DEF Leads

LEMMA PurgeKept ==
  ASSUME TInv, PurgeInv, NEW r \in Requests, Step(r)
  PROVE  PurgeInv'
<1>1. /\ \A q \in Requests \ {r} : pc'[q] = pc[q] /\ req'[q] = req[q]
      /\ \A q \in Requests : pc'[q] = "new" => pc[q] = "new"
      /\ Evolves /\ Nicknamed
  BY StepMoves, StepTInv, StepTexts
<1>2. \A c, k : Gone(c, k) => Gone(c, k)'
  BY <1>1, GoneStays
<1>3. ASSUME NEW q \in Requests, pc'[q] = "purge" PROVE Purging(q)'
  <2>1. CASE q = r
    BY <1>3, <2>1, PurgingKept
  <2>2. CASE q # r
    <3>1. Purging(q) /\ req'[q] = req[q]
      BY <1>1, <1>3, <2>2 DEF PurgeInv
    <3>2. QED
      BY <1>2, <3>1 DEF Purging, Gone
  <2>3. QED
    BY <2>1, <2>2
<1>4. ASSUME NEW q \in Requests, pc'[q] = "record", req'[q].status = "completed" PROVE Purged(req[q].category)' /\ Absent(req[q].periods)'
  <2>1. CASE q = r
    BY <1>4, <2>1, PurgingKept
  <2>2. CASE q # r
    <3>1. Purged(req[q].category) /\ Absent(req[q].periods) /\ req'[q] = req[q]
      BY <1>1, <1>4, <2>2 DEF PurgeInv
    <3>2. Past(req[q].periods)' /\ req'[q].periods \cap DOMAIN rows' = {}
      BY <1>1, <3>1, AbsentStays DEF Past
    <3>3. QED
      BY <1>2, <3>1, <3>2 DEF Purged, Gone, Absent
  <2>3. QED
    BY <2>1, <2>2
<1>5. ASSUME NEW run \in runs', run.status = "completed" PROVE Purged(run.category)' /\ Absent(run.periods)'
  <2>1. Purged(run.category) /\ Absent(run.periods)
    <3>1. CASE run \in runs
      BY <1>5, <3>1 DEF PurgeInv
    <3>2. CASE run \notin runs
      <4>1. pc[r] = "record" /\ run = [run |-> r, category |-> req[r].category, periods |-> req[r].periods,
                                           status |-> req[r].status]
        BY <1>5, <3>2, RunsRecorded DEF RecordRetentionRun
      <4>2. QED
        BY <1>5, <4>1 DEF PurgeInv
    <3>3. QED
      BY <3>1, <3>2
  <2>2. Past(run.periods)' /\ run.periods \cap DOMAIN rows' = {}
    BY <1>1, <2>1, AbsentStays
  <2>3. QED
    BY <1>2, <2>1, <2>2 DEF Purged, Absent
<1>6. QED
  BY <1>3, <1>4, <1>5 DEF PurgeInv

(* RunsTell, for any rows and policies: of what a completed run was about, nothing  *)
(* that is too old is left, of payroll nothing of the periods it had selected.     *)
THEOREM RunsTrue == Spec => []RunsTell
<1>1. Init => PurgeInv
  BY DEF Init, PurgeInv
<1>2. TInv /\ PurgeInv /\ [Next]_vars => PurgeInv'
  <2>1. TInv /\ PurgeInv /\ Next => PurgeInv'
    BY NextIsStep, PurgeKept
  <2>2. PurgeInv /\ UNCHANGED vars => PurgeInv'
    BY DEF PurgeInv, Purging, Purged, Gone, Spared, Absent, Past, vars, tables, history
  <2>3. QED
    BY <2>1, <2>2
<1>3. PurgeInv => RunsTell
  BY DEF PurgeInv, Purged, Gone, Spared, Absent, RunsTell
<1>4. QED
  BY <1>1, <1>2, <1>3, Evolution, PTL DEF Spec
=============================================================================
