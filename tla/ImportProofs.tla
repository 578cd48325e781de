---------------------------- MODULE ImportProofs ----------------------------
(* Proofs about InputImport for any requests, periods, keys and files. *)
EXTENDS InputImport, FiniteSetTheorems, TLAPS

Arrived == {r \in Requests : pc[r] # "new"}

(* The rows a request has inserted are in the period it named. *)
ProgressInv ==
  \A r \in Arrived : \A i \in 1..inserted[r] : lines[req[r].period][<<req[r].file, i>>] > 0

(* A key was saved by a request that had imported its file. *)
SavedInv ==
  \A k \in Keys : idem[k] # Unused =>
    \E q \in Arrived : req[q].key = k /\ req[q].file = idem[k] /\ Imported(req[q].period, req[q].file)

IInv == TypeOK /\ ProgressInv /\ SavedInv /\ ImportedMeansThere
-----------------------------------------------------------------------------
(* A row of a file is a row. *)
LEMMA RowOfFile ==
  ASSUME NEW f \in Files, NEW i \in 1..Length[f]
  PROVE  <<f, i>> \in Rows
BY DEF Rows

LEMMA InitIInv == Init => IInv
BY ImportAssumption
DEF Init, IInv, TypeOK, ProgressInv, SavedInv, ImportedMeansThere, Arrived

(* What has arrived stays as it is, and what is imported stays imported. *)
Grows ==
  /\ \A q \in Arrived : q \in Arrived' /\ req'[q] = req[q]
  /\ \A p \in Periods : \A row \in Rows : lines[p][row] > 0 => lines'[p][row] > 0

LEMMA ImportedStays ==
  ASSUME TypeOK, Grows, NEW q \in Arrived, Imported(req[q].period, req[q].file)
  PROVE  q \in Arrived' /\ Imported(req[q].period, req[q].file)'
<1>1. req[q] \in Asked /\ req'[q] = req[q] /\ q \in Arrived'
  BY DEF TypeOK, Arrived, Grows
<1>2. req[q].period \in Periods /\ req[q].file \in Files
  BY <1>1 DEF Asked
<1>3. \A i \in 1..Length[req[q].file] : lines'[req[q].period][<<req[q].file, i>>] > 0
  BY <1>2, RowOfFile DEF Imported, Grows
<1>4. QED
  BY <1>1, <1>3 DEF Imported

(* So do the requests that vouch for others. *)
LEMMA VouchesStays ==
  ASSUME TypeOK, Grows, NEW r \in Arrived, NEW q \in Requests, Vouches(q, r)
  PROVE  Vouches(q, r)'
<1>1. q \in Arrived /\ Imported(req[q].period, req[q].file)
  BY DEF Vouches, Arrived
<1>2. /\ q \in Arrived' /\ req'[q] = req[q] /\ req'[r] = req[r]
      /\ Imported(req[q].period, req[q].file)'
  BY <1>1, ImportedStays DEF Grows
<1>3. QED
  BY <1>2 DEF Vouches, Arrived

LEMMA SavedStays ==
  ASSUME TypeOK, Grows, SavedInv, NEW k \in Keys, idem[k] # Unused, idem'[k] = idem[k]
  PROVE  \E q \in Arrived' : req'[q].key = k /\ req'[q].file = idem'[k] /\ Imported(req[q].period, req[q].file)'
<1>1. PICK q \in Arrived : req[q].key = k /\ req[q].file = idem[k] /\ Imported(req[q].period, req[q].file)
  BY DEF SavedInv
<1>2. QED
  BY <1>1, ImportedStays DEF Grows

-----------------------------------------------------------------------------
(* Arriving, with whatever answer. *)
LEMMA ArriveKeeps ==
  ASSUME IInv, NEW r \in Requests, NEW ask \in Asked, Arrive(r, ask), disturbed' \subseteq Files,
         NEW label \in {"insert", "ok", "refused"}, Answer(r, label),
         label = "ok" => ask.key \in Keys /\ idem[ask.key] = ask.file
  PROVE  IInv'
<1> USE DEF IInv, Arrive, Answer, tables
<1>1. ask.file \in Files /\ ask.period \in Periods /\ Length[ask.file] \in Nat
  BY ImportAssumption DEF Asked
<1>2. TypeOK'
  BY <1>1 DEF TypeOK
<1>3. /\ req'[r] = ask /\ pc'[r] = label /\ inserted'[r] = 0 /\ pc[r] = "new"
      /\ \A q \in Requests \ {r} : req'[q] = req[q] /\ pc'[q] = pc[q] /\ inserted'[q] = inserted[q]
  BY DEF TypeOK
<1>4. Arrived' = Arrived \cup {r} /\ r \notin Arrived
  BY <1>3 DEF Arrived
<1>5. Grows
  BY <1>3, <1>4 DEF Grows, Arrived
<1>6. ProgressInv'
  BY <1>3, <1>4 DEF ProgressInv, Arrived
<1>7. SavedInv'
  <2>1. \A k \in Keys : idem'[k] # Unused => \E q \in Arrived' :
          req'[q].key = k /\ req'[q].file = idem'[k] /\ Imported(req[q].period, req[q].file)'
    BY <1>5, SavedStays
  <2>2. QED
    BY <2>1 DEF SavedInv
<1>8. ASSUME NEW s \in Requests, pc'[s] = "ok" PROVE \E q \in Requests : Vouches(q, s)'
  <2>1. CASE s = r
    <3>1. PICK q \in Arrived : /\ req[q].key = ask.key /\ req[q].file = ask.file
                              /\ Imported(req[q].period, req[q].file)
      BY <2>1, <1>1, <1>3, <1>8, ImportAssumption DEF SavedInv
    <3>2. q \in Arrived' /\ req'[q] = req[q] /\ Imported(req[q].period, req[q].file)' /\ q \in Requests
      BY <3>1, <1>5, ImportedStays DEF Grows, Arrived
    <3>3. Vouches(q, s)'
      BY <2>1, <3>1, <3>2, <1>3, <1>8, ImportAssumption DEF Vouches, Arrived
    <3>4. QED
      BY <3>2, <3>3
  <2>2. CASE s # r
    <3>1. pc[s] = "ok" /\ s \in Arrived
      BY <2>2, <1>8, <1>3 DEF Arrived
    <3>2. PICK q \in Requests : Vouches(q, s)
      BY <3>1 DEF ImportedMeansThere
    <3>3. QED
      BY <3>1, <3>2, <1>5, VouchesStays
  <2>3. QED
    BY <2>1, <2>2
<1>9. QED
  BY <1>2, <1>6, <1>7, <1>8 DEF ImportedMeansThere

(* What is common to the statements after the arrival: the requests stay. *)
LEMMA StatementKeeps ==
  ASSUME IInv, TypeOK', UNCHANGED req, ProgressInv',
         \A q \in Requests : pc[q] # "new" <=> pc'[q] # "new",
         \A p \in Periods : \A row \in Rows : lines[p][row] > 0 => lines'[p][row] > 0,
         \A k \in Keys : idem'[k] = idem[k] \/ \E q \in Arrived' :
            /\ req'[q].key = k /\ req'[q].file = idem'[k] /\ Imported(req[q].period, req[q].file)',
         \A q \in Requests : pc'[q] = "ok" => pc[q] = "ok" \/ Vouches(q, q)'
  PROVE  IInv'
<1>1. Grows
  BY DEF Grows, Arrived
<1>2. SavedInv'
  <2>1. \A k \in Keys : idem'[k] # Unused => \E q \in Arrived' :
          req'[q].key = k /\ req'[q].file = idem'[k] /\ Imported(req[q].period, req[q].file)'
    BY <1>1, SavedStays DEF IInv
  <2>2. QED
    BY <2>1 DEF SavedInv
<1>3. ASSUME NEW s \in Requests, pc'[s] = "ok" PROVE \E q \in Requests : Vouches(q, s)'
  <2>1. CASE pc[s] = "ok"
    <3>1. s \in Arrived
      BY <2>1 DEF Arrived
    <3>2. PICK q \in Requests : Vouches(q, s)
      BY <2>1 DEF IInv, ImportedMeansThere
    <3>3. QED
      BY <3>1, <3>2, <1>1, VouchesStays DEF IInv
  <2>2. QED
    BY <2>1, <1>3
<1>4. QED
  BY <1>2, <1>3 DEF IInv, ImportedMeansThere

(* The file of a request that has inserted all its rows is imported. *)
LEMMA AllInserted ==
  ASSUME IInv, NEW r \in Requests, Saves(r)
  PROVE  r \in Arrived /\ req[r] \in Asked /\ Imported(req[r].period, req[r].file)
BY DEF IInv, TypeOK, ProgressInv, Saves, Arrived, Imported

(* Inserting the next row. *)
LEMMA AddKeeps ==
  ASSUME TypeOK, ProgressInv, NEW r \in Requests, Inserts(r), Add(r), UNCHANGED req,
         \A q \in Requests : pc[q] # "new" <=> pc'[q] # "new"
  PROVE  /\ lines' \in [Periods -> [Rows -> Nat]]
         /\ inserted' \in [Requests -> Nat] /\ inserted'[r] = inserted[r] + 1
         /\ inserted'[r] <= Length[req[r].file]
         /\ \A q \in Requests \ {r} : inserted'[q] = inserted[q]
         /\ \A p \in Periods : \A row \in Rows : lines[p][row] > 0 => lines'[p][row] > 0
         /\ ProgressInv'
<1> DEFINE row == <<req[r].file, inserted[r] + 1>>
<1>1. /\ req[r] \in Asked /\ inserted[r] \in Nat /\ inserted[r] < Length[req[r].file]
      /\ req[r].file \in Files /\ req[r].period \in Periods /\ Length[req[r].file] \in Nat
  BY ImportAssumption DEF TypeOK, Inserts, Asked
<1>2. row \in Rows
  BY <1>1, RowOfFile
<1> HIDE DEF row
<1>3. /\ lines' \in [Periods -> [Rows -> Nat]]
      /\ lines'[req[r].period][row] > 0
      /\ \A p \in Periods : \A any \in Rows : lines[p][any] > 0 => lines'[p][any] > 0
  <2>1. lines' = [lines EXCEPT ![req[r].period][row] = @ + 1]
    BY DEF Add, row
  <2>2. QED
    BY <2>1, <1>1, <1>2 DEF TypeOK
<1>4. /\ inserted' \in [Requests -> Nat] /\ inserted'[r] = inserted[r] + 1
      /\ inserted'[r] <= Length[req[r].file]
      /\ \A q \in Requests \ {r} : inserted'[q] = inserted[q]
  BY <1>1 DEF TypeOK, Add
<1>5. ProgressInv'
  <2> SUFFICES ASSUME NEW q \in Arrived', NEW i \in 1..inserted'[q]
      PROVE  lines'[req[q].period][<<req[q].file, i>>] > 0
    BY DEF ProgressInv
  <2>1. /\ q \in Arrived /\ req[q].period \in Periods /\ req[q].file \in Files
        /\ inserted[q] <= Length[req[q].file] /\ inserted[q] \in Nat /\ Length[req[q].file] \in Nat
    BY ImportAssumption DEF Arrived, TypeOK, Asked
  <2>2. CASE i \in 1..inserted[q]
    <3>1. <<req[q].file, i>> \in Rows
      BY <2>1, <2>2, RowOfFile
    <3>2. QED
      BY <2>1, <2>2, <3>1, <1>3 DEF ProgressInv
  <2>3. CASE i \notin 1..inserted[q]
    <3>1. q = r /\ i = inserted[r] + 1
      BY <2>3, <2>1, <1>4 DEF Arrived
    <3>2. QED
      BY <3>1, <1>3 DEF row
  <2>4. QED
    BY <2>2, <2>3
<1>6. QED
  BY <1>3, <1>4, <1>5

(* Every step keeps the invariant. *)
LEMMA Inductive == IInv /\ [Next]_vars => IInv'
<1> SUFFICES ASSUME IInv, [Next]_vars PROVE IInv'
  OBVIOUS
<1>0. TypeOK /\ ProgressInv /\ SavedInv /\ ImportedMeansThere
  BY DEF IInv
<1>1. ASSUME NEW r \in Requests, NEW ask \in Asked, Start(r, ask) PROVE IInv'
  <2>1. PICK label \in {"insert", "ok", "refused"} :
          /\ Answer(r, label)
          /\ label = "ok" => ask.key \in Keys /\ idem[ask.key] = ask.file
    BY <1>1 DEF Start, Found, IdemStore!Check, Asked
  <2>2. disturbed' \subseteq Files
    BY <1>0, <1>1 DEF Start, Disturb, Rivals, InFlight, Asked, TypeOK
  <2>3. QED
    BY <1>1, <2>1, <2>2, ArriveKeeps DEF Start
<1>2. ASSUME NEW r \in Requests, NEW ask \in Asked, Reject(r, ask) PROVE IInv'
  <2>1. Arrive(r, ask) /\ Answer(r, "refused") /\ disturbed' \subseteq Files
    BY <1>0, <1>2 DEF Reject, TypeOK
  <2>2. QED
    BY <2>1, ArriveKeeps
<1>3. ASSUME NEW r \in Requests, NEW ask \in Asked, CheckFails(r, ask) PROVE IInv'
  <2>1. PICK label \in {"insert", "refused"} : Answer(r, label)
    BY <1>3 DEF CheckFails
  <2>2. disturbed' \subseteq Files
    BY <1>0, <1>3 DEF CheckFails, Disturb, Rivals, InFlight, Asked, TypeOK
  <2>3. QED
    BY <1>3, <2>1, <2>2, ArriveKeeps DEF CheckFails
<1>4. ASSUME NEW r \in Requests, InsertRow(r) PROVE IInv'
  <2>1. Inserts(r) /\ Add(r) /\ UNCHANGED <<idem, pc, req, disturbed>>
    BY <1>4 DEF InsertRow
  <2>2. TypeOK'
    BY <2>1, <1>0, AddKeeps DEF TypeOK, Inserts
  <2>3. QED
    BY <2>1, <2>2, <1>0, AddKeeps, StatementKeeps
<1>5. ASSUME NEW r \in Requests, InsertFails(r) PROVE IInv'
  <2>1. /\ Inserts(r) /\ Answer(r, "failed") /\ UNCHANGED <<idem, req>>
        /\ Add(r) \/ UNCHANGED <<lines, inserted>>
        /\ disturbed' \subseteq Files /\ pc[r] = "insert"
    BY <1>5, <1>0 DEF InsertFails, Inserts, Disturb, TypeOK, Asked
  <2>2. /\ \A q \in Requests : pc[q] # "new" <=> pc'[q] # "new"
        /\ \A q \in Requests : pc'[q] = "ok" => pc[q] = "ok"
        /\ pc' \in [Requests -> {"new", "insert", "ok", "refused", "failed"}]
    BY <2>1, <1>0 DEF Answer, TypeOK
  <2>3. CASE Add(r)
    <3>1. TypeOK'
      BY <2>1, <2>2, <2>3, <1>0, AddKeeps DEF TypeOK
    <3>2. QED
      BY <3>1, <2>1, <2>2, <2>3, <1>0, AddKeeps, StatementKeeps
  <2>4. CASE UNCHANGED <<lines, inserted>>
    <3>1. TypeOK'
      BY <2>1, <2>2, <2>4, <1>0 DEF TypeOK
    <3>2. ProgressInv'
      BY <2>1, <2>2, <2>4, <1>0 DEF ProgressInv, Arrived
    <3>3. QED
      BY <3>1, <3>2, <2>1, <2>2, <2>4, StatementKeeps
  <2>5. QED
    BY <2>1, <2>3, <2>4
<1>6. ASSUME NEW r \in Requests, SaveKey(r) \/ SaveFails(r) PROVE IInv'
  <2>1. /\ r \in Arrived /\ req[r] \in Asked /\ Imported(req[r].period, req[r].file) /\ pc[r] = "insert"
        /\ UNCHANGED <<lines, req, inserted>>
    BY <1>6, AllInserted DEF SaveKey, SaveFails, Saves
  <2>2. /\ \/ idem' = idem
           \/ req[r].key \in Keys /\ idem' = [idem EXCEPT ![req[r].key] = req[r].file]
        /\ Answer(r, "ok") \/ Answer(r, "refused")
        /\ disturbed' \subseteq Files
    BY <1>6, <2>1, <1>0 DEF SaveKey, SaveFails, IdemStore!Save, Asked, Disturb, TypeOK
  <2>3. /\ \A q \in Requests : pc[q] # "new" <=> pc'[q] # "new"
        /\ \A q \in Requests \ {r} : pc'[q] = pc[q]
        /\ pc' \in [Requests -> {"new", "insert", "ok", "refused", "failed"}]
    BY <2>1, <2>2, <1>0 DEF Answer, TypeOK
  <2>4. TypeOK'
    BY <2>1, <2>2, <2>3, <1>0 DEF TypeOK, Asked
  <2>5. r \in Arrived' /\ Imported(req[r].period, req[r].file)' /\ Vouches(r, r)'
    BY <2>1, <2>3 DEF Arrived, Imported, Vouches
  <2>6. ProgressInv'
    BY <2>1, <2>3, <1>0 DEF ProgressInv, Arrived
  <2>7. \A k \in Keys : idem'[k] = idem[k] \/ \E q \in Arrived' :
            /\ req'[q].key = k /\ req'[q].file = idem'[k] /\ Imported(req[q].period, req[q].file)'
    BY <2>1, <2>2, <2>5, <1>0 DEF TypeOK
  <2>8. \A q \in Requests : pc'[q] = "ok" => pc[q] = "ok" \/ Vouches(q, q)'
    BY <2>3, <2>5
  <2>9. QED
    BY <2>1, <2>3, <2>4, <2>6, <2>7, <2>8, StatementKeeps
<1>7. ASSUME NEW r \in Requests, Die(r) PROVE IInv'
  <2>1. /\ UNCHANGED <<lines, idem, req, inserted>> /\ pc[r] = "insert" /\ Answer(r, "failed")
        /\ disturbed' \subseteq Files
    BY <1>7, <1>0 DEF Die, tables, Disturb, TypeOK, Asked
  <2>2. /\ \A q \in Requests : pc[q] # "new" <=> pc'[q] # "new"
        /\ \A q \in Requests : pc'[q] = "ok" => pc[q] = "ok"
        /\ pc' \in [Requests -> {"new", "insert", "ok", "refused", "failed"}]
    BY <2>1, <1>0 DEF Answer, TypeOK
  <2>3. TypeOK' /\ ProgressInv'
    BY <2>1, <2>2, <1>0 DEF TypeOK, ProgressInv, Arrived
  <2>4. QED
    BY <2>1, <2>2, <2>3, StatementKeeps
<1>8. CASE UNCHANGED vars
  BY <1>8 DEF vars, tables, IInv, TypeOK, ProgressInv, SavedInv, ImportedMeansThere, Arrived, Vouches, Imported
<1>9. QED
  BY <1>1, <1>2, <1>3, <1>4, <1>5, <1>6, <1>7, <1>8 DEF Next

-----------------------------------------------------------------------------
(* The variables of the import keep their types. *)
THEOREM TypeCorrect == Spec => []TypeOK
<1>1. IInv => TypeOK
  BY DEF IInv
<1>2. QED
  BY <1>1, InitIInv, Inductive, PTL DEF Spec

(* Whoever is told that a file was imported finds its rows in the period it named *)
(* or in that of another request with its key, for any number of overlapping and  *)
(* failing requests (handleImportInputs).                                         *)
THEOREM ImportTruthful == Spec => []ImportedMeansThere
<1>1. IInv => ImportedMeansThere
  BY DEF IInv
<1>2. QED
  BY <1>1, InitIInv, Inductive, PTL DEF Spec


-----------------------------------------------------------------------------
(* Among the imports that carry a key, one of an undisturbed file is alone under  *)
(* its key, and the key has no row yet.                                           *)
KeyInv ==
  \A r \in InFlight : req[r].file \notin disturbed /\ req[r].key # None =>
    idem[req[r].key] = Unused /\ \A q \in Rivals(req[r]) : q = r

SavedFor(f) == {k \in Keys : idem[k] = f}

(* The rows of a file are counted, and what is counted is finite: requests are    *)
(* not bounded in number, only those which have arrived insert.                   *)
Counted(copies, saved, unkeyed) ==
  /\ IsFiniteSet(copies) /\ IsFiniteSet(saved) /\ IsFiniteSet(unkeyed)
  /\ Cardinality(copies) = Cardinality(saved) + Cardinality(unkeyed)

CountInv ==
  \A f \in Files \ disturbed : \A i \in 1..Length[f] :
    Counted(Copies(f, i), SavedFor(f), Unkeyed(f, i))

OnceInv == KeyInv /\ CountInv

(* Inserting a row adds a copy and an import that accounts for it. *)
LEMMA CountsInsert ==
  ASSUME NEW copies, NEW saved, NEW unkeyed, Counted(copies, saved, unkeyed),
         NEW copy, copy \notin copies, NEW r, r \notin unkeyed
  PROVE  Counted(copies \cup {copy}, saved, unkeyed \cup {r})
<1>1. /\ IsFiniteSet(copies \cup {copy}) /\ Cardinality(copies \cup {copy}) = Cardinality(copies) + 1
      /\ IsFiniteSet(unkeyed \cup {r}) /\ Cardinality(unkeyed \cup {r}) = Cardinality(unkeyed) + 1
  BY FS_AddElement DEF Counted
<1>2. Cardinality(copies) \in Nat /\ Cardinality(saved) \in Nat /\ Cardinality(unkeyed) \in Nat
  BY FS_CardinalityType DEF Counted
<1>3. QED
  BY <1>1, <1>2 DEF Counted

(* Saving a key makes it account for the copy in place of the import. *)
LEMMA CountsSave ==
  ASSUME NEW copies, NEW saved, NEW unkeyed, Counted(copies, saved, unkeyed),
         NEW k, k \notin saved, NEW r \in unkeyed
  PROVE  Counted(copies, saved \cup {k}, unkeyed \ {r})
<1>1. /\ IsFiniteSet(saved \cup {k}) /\ Cardinality(saved \cup {k}) = Cardinality(saved) + 1
      /\ IsFiniteSet(unkeyed \ {r}) /\ Cardinality(unkeyed \ {r}) = Cardinality(unkeyed) - 1
  BY FS_AddElement, FS_RemoveElement DEF Counted
<1>2. Cardinality(copies) \in Nat /\ Cardinality(saved) \in Nat /\ Cardinality(unkeyed) \in Nat
  BY FS_CardinalityType DEF Counted
<1>3. QED
  BY <1>1, <1>2 DEF Counted

(* A step that changes nothing that is counted for the undisturbed files. *)
LEMMA CountsStay ==
  ASSUME CountInv, disturbed \subseteq disturbed',
         \A f \in Files \ disturbed' : \A i \in 1..Length[f] :
           /\ Copies(f, i)' = Copies(f, i)
           /\ SavedFor(f)' = SavedFor(f)
           /\ Unkeyed(f, i)' = Unkeyed(f, i)
  PROVE  CountInv'
BY DEF CountInv

LEMMA CopyMember ==
  ASSUME NEW f, NEW i, NEW x
  PROVE  /\ x \in Copies(f, i) <=> \E p \in Periods : \E n \in 1..lines[p][<<f, i>>] : x = <<p, n>>
         /\ x \in Copies(f, i)' <=> \E p \in Periods : \E n \in 1..lines'[p][<<f, i>>] : x = <<p, n>>
BY DEF Copies

(* A row of another file, or another row of the file, changes no copy of this one. *)
LEMMA CopiesStay ==
  ASSUME NEW f, NEW i, \A p \in Periods : lines'[p][<<f, i>>] = lines[p][<<f, i>>]
  PROVE  Copies(f, i)' = Copies(f, i)
<1> DEFINE before == Copies(f, i)
           after == Copies(f, i)'
<1>1. \A x : x \in after <=> x \in before
  BY CopyMember
<1> HIDE DEF before, after
<1>2. after = before
  BY <1>1
<1>3. QED
  BY <1>2 DEF before, after


-----------------------------------------------------------------------------
(* Whatever else changes, who counts for a row stays when no request begins or    *)
(* ceases to.                                                                     *)
LEMMA UnkeyedStays ==
  ASSUME NEW f, NEW i,
         \A q \in Requests :
           (/\ pc'[q] # "new" /\ req'[q].file = f /\ inserted'[q] >= i
            /\ pc'[q] = "insert" \/ req'[q].key = None)
             <=> (/\ pc[q] # "new" /\ req[q].file = f /\ inserted[q] >= i
                  /\ pc[q] = "insert" \/ req[q].key = None)
  PROVE  Unkeyed(f, i)' = Unkeyed(f, i)
BY DEF Unkeyed

(* An arrival has inserted nothing. *)
LEMMA ArriveCounts ==
  ASSUME TypeOK, CountInv, NEW r \in Requests, NEW ask \in Asked, Arrive(r, ask),
         NEW label \in {"insert", "ok", "refused"}, Answer(r, label), disturbed \subseteq disturbed'
  PROVE  CountInv'
<1>1. /\ req'[r] = ask /\ pc'[r] = label /\ inserted[r] = 0 /\ pc[r] = "new"
      /\ inserted' = inserted /\ lines' = lines /\ idem' = idem
      /\ \A q \in Requests \ {r} : req'[q] = req[q] /\ pc'[q] = pc[q]
  BY DEF Arrive, Answer, TypeOK, tables
<1>2. ASSUME NEW f \in Files \ disturbed', NEW i \in 1..Length[f]
      PROVE  /\ Copies(f, i)' = Copies(f, i) /\ SavedFor(f)' = SavedFor(f)
             /\ Unkeyed(f, i)' = Unkeyed(f, i)
  <2>1. i > 0 /\ i \in Nat
    BY ImportAssumption
  <2>2. Unkeyed(f, i)' = Unkeyed(f, i)
    BY <1>1, <2>1, UnkeyedStays
  <2>3. QED
    BY <1>1, <2>2 DEF Copies, SavedFor
<1>3. QED
  BY <1>2, CountsStay

(* A request that ends disturbs its file, and the other files do not count it. *)
LEMMA EndCounts ==
  ASSUME TypeOK, CountInv, NEW r \in Requests, pc[r] = "insert", req' = req,
         \A q \in Requests \ {r} : pc'[q] = pc[q] /\ inserted'[q] = inserted[q],
         pc'[r] # "new", Disturb({req[r].file}),
         \A p \in Periods : \A f \in Files \ {req[r].file} : \A i \in 1..Length[f] :
            lines'[p][<<f, i>>] = lines[p][<<f, i>>],
         \A f \in Files \ {req[r].file} : SavedFor(f)' = SavedFor(f)
  PROVE  CountInv'
<1>1. ASSUME NEW f \in Files \ disturbed', NEW i \in 1..Length[f]
      PROVE  /\ Copies(f, i)' = Copies(f, i) /\ SavedFor(f)' = SavedFor(f)
             /\ Unkeyed(f, i)' = Unkeyed(f, i)
  <2>1. f # req[r].file
    BY DEF Disturb
  <2>2. Copies(f, i)' = Copies(f, i)
    BY <2>1, CopiesStay
  <2>3. Unkeyed(f, i)' = Unkeyed(f, i)
    BY <2>1, UnkeyedStays
  <2>4. QED
    BY <2>1, <2>2, <2>3
<1>2. QED
  BY <1>1, CountsStay DEF Disturb

(* A row that a period has once more is one more copy. *)
LEMMA CopyAdded ==
  ASSUME NEW f, NEW i, NEW c \in Periods, NEW n \in Nat,
         lines[c][<<f, i>>] = n, lines'[c][<<f, i>>] = n + 1,
         \A p \in Periods \ {c} : lines'[p][<<f, i>>] = lines[p][<<f, i>>]
  PROVE  Copies(f, i)' = Copies(f, i) \cup {<<c, n + 1>>} /\ <<c, n + 1>> \notin Copies(f, i)
<1> DEFINE before == Copies(f, i)
           after == Copies(f, i)'
<1>1. <<c, n + 1>> \notin before
  BY CopyMember
<1>2. ASSUME NEW x PROVE x \in after <=> x \in before \/ x = <<c, n + 1>>
  <2>1. ASSUME NEW p \in Periods \ {c}, NEW m
        PROVE  m \in 1..lines'[p][<<f, i>>] <=> m \in 1..lines[p][<<f, i>>]
    OBVIOUS
  <2>2. \A m : m \in 1..lines'[c][<<f, i>>] <=> m \in 1..lines[c][<<f, i>>] \/ m = n + 1
    OBVIOUS
  <2>3. x \in after => x \in before \/ x = <<c, n + 1>>
    <3>1. SUFFICES ASSUME NEW p \in Periods, NEW m \in 1..lines'[p][<<f, i>>], x = <<p, m>>
                   PROVE  x \in before \/ x = <<c, n + 1>>
      BY CopyMember
    <3>2. CASE p = c
      BY <2>2, <3>1, <3>2, CopyMember
    <3>3. CASE p # c
      BY <2>1, <3>1, <3>3, CopyMember
    <3>4. QED
      BY <3>2, <3>3
  <2>4. x \in before => x \in after
    <3>1. SUFFICES ASSUME NEW p \in Periods, NEW m \in 1..lines[p][<<f, i>>], x = <<p, m>>
                   PROVE  x \in after
      BY CopyMember
    <3>2. m \in 1..lines'[p][<<f, i>>]
      BY <2>1, <2>2, <3>1
    <3>3. QED
      BY <3>1, <3>2, CopyMember
  <2>5. <<c, n + 1>> \in after
    BY <2>2, CopyMember
  <2>6. QED
    BY <2>3, <2>4, <2>5
<1> HIDE DEF before, after
<1>3. after = before \cup {<<c, n + 1>>}
  BY <1>2
<1>4. QED
  BY <1>1, <1>3 DEF before, after

(* The next row is there once more, and the import counts for it. *)
LEMMA InsertCounts ==
  ASSUME TypeOK, CountInv, NEW r \in Requests, InsertRow(r)
  PROVE  CountInv'
<1> DEFINE g == req[r].file
           h == inserted[r] + 1
<1>1. /\ pc[r] = "insert" /\ req[r] \in Asked /\ g \in Files /\ req[r].period \in Periods
      /\ inserted[r] \in Nat /\ h \in 1..Length[g] /\ Length[g] \in Nat
      /\ UNCHANGED <<idem, pc, req, disturbed>> /\ Add(r)
  BY ImportAssumption DEF InsertRow, Inserts, TypeOK, Asked
<1>2. /\ inserted'[r] = h /\ \A q \in Requests \ {r} : inserted'[q] = inserted[q]
  BY <1>1 DEF Add, TypeOK
<1>3. <<g, h>> \in Rows
  BY <1>1, RowOfFile
<1>4. /\ lines'[req[r].period][<<g, h>>] = lines[req[r].period][<<g, h>>] + 1
      /\ lines[req[r].period][<<g, h>>] \in Nat
      /\ \A p \in Periods : \A row \in Rows :
           (p # req[r].period \/ row # <<g, h>>) => lines'[p][row] = lines[p][row]
  <2>1. lines' = [lines EXCEPT ![req[r].period][<<g, h>>] = @ + 1]
    BY <1>1 DEF Add
  <2>2. QED
    BY <2>1, <1>1, <1>3 DEF TypeOK
<1>5. ASSUME NEW f \in Files \ disturbed', NEW i \in 1..Length[f]
      PROVE  Counted(Copies(f, i), SavedFor(f), Unkeyed(f, i))'
  <2>0. /\ Counted(Copies(f, i), SavedFor(f), Unkeyed(f, i)) /\ SavedFor(f)' = SavedFor(f)
        /\ <<f, i>> \in Rows /\ i \in Nat
    BY <1>1, RowOfFile, ImportAssumption DEF CountInv, SavedFor
  <2>1. CASE f = g /\ i = h
    <3>1. PICK c \in Periods, n \in Nat : c = req[r].period /\ n = lines[c][<<f, i>>]
      BY <1>1, <1>4, <2>1
    <3>2. \A p \in Periods \ {c} : lines'[p][<<f, i>>] = lines[p][<<f, i>>]
      BY <1>4, <2>0, <3>1
    <3>3. Copies(f, i)' = Copies(f, i) \cup {<<c, n + 1>>} /\ <<c, n + 1>> \notin Copies(f, i)
      <4>1. lines[c][<<f, i>>] = n /\ lines'[c][<<f, i>>] = n + 1
        BY <1>4, <2>1, <3>1
      <4>2. QED
        BY <3>2, <4>1, CopyAdded
    <3>4. Unkeyed(f, i)' = Unkeyed(f, i) \cup {r} /\ r \notin Unkeyed(f, i)
      BY <1>1, <1>2, <2>1, <2>0 DEF Unkeyed
    <3>5. Counted(Copies(f, i) \cup {<<c, n + 1>>}, SavedFor(f), Unkeyed(f, i) \cup {r})
      BY <2>0, <3>3, <3>4, CountsInsert
    <3>6. QED
      BY <2>0, <3>3, <3>4, <3>5
  <2>2. CASE f # g \/ i # h
    <3>1. Copies(f, i)' = Copies(f, i)
      BY <2>0, <2>2, <1>4, CopiesStay
    <3>2. Unkeyed(f, i)' = Unkeyed(f, i)
      BY <1>1, <1>2, <2>0, <2>2, UnkeyedStays
    <3>3. QED
      BY <2>0, <3>1, <3>2
  <2>3. QED
    BY <2>1, <2>2
<1>6. QED
  BY <1>5 DEF CountInv


(* Saving a key replaces the import by the key: nobody else has used it. *)
LEMMA SaveCounts ==
  ASSUME TypeOK, KeyInv, CountInv, NEW r \in Requests, SaveKey(r)
  PROVE  CountInv'
<1>1. PICK g \in Files, k \in Keys \cup {None} : g = req[r].file /\ k = req[r].key
  BY DEF SaveKey, Saves, TypeOK, Asked
<1>2. /\ pc[r] = "insert" /\ inserted[r] = Length[g] /\ pc'[r] \in {"ok", "refused"}
      /\ UNCHANGED <<lines, req, inserted, disturbed>>
      /\ \A q \in Requests \ {r} : pc'[q] = pc[q]
  BY <1>1 DEF SaveKey, Saves, Answer, TypeOK
<1>3. \A f, i : Copies(f, i)' = Copies(f, i)
  BY <1>2 DEF Copies
<1>4. CASE k = None
  <2>1. idem' = idem
    BY <1>1, <1>4 DEF SaveKey
  <2>2. ASSUME NEW f, NEW i PROVE SavedFor(f)' = SavedFor(f) /\ Unkeyed(f, i)' = Unkeyed(f, i)
    <3>1. Unkeyed(f, i)' = Unkeyed(f, i)
      <4>1. req[r].key = None /\ pc[r] # "new" /\ pc'[r] # "new"
        BY <1>1, <1>2, <1>4
      <4>2. \A q \in Requests : /\ pc'[q] # "new" <=> pc[q] # "new"
                               /\ (pc'[q] = "insert" \/ req[q].key = None)
                                    <=> (pc[q] = "insert" \/ req[q].key = None)
        BY <1>2, <4>1
      <4>3. QED
        BY <1>2, <4>2, UnkeyedStays
    <3>2. QED
      BY <2>1, <3>1 DEF SavedFor
  <2>3. QED
    BY <1>2, <1>3, <2>2, CountsStay
<1>5. CASE k # None
  <2>1. k \in Keys /\ idem' = IdemStore!Save(idem, k, g)
    BY <1>1, <1>5 DEF SaveKey
  <2>2. ASSUME NEW f \in Files \ disturbed', NEW i \in 1..Length[f], f # g
        PROVE  SavedFor(f)' = SavedFor(f) /\ Unkeyed(f, i)' = Unkeyed(f, i)
    <3>1. \A q \in Keys : idem'[q] = f <=> idem[q] = f
      BY <2>1, <2>2, ImportAssumption DEF IdemStore!Save, IdemStore!SaveConflicts, TypeOK
    <3>2. Unkeyed(f, i)' = Unkeyed(f, i)
      BY <1>1, <1>2, <2>2, UnkeyedStays
    <3>3. QED
      BY <3>1, <3>2 DEF SavedFor
  <2>3. ASSUME g \notin disturbed, NEW i \in 1..Length[g]
        PROVE  /\ SavedFor(g)' = SavedFor(g) \cup {k} /\ k \notin SavedFor(g)
               /\ Unkeyed(g, i)' = Unkeyed(g, i) \ {r} /\ r \in Unkeyed(g, i)
    <3>1. idem[k] = Unused
      BY <1>1, <1>2, <1>5, <2>3 DEF KeyInv, InFlight
    <3>2. \A q \in Keys : idem'[q] = IF q = k THEN g ELSE idem[q]
      BY <2>1, <3>1 DEF IdemStore!Save, IdemStore!SaveConflicts, TypeOK
    <3>3. SavedFor(g)' = SavedFor(g) \cup {k} /\ k \notin SavedFor(g)
      BY <2>1, <3>1, <3>2, ImportAssumption DEF SavedFor
    <3>4. inserted[r] >= i
      BY <1>2, <2>3, ImportAssumption
    <3>5. r \in Unkeyed(g, i) /\ r \notin Unkeyed(g, i)'
      BY <1>1, <1>2, <1>5, <3>4 DEF Unkeyed
    <3>6. \A q : q # r => (q \in Unkeyed(g, i)' <=> q \in Unkeyed(g, i))
      BY <1>2 DEF Unkeyed
    <3>7. QED
      BY <3>3, <3>5, <3>6
  <2>4. ASSUME NEW f \in Files \ disturbed', NEW i \in 1..Length[f]
        PROVE  Counted(Copies(f, i), SavedFor(f), Unkeyed(f, i))'
    <3>1. f \notin disturbed /\ Counted(Copies(f, i), SavedFor(f), Unkeyed(f, i))
      BY <1>2 DEF CountInv
    <3>2. CASE f = g
      <4>1. Counted(Copies(f, i), SavedFor(f) \cup {k}, Unkeyed(f, i) \ {r})
        BY <2>3, <3>1, <3>2, CountsSave
      <4>2. QED
        BY <1>3, <2>3, <3>1, <3>2, <4>1
    <3>3. CASE f # g
      BY <1>3, <2>2, <3>1, <3>3
    <3>4. QED
      BY <3>2, <3>3
  <2>5. QED
    BY <2>4 DEF CountInv
<1>6. QED
  BY <1>4, <1>5


-----------------------------------------------------------------------------
(* An arrival that inserts finds its key unused, or disturbs its file; with those *)
(* that it joins under the key, it disturbs theirs.                               *)
LEMMA ArriveKey ==
  ASSUME TypeOK, KeyInv, NEW r \in Requests, NEW ask \in Asked, Arrive(r, ask),
         disturbed \subseteq disturbed', NEW label \in {"insert", "ok", "refused"}, Answer(r, label),
         label = "insert" =>
           /\ \/ ask.key = None \/ idem[ask.key] = Unused \/ ask.file \in disturbed'
           /\ Rivals(ask) # {} => {ask.file} \cup {req[q].file : q \in Rivals(ask)} \subseteq disturbed'
  PROVE  KeyInv'
<1>1. /\ req'[r] = ask /\ pc'[r] = label /\ pc[r] = "new" /\ idem' = idem
      /\ \A q \in Requests \ {r} : req'[q] = req[q] /\ pc'[q] = pc[q]
  BY DEF Arrive, Answer, TypeOK, tables
<1> SUFFICES ASSUME NEW s \in InFlight', req'[s].file \notin disturbed', req'[s].key # None
             PROVE  idem'[req'[s].key] = Unused /\ \A q \in Rivals(req[s])' : q = s
  BY DEF KeyInv
<1>2. CASE s = r
  <2>1. label = "insert" /\ ask.key # None /\ ask.file \notin disturbed'
    BY <1>1, <1>2 DEF InFlight
  <2>2. Rivals(ask) = {} /\ idem[ask.key] = Unused
    BY <2>1
  <2>3. \A q \in InFlight' : q # r => q \in InFlight /\ req'[q] = req[q]
    BY <1>1 DEF InFlight
  <2>4. QED
    BY <1>1, <1>2, <2>1, <2>2, <2>3 DEF Rivals
<1>3. CASE s # r
  <2>1. s \in InFlight /\ req'[s] = req[s] /\ req[s].file \notin disturbed
    BY <1>1, <1>3 DEF InFlight
  <2>2. idem[req[s].key] = Unused /\ \A q \in Rivals(req[s]) : q = s
    BY <2>1 DEF KeyInv
  <2>3. ASSUME NEW q \in Rivals(req[s])', q # s PROVE FALSE
    <3>1. CASE q = r
      <4>1. label = "insert" /\ ask.key = req[s].key
        BY <1>1, <2>1, <2>3, <3>1 DEF Rivals, InFlight
      <4>2. s \in Rivals(ask)
        BY <2>1, <4>1 DEF Rivals
      <4>3. req[s].file \in disturbed'
        BY <4>1, <4>2
      <4>4. QED
        BY <2>1, <4>3
    <3>2. CASE q # r
      BY <1>1, <2>1, <2>2, <2>3, <3>2 DEF Rivals, InFlight
    <3>3. QED
      BY <3>1, <3>2
  <2>4. QED
    BY <1>1, <2>1, <2>2, <2>3
<1>4. QED
  BY <1>2, <1>3

(* A step that adds no import in flight and saves at most a key of its own. *)
LEMMA StatementKey ==
  ASSUME KeyInv, disturbed \subseteq disturbed', req' = req, InFlight' \subseteq InFlight,
         NEW r \in InFlight,
         \A k \in Keys : idem'[k] = idem[k] \/ (k = req[r].key /\ r \notin InFlight'),
         \A q \in InFlight : req[q] \in Asked
  PROVE  KeyInv'
<1> SUFFICES ASSUME NEW s \in InFlight', req'[s].file \notin disturbed', req'[s].key # None
             PROVE  idem'[req'[s].key] = Unused /\ \A q \in Rivals(req[s])' : q = s
  BY DEF KeyInv
<1>1. s \in InFlight /\ req[s].file \notin disturbed /\ req[s].key \in Keys /\ req[s].key # None
  BY DEF Asked
<1>2. idem[req[s].key] = Unused /\ \A q \in Rivals(req[s]) : q = s
  BY <1>1 DEF KeyInv
<1>3. r # s /\ req[s].key = req[r].key => FALSE
  BY <1>1, <1>2 DEF Rivals
<1>4. idem'[req[s].key] = Unused
  BY <1>1, <1>2, <1>3
<1>5. Rivals(req[s])' \subseteq Rivals(req[s])
  BY DEF Rivals
<1>6. QED
  BY <1>2, <1>4, <1>5


LEMMA OnceStep == IInv /\ OnceInv /\ [Next]_vars => OnceInv'
<1> SUFFICES ASSUME IInv, OnceInv, [Next]_vars PROVE OnceInv'
  OBVIOUS
<1>0. TypeOK /\ KeyInv /\ CountInv
  BY DEF IInv, OnceInv
<1>1. ASSUME NEW r \in Requests, NEW ask \in Asked, Start(r, ask) PROVE OnceInv'
  <2>1. PICK label \in {"insert", "ok", "refused"} :
          Answer(r, label) /\ (label = "insert" => Found(ask) = "fresh")
    BY <1>1 DEF Start, Found, IdemStore!Check, Asked
  <2>2. disturbed \subseteq disturbed' /\ Arrive(r, ask)
    BY <1>1 DEF Start, Disturb
  <2>3. Found(ask) = "fresh" => ask.key = None \/ idem[ask.key] = Unused
    BY DEF Found, IdemStore!Check
  <2>4. Found(ask) = "fresh" /\ Rivals(ask) # {} =>
          {ask.file} \cup {req[q].file : q \in Rivals(ask)} \subseteq disturbed'
    BY <1>1 DEF Start, Disturb
  <2>5. KeyInv'
    BY <1>0, <2>1, <2>2, <2>3, <2>4, ArriveKey
  <2>6. CountInv'
    BY <1>0, <2>1, <2>2, ArriveCounts
  <2>7. QED
    BY <2>5, <2>6 DEF OnceInv
<1>2. ASSUME NEW r \in Requests, NEW ask \in Asked, Reject(r, ask) PROVE OnceInv'
  <2>1. Arrive(r, ask) /\ Answer(r, "refused") /\ disturbed \subseteq disturbed'
    BY <1>2 DEF Reject
  <2>2. QED
    BY <1>0, <2>1, ArriveKey, ArriveCounts DEF OnceInv
<1>3. ASSUME NEW r \in Requests, NEW ask \in Asked, CheckFails(r, ask) PROVE OnceInv'
  <2>1. PICK label \in {"insert", "refused"} : Answer(r, label)
    BY <1>3 DEF CheckFails
  <2>2. /\ Arrive(r, ask) /\ disturbed \subseteq disturbed'
        /\ {ask.file} \cup {req[q].file : q \in Rivals(ask)} \subseteq disturbed'
    BY <1>3 DEF CheckFails, Disturb
  <2>3. QED
    BY <1>0, <2>1, <2>2, ArriveKey, ArriveCounts DEF OnceInv
<1>4. \A q \in InFlight : req[q] \in Asked
  BY <1>0 DEF InFlight, TypeOK
<1>5. ASSUME NEW r \in Requests, InsertRow(r) PROVE OnceInv'
  <2>1. r \in InFlight /\ req' = req /\ idem' = idem /\ disturbed' = disturbed /\ InFlight' = InFlight
    BY <1>5 DEF InsertRow, Inserts, InFlight
  <2>2. KeyInv'
    BY <1>0, <1>4, <2>1, StatementKey
  <2>3. CountInv'
    BY <1>0, <1>5, InsertCounts
  <2>4. QED
    BY <2>2, <2>3 DEF OnceInv
<1>6. ASSUME NEW r \in Requests, SaveKey(r) PROVE OnceInv'
  <2>1. /\ r \in InFlight /\ req' = req /\ disturbed' = disturbed
        /\ \A q \in Requests : pc'[q] = IF q = r THEN pc'[r] ELSE pc[q]
        /\ pc'[r] # "insert"
    BY <1>0, <1>6 DEF SaveKey, Saves, InFlight, Answer, TypeOK
  <2>2. InFlight' \subseteq InFlight /\ r \notin InFlight'
    BY <2>1 DEF InFlight
  <2>3. \A k \in Keys : idem'[k] = idem[k] \/ k = req[r].key
    BY <1>0, <1>6 DEF SaveKey, IdemStore!Save, TypeOK
  <2>4. KeyInv'
    BY <1>0, <1>4, <2>1, <2>2, <2>3, StatementKey
  <2>5. CountInv'
    BY <1>0, <1>6, SaveCounts
  <2>6. QED
    BY <2>4, <2>5 DEF OnceInv
<1>7. ASSUME NEW r \in Requests, InsertFails(r) \/ SaveFails(r) \/ Die(r) PROVE OnceInv'
  <2>1. /\ pc[r] = "insert" /\ req' = req /\ pc'[r] \in {"ok", "failed"}
        /\ \A q \in Requests \ {r} : pc'[q] = pc[q]
        /\ Disturb({req[r].file}) /\ req[r] \in Asked /\ req[r].file \in Files
    BY <1>0, <1>7 DEF InsertFails, Inserts, SaveFails, Saves, Die, Answer, TypeOK, Asked
  <2>2. /\ InFlight' \subseteq InFlight /\ r \in InFlight /\ r \notin InFlight'
        /\ disturbed \subseteq disturbed'
    BY <2>1 DEF InFlight, Disturb
  <2>3. \A k \in Keys : idem'[k] = idem[k] \/ (k = req[r].key /\ idem'[k] = req[r].file /\ idem[k] \in {Unused, req[r].file})
    BY <1>0, <1>7 DEF InsertFails, SaveFails, Die, tables, IdemStore!Save, IdemStore!SaveConflicts, TypeOK
  <2>4. \A q \in Requests \ {r} : inserted'[q] = inserted[q]
    BY <1>0, <1>7 DEF InsertFails, SaveFails, Die, Add, TypeOK
  <2>5. \A p \in Periods : \A f \in Files \ {req[r].file} : \A i \in 1..Length[f] :
          lines'[p][<<f, i>>] = lines[p][<<f, i>>]
    <3>1. CASE Add(r)
      <4>1. /\ inserted[r] \in Nat /\ inserted[r] < Length[req[r].file] /\ Length[req[r].file] \in Nat
            /\ req[r].period \in Periods
        BY <1>0, <1>7, <2>1, <3>1, ImportAssumption
        DEF InsertFails, Inserts, SaveFails, Die, Add, tables, TypeOK, Asked
      <4>2. <<req[r].file, inserted[r] + 1>> \in Rows
        BY <2>1, <4>1, RowOfFile
      <4>3. \A p \in Periods : \A row \in Rows :
              row # <<req[r].file, inserted[r] + 1>> => lines'[p][row] = lines[p][row]
        BY <1>0, <3>1, <4>1, <4>2 DEF Add, TypeOK
      <4>4. QED
        BY <4>3, RowOfFile
    <3>2. CASE lines' = lines
      BY <3>2
    <3>3. QED
      BY <1>7, <3>1, <3>2 DEF InsertFails, SaveFails, Die, tables
  <2>6. \A f \in Files \ {req[r].file} : SavedFor(f)' = SavedFor(f)
    <3>1. ASSUME NEW f \in Files, f # req[r].file, NEW k \in Keys PROVE idem'[k] = f <=> idem[k] = f
      BY <2>3, <3>1, ImportAssumption
    <3>2. QED
      BY <3>1 DEF SavedFor
  <2>7. KeyInv'
    BY <1>0, <1>4, <2>1, <2>2, <2>3, StatementKey
  <2>8. CountInv'
    BY <1>0, <2>1, <2>4, <2>5, <2>6, EndCounts
  <2>9. QED
    BY <2>7, <2>8 DEF OnceInv
<1>8. CASE UNCHANGED vars
  <2>1. KeyInv'
    BY <1>0, <1>8 DEF vars, tables, KeyInv, InFlight, Rivals
  <2>2. ASSUME NEW f \in Files \ disturbed', NEW i \in 1..Length[f]
        PROVE  /\ Copies(f, i)' = Copies(f, i) /\ SavedFor(f)' = SavedFor(f)
               /\ Unkeyed(f, i)' = Unkeyed(f, i)
    BY <1>8 DEF vars, tables, Copies, SavedFor, Unkeyed
  <2>3. disturbed \subseteq disturbed'
    BY <1>8 DEF vars
  <2>4. CountInv'
    BY <1>0, <2>2, <2>3, CountsStay
  <2>5. QED
    BY <2>1, <2>4 DEF OnceInv
<1>9. QED
  BY <1>1, <1>2, <1>3, <1>5, <1>6, <1>7, <1>8 DEF Next

(* No row is there twice for one key or for one import: the imports of a file, as *)
(* long as those under a key neither overlap nor fail, account for every copy of  *)
(* every row, for any number of them (handleImportInputs).                        *)
THEOREM ImportedOnceOnly == Spec => []ImportedOnce
<1>1. Init => OnceInv
  <2> SUFFICES ASSUME Init PROVE OnceInv
    OBVIOUS
  <2>1. KeyInv
    BY DEF Init, KeyInv, InFlight
  <2>2. ASSUME NEW f \in Files, NEW i \in 1..Length[f]
        PROVE  Copies(f, i) = {} /\ SavedFor(f) = {} /\ Unkeyed(f, i) = {}
    <3>1. \A p \in Periods : lines[p][<<f, i>>] = 0
      BY RowOfFile DEF Init
    <3>2. Copies(f, i) = {}
      BY <3>1, CopyMember
    <3>3. QED
      BY <3>2, ImportAssumption DEF Init, SavedFor, Unkeyed
  <2>3. CountInv
    BY <2>2, FS_EmptySet DEF CountInv, Counted
  <2>4. QED
    BY <2>1, <2>3 DEF OnceInv
<1>2. OnceInv => ImportedOnce
  BY DEF OnceInv, CountInv, Counted, SavedFor, ImportedOnce
<1>3. QED
  BY <1>1, <1>2, OnceStep, InitIInv, Inductive, PTL DEF Spec
=============================================================================
