---------------------------- MODULE InputImport ----------------------------
(* The import of payroll inputs from a file: the file is validated as a whole,    *)
(* its rows are inserted one by one, each committed by itself, and the key of the *)
(* request is saved at the end. Of a file there is the number of its rows; a row  *)
(* of payroll_inputs is told by the file and the place it came from.              *)
EXTENDS Naturals, FiniteSets

CONSTANTS
  Requests, Periods, Files,
  Length,        \* file -> the number of its rows
  Keys,          \* (user, Idempotency-Key) pairs; the header is optional
  Unused, None   \* a key without a row; no key

ASSUME ImportAssumption ==
  /\ Length \in [Files -> Nat]
  /\ Unused \notin Files /\ None \notin Keys

VARIABLES
  lines,      \* payroll_inputs: period -> row of a file -> how many times it is there
  idem,       \* idempotency_keys of endpoint payroll.inputs.import: key -> file
  pc, req,    \* request -> what it does next or how it was answered, what it asks for
  inserted,   \* request -> rows inserted so far
  disturbed   \* history: files of which two imports overlapped under a key, or one failed

tables == <<lines, idem>>
vars == <<tables, pc, req, inserted, disturbed>>

IdemStore == INSTANCE Idempotency

Rows == UNION {{f} \X (1..Length[f]) : f \in Files}
Asked == [period : Periods, key : Keys \cup {None}, file : Files]

Init ==
  /\ lines = [p \in Periods |-> [row \in Rows |-> 0]]
  /\ idem = [k \in Keys |-> Unused]
  /\ pc = [r \in Requests |-> "new"]
  /\ req = [r \in Requests |-> None]
  /\ inserted = [r \in Requests |-> 0]
  /\ disturbed = {}

-----------------------------------------------------------------------------
Answer(r, label) == pc' = [pc EXCEPT ![r] = label]

InFlight == {r \in Requests : pc[r] = "insert"}
Rivals(ask) == {q \in InFlight : ask.key # None /\ req[q].key = ask.key}

Arrive(r, ask) ==
  /\ pc[r] = "new"
  /\ req' = [req EXCEPT ![r] = ask]
  /\ UNCHANGED <<tables, inserted>>

Disturb(files) == disturbed' = disturbed \cup files

(* What Check finds. The hash is of the file alone: the period is not part of it. *)
Found(ask) == IF ask.key = None THEN "fresh" ELSE IdemStore!Check(idem, ask.key, ask.file)

(* Mutant: the key is saved and never looked at. *)
StartUnchecked(r, ask) ==
  /\ Arrive(r, ask)
  /\ Disturb(IF Rivals(ask) = {} THEN {} ELSE {ask.file} \cup {req[q].file : q \in Rivals(ask)})
  /\ Answer(r, "insert")

(* Check, and the validation of every row before the first insert. *)
Start(r, ask) ==
  /\ Arrive(r, ask)
  /\ Disturb(IF Found(ask) # "fresh" \/ Rivals(ask) = {} THEN {}
             ELSE {ask.file} \cup {req[q].file : q \in Rivals(ask)})
  /\ CASE Found(ask) = "replay"   -> Answer(r, "ok")
       [] Found(ask) = "conflict" -> Answer(r, "refused")
       [] OTHER                   -> Answer(r, "insert")

(* A row that is not valid. *)
Reject(r, ask) ==
  /\ Arrive(r, ask)
  /\ Found(ask) = "fresh"
  /\ Answer(r, "refused")
  /\ UNCHANGED disturbed

(* An error of Check is logged, and the rows are validated. *)
CheckFails(r, ask) ==
  /\ Arrive(r, ask)
  /\ ask.key # None
  /\ Disturb({ask.file} \cup {req[q].file : q \in Rivals(ask)})
  /\ Answer(r, "insert") \/ Answer(r, "refused")

(* Mutant: one row too many. *)
InsertsBeyond(r) == pc[r] = "insert" /\ inserted[r] <= Length[req[r].file]

Inserts(r) == pc[r] = "insert" /\ inserted[r] < Length[req[r].file]

Add(r) ==
  /\ lines' = [lines EXCEPT ![req[r].period][<<req[r].file, inserted[r] + 1>>] = @ + 1]
  /\ inserted' = [inserted EXCEPT ![r] = @ + 1]

(* CreateInput for the next row. *)
InsertRow(r) ==
  /\ Inserts(r)
  /\ Add(r)
  /\ UNCHANGED <<idem, pc, req, disturbed>>

(* It fails, having inserted the row or not: the rows before it stay. *)
InsertFails(r) ==
  /\ Inserts(r)
  /\ Add(r) \/ UNCHANGED <<lines, inserted>>
  /\ Disturb({req[r].file})
  /\ Answer(r, "failed")
  /\ UNCHANGED <<idem, req>>

Saves(r) == pc[r] = "insert" /\ inserted[r] = Length[req[r].file]

(* Save, which another request with the key may have preceded. *)
SaveKey(r) ==
  /\ Saves(r)
  /\ IF req[r].key = None THEN idem' = idem /\ Answer(r, "ok")
     ELSE /\ idem' = IdemStore!Save(idem, req[r].key, req[r].file)
          /\ Answer(r, IF IdemStore!SaveConflicts(idem, req[r].key, req[r].file) THEN "refused" ELSE "ok")
  /\ UNCHANGED <<lines, req, inserted, disturbed>>

(* An error of Save is logged, and the answer is a success. *)
SaveFails(r) ==
  /\ Saves(r) /\ req[r].key # None
  /\ idem' = idem \/ idem' = IdemStore!Save(idem, req[r].key, req[r].file)
  /\ Disturb({req[r].file})
  /\ Answer(r, "ok")
  /\ UNCHANGED <<lines, req, inserted>>

(* The client leaves or the server stops. *)
Die(r) ==
  /\ pc[r] = "insert"
  /\ Disturb({req[r].file})
  /\ Answer(r, "failed")
  /\ UNCHANGED <<tables, req, inserted>>

Next ==
  \E r \in Requests :
    \/ \E ask \in Asked : Start(r, ask) \/ Reject(r, ask) \/ CheckFails(r, ask)
    \/ InsertRow(r) \/ InsertFails(r) \/ SaveKey(r) \/ SaveFails(r) \/ Die(r)

Spec == Init /\ [][Next]_vars

-----------------------------------------------------------------------------
(* The variables have their types; what was asked is known of who has arrived. *)
TypeOK ==
  /\ lines \in [Periods -> [Rows -> Nat]]
  /\ idem \in [Keys -> Files \cup {Unused}]
  /\ pc \in [Requests -> {"new", "insert", "ok", "refused", "failed"}]
  /\ req \in [Requests -> Asked \cup {None}] /\ inserted \in [Requests -> Nat]
  /\ \A r \in Requests : IF pc[r] = "new" THEN inserted[r] = 0
                         ELSE req[r] \in Asked /\ inserted[r] <= Length[req[r].file]
  /\ disturbed \subseteq Files

Imported(p, f) == \A i \in 1..Length[f] : lines[p][<<f, i>>] > 0

(* A request has imported the file that r asked for: r itself, or one with its key. *)
Vouches(q, r) ==
  /\ pc[q] # "new" /\ req[q].file = req[r].file
  /\ q = r \/ (req[r].key # None /\ req[q].key = req[r].key)
  /\ Imported(req[q].period, req[q].file)

(* Whoever is told that a file was imported finds all its rows, whatever failed   *)
(* or overlapped: in the period it named, or in that of another request which     *)
(* used the same key for the same file (handleImportInputs answers a replay for   *)
(* any period).                                                                   *)
ImportedMeansThere ==
  \A r \in Requests : pc[r] = "ok" => \E q \in Requests : Vouches(q, r)

(* The imports that have inserted a row and were not answered, or without a key. *)
Unkeyed(f, i) ==
  {r \in Requests : pc[r] # "new" /\ req[r].file = f /\ inserted[r] >= i /\ (pc[r] = "insert" \/ req[r].key = None)}

(* What payroll_inputs holds of row i of a file: one pair for every time a period has it. *)
Copies(f, i) == UNION {{p} \X (1..lines[p][<<f, i>>]) : p \in Periods}

(* Of a file whose imports under a key neither overlapped nor failed, each row is *)
(* there once for every key that was saved for it, and for every import that is   *)
(* under way or carried no key: a retry inserts nothing twice, a refusal nothing  *)
(* at all (handleImportInputs).                                                   *)
ImportedOnce ==
  \A f \in Files \ disturbed : \A i \in 1..Length[f] :
    Cardinality(Copies(f, i)) = Cardinality({k \in Keys : idem[k] = f}) + Cardinality(Unkeyed(f, i))
=============================================================================
