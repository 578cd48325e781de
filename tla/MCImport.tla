------------------------------ MODULE MCImport ------------------------------
(* The TLC instance of InputImport. *)
EXTENDS InputImport, TLC

CONSTANTS short, long
MCLength == short :> 1 @@ long :> 2

Symmetry == Permutations(Requests) \cup Permutations(Periods) \cup Permutations(Keys)
=============================================================================
