---------------------------- MODULE Idempotency ----------------------------
(* The idempotency_keys table and the two statements the handlers run on it. *)
(* A store maps a key to the request hash it was first used with, or to      *)
(* Unused. A key stands for the tuple (tenant, user, endpoint, key) that the *)
(* table is unique on; the hash is kept as the value that was hashed, since  *)
(* only equality of hashes matters. Rows are never deleted: expires_at is    *)
(* not read by any statement.                                                *)
CONSTANT Unused      \* the value of a key that has no row

(* Mutant: the stored hash is not compared. *)
CheckKeyOnly(store, key, hash) == IF store[key] = Unused THEN "fresh" ELSE "replay"

(* Check: a key with no row, a row with the caller's hash, a row with another hash. *)
Check(store, key, hash) ==
  CASE store[key] = Unused -> "fresh"
    [] store[key] # Unused /\ store[key] = hash -> "replay"
    [] OTHER -> "conflict"

(* Save: INSERT ... ON CONFLICT DO UPDATE ... WHERE request_hash is the same;     *)
(* no row affected is reported as a conflict.                                     *)
SaveConflicts(store, key, hash) == store[key] \notin {Unused, hash}

(* Mutant: ON CONFLICT DO UPDATE without the WHERE clause. *)
SaveAlways(store, key, hash) == [store EXCEPT ![key] = hash]

Save(store, key, hash) ==
  IF SaveConflicts(store, key, hash) THEN store ELSE [store EXCEPT ![key] = hash]
=============================================================================
