----------------------------- MODULE TableWrites -----------------------------
(***************************************************************************)
(* INSERT ... ON CONFLICT DO UPDATE on a table that is a function from its *)
(* key to its row; a row is a function from its columns.                   *)
(***************************************************************************)

(* One row. *)
Upsert(table, key, row) == [k \in DOMAIN table \cup {key} |-> IF k = key THEN row ELSE table[k]]

(* The rows of a statement, or the columns of one row. *)
UpsertAll(table, rows) ==
  [k \in DOMAIN table \cup DOMAIN rows |-> IF k \in DOMAIN rows THEN rows[k] ELSE table[k]]
=============================================================================
