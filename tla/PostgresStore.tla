---------------------------- MODULE PostgresStore ----------------------------
(***************************************************************************)
(* The SQL statements of the Postgres provider.  content_tsv is a generated *)
(* column, so the statement that writes the row writes its index entry too. *)
(***************************************************************************)
EXTENDS StorageTables

(* search_memory: the hnsw index is approximate and knows nothing of        *)
(* user_id, rows of other users are dropped after its scan, so any of u's   *)
(* rows may be missing from the result.                                     *)
PgVectorHits(u) == {S \in SUBSET RowsOf(u) : Cardinality(S) <= SearchLimit}

(* INSERT INTO memories ... ON CONFLICT (id) DO UPDATE SET ...              *)
PgUpsert(i, r) ==
  /\ memories' = [memories EXCEPT ![i] = r]
  /\ fts' = [fts EXCEPT ![i] = <<r.content>>]

(* DELETE FROM memories WHERE id = $1                                       *)
PgErase(i) ==
  /\ memories' = [memories EXCEPT ![i] = NoRow]
  /\ fts' = [fts EXCEPT ![i] = <<>>]
=============================================================================
