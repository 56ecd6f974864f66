----------------------------- MODULE LibsqlStore -----------------------------
(***************************************************************************)
(* The SQL statements of the libsql provider that write.  save_memory is    *)
(* UpsertRow, ClearIndex, AppendIndex in that order and delete_memory is    *)
(* EraseRow, ClearIndex: each statement commits on its own, there is no     *)
(* transaction around them, and memories_fts has no uniqueness on id.       *)
(***************************************************************************)
EXTENDS StorageTables

(* INSERT INTO memories ... ON CONFLICT (id) DO UPDATE SET ...              *)
UpsertRow(i, r) ==
  /\ memories' = [memories EXCEPT ![i] = r]
  /\ UNCHANGED fts

(* DELETE FROM memories WHERE id = ?1                                       *)
EraseRow(i) ==
  /\ memories' = [memories EXCEPT ![i] = NoRow]
  /\ UNCHANGED fts

ClearIndex_Skipped(i) == UNCHANGED <<memories, fts>>

(* DELETE FROM memories_fts WHERE id = ?1                                   *)
ClearIndex(i) ==
  /\ fts' = [fts EXCEPT ![i] = <<>>]
  /\ UNCHANGED memories

(* With the values for content and id swapped, and with the statement lost. *)
AppendIndex_Swapped(i, text) ==
  /\ fts' = [fts EXCEPT ![i] = Append(@, i)]
  /\ UNCHANGED memories
AppendIndex_Lost(i, text) == UNCHANGED <<memories, fts>>

(* INSERT INTO memories_fts (content, id, user_id) VALUES (...)             *)
AppendIndex(i, text) ==
  /\ fts' = [fts EXCEPT ![i] = Append(@, text)]
  /\ UNCHANGED memories
=============================================================================
