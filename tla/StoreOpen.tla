------------------------------ MODULE StoreOpen ------------------------------
(***************************************************************************)
(* Opening a store.  Every process (serve, TUI, MCP, each CLI command) opens *)
(* it on its own: LibsqlProvider::open creates or checks the table, then     *)
(* creates or migrates the full-text index; PostgresProvider::connect runs   *)
(* the migrations and may change the dimension of an empty table.  Processes *)
(* start and die at any moment, next to processes that already write.        *)
(***************************************************************************)
EXTENDS Naturals

CONSTANTS
  Procs,        \* processes that may run at once
  Ids,          \* memory ids
  Dims,         \* embedding dimensions a configuration may name
  DefaultDim,   \* the dimension of the first Postgres migration, 1536
  Backends,     \* the backends to explore
  NoDim, NoId

ASSUME OpenAssumption ==
  /\ DefaultDim \in Dims
  /\ NoDim \notin Dims /\ NoId \notin Ids
  /\ Backends \subseteq {"libsql", "postgres"}

VARIABLES
  backend,
  (* The database. *)
  col,          \* dimension of the embedding column, NoDim if no table
  ann,          \* does the vector index exist?
  kind,         \* full-text index: "none", "plain" (no stemming) or "porter"
  rows,         \* id -> dimension of its vector, NoDim if there is no row
  hits,         \* id -> number of its entries in the full-text index
  (* The processes. *)
  pc,
  dim,          \* dimension its configuration names, later its provider's
  busy,         \* id its call in flight writes
  (* History variable. *)
  torn          \* a process died between writing an index and filling it

store == <<col, ann, kind, rows, hits>>
vars == <<backend, store, pc, dim, busy, torn>>

LibsqlOpening == {"table", "create", "create_ann", "fts", "swap", "create_fts", "backfill"}
PgOpening == {"migrate", "column", "empty", "alter", "drop_ann", "recreate_ann"}
Writing == {"clear", "append", "unindex"}
Serving == {"open"} \cup Writing

TypeOK ==
  /\ backend \in Backends
  /\ col \in Dims \cup {NoDim}
  /\ ann \in BOOLEAN /\ torn \in BOOLEAN
  /\ kind \in {"none", "plain", "porter"}
  /\ rows \in [Ids -> Dims \cup {NoDim}]
  /\ hits \in [Ids -> Nat]
  /\ pc \in [Procs -> {"down"} \cup LibsqlOpening \cup PgOpening \cup Serving]
  /\ dim \in [Procs -> Dims]
  /\ busy \in [Procs -> Ids \cup {NoId}]

(* A store no process has opened yet, or one that an older version left:    *)
(* with its rows, and without a full-text index or with an unstemmed one.   *)
Init ==
  /\ backend \in Backends
  /\ col \in Dims \cup {NoDim}
  /\ kind \in IF col = NoDim THEN {"none"}
              ELSE IF backend = "libsql" THEN {"none", "plain", "porter"} ELSE {"none", "porter"}
  /\ ann = (col # NoDim)
  /\ rows \in [Ids -> {NoDim, col}]
  /\ hits = [i \in Ids |-> IF rows[i] # NoDim /\ kind # "none" THEN 1 ELSE 0]
  /\ pc = [p \in Procs |-> "down"]
  /\ dim \in [Procs -> Dims]
  /\ busy = [p \in Procs |-> NoId]
  /\ torn = FALSE

Goto(p, to) == pc' = [pc EXCEPT ![p] = to]

Stored == {i \in Ids : rows[i] # NoDim}

(* The id column of memories_fts has no uniqueness: entries add up.         *)
Indexed(S) == [i \in Ids |-> IF i \in S THEN hits[i] + 1 ELSE hits[i]]

------------------------------------------------------------------------------
(* LibsqlProvider::open                                                     *)

(* dim[p] is any dimension: the configuration names it, or names none and   *)
(* resolve_storage_dimension reads the one stored, which may change later.  *)
Start(p) ==
  /\ pc[p] = "down"
  /\ Goto(p, IF backend = "libsql" THEN "table" ELSE "migrate")
  /\ UNCHANGED <<backend, store, dim, busy, torn>>

(* create_schema looks for the table.                                       *)
ReadTable(p) ==
  /\ pc[p] = "table"
  /\ \/ col = NoDim /\ Goto(p, "create")
     \/ col = dim[p] /\ Goto(p, "fts")
     \/ col \notin {NoDim, dim[p]} /\ Goto(p, "down")    \* DimensionMismatch
  /\ UNCHANGED <<backend, store, dim, busy, torn>>

(* CREATE TABLE IF NOT EXISTS                                               *)
CreateTable_IfNotExists(p) ==
  /\ pc[p] = "create"
  /\ col' = IF col = NoDim THEN dim[p] ELSE col
  /\ Goto(p, IF ann THEN "fts" ELSE "create_ann")
  /\ UNCHANGED <<backend, ann, kind, rows, hits, dim, busy, torn>>

(* CREATE TABLE fails when another process was faster.                      *)
CreateTable(p) ==
  /\ pc[p] = "create"
  /\ \/ col = NoDim /\ col' = dim[p] /\ Goto(p, "create_ann")
     \/ col # NoDim /\ Goto(p, "down") /\ UNCHANGED col
  /\ UNCHANGED <<backend, ann, kind, rows, hits, dim, busy, torn>>

CreateAnn(p) ==
  /\ pc[p] = "create_ann"
  /\ ann' = TRUE
  /\ Goto(p, "fts")
  /\ UNCHANGED <<backend, col, kind, rows, hits, dim, busy, torn>>

(* create_fts looks for the index.                                          *)
ReadFts(p) ==
  /\ pc[p] = "fts"
  /\ Goto(p, CASE kind = "porter" -> "open"
               [] kind = "plain" -> "swap"
               [] kind = "none" -> "create_fts")
  /\ UNCHANGED <<backend, store, dim, busy, torn>>

(* Creating the new index before dropping the old one of that name.         *)
SwapFts_DropLast(p) ==
  /\ pc[p] = "swap"
  /\ kind' = "none"
  /\ hits' = [i \in Ids |-> 0]
  /\ Goto(p, "backfill")
  /\ UNCHANGED <<backend, col, ann, rows, dim, busy, torn>>

(* The transaction that drops memories_fts, whichever it now is, and        *)
(* creates the porter one.                                                  *)
SwapFts(p) ==
  /\ pc[p] = "swap"
  /\ kind' = "porter"
  /\ hits' = [i \in Ids |-> 0]
  /\ Goto(p, "backfill")
  /\ UNCHANGED <<backend, col, ann, rows, dim, busy, torn>>

CreateFts(p) ==
  /\ pc[p] = "create_fts"
  /\ \/ kind = "none" /\ kind' = "porter" /\ Goto(p, "backfill")
     \/ kind # "none" /\ Goto(p, "down") /\ UNCHANGED kind
  /\ UNCHANGED <<backend, col, ann, rows, hits, dim, busy, torn>>

(* With a condition that holds for the first row only.                      *)
Missing_OnlyOne == IF \E i \in Stored : hits[i] = 0
                     THEN {CHOOSE i \in Stored : hits[i] = 0} ELSE {}

Missing == {i \in Stored : hits[i] = 0}

Backfill(p) ==
  /\ pc[p] = "backfill"
  /\ hits' = Indexed(Missing)
  /\ Goto(p, "open")
  /\ UNCHANGED <<backend, col, ann, kind, rows, dim, busy, torn>>

------------------------------------------------------------------------------
(* PostgresProvider::connect                                                *)

(* The migrations, under an advisory lock: the table with DefaultDim, then  *)
(* the generated column, which fills itself for the rows there are.         *)
Migrate(p) ==
  /\ pc[p] = "migrate"
  /\ col' = IF col = NoDim THEN DefaultDim ELSE col
  /\ ann' = (ann \/ col = NoDim)
  /\ kind' = "porter"
  /\ hits' = IF kind = "none" THEN Indexed(Stored) ELSE hits
  /\ Goto(p, "column")
  /\ UNCHANGED <<backend, rows, dim, busy, torn>>

(* current_dimension, then table_is_empty where the dimension differs.      *)
ReadColumn(p) ==
  /\ \/ /\ pc[p] = "column"
        /\ Goto(p, IF col = dim[p] THEN "open" ELSE "empty")
     \/ /\ pc[p] = "empty"
        /\ Goto(p, IF Stored = {} THEN "alter" ELSE "down")   \* DimensionMismatch
  /\ UNCHANGED <<backend, store, dim, busy, torn>>

AlterColumn_Unchecked(p) ==
  /\ pc[p] = "alter"
  /\ col' = dim[p] /\ Goto(p, "drop_ann")
  /\ UNCHANGED <<backend, ann, kind, rows, hits, dim, busy, torn>>

(* ALTER COLUMN casts the rows there are by now: it fails if one of them    *)
(* has another dimension.                                                   *)
AlterColumn(p) ==
  /\ pc[p] = "alter"
  /\ \/ (\A i \in Stored : rows[i] = dim[p]) /\ col' = dim[p] /\ Goto(p, "drop_ann")
     \/ (\E i \in Stored : rows[i] # dim[p]) /\ Goto(p, "down") /\ UNCHANGED col
  /\ UNCHANGED <<backend, ann, kind, rows, hits, dim, busy, torn>>

DropAnn(p) ==
  /\ pc[p] = "drop_ann"
  /\ ann' = FALSE
  /\ Goto(p, "recreate_ann")
  /\ UNCHANGED <<backend, col, kind, rows, hits, dim, busy, torn>>

RecreateAnn(p) ==
  /\ pc[p] = "recreate_ann"
  /\ Goto(p, IF ann THEN "down" ELSE "open")
  /\ ann' = TRUE
  /\ UNCHANGED <<backend, col, kind, rows, hits, dim, busy, torn>>

------------------------------------------------------------------------------
(* A process that has opened the store saves and deletes.  Its vectors have *)
(* its own dimension (check_dim); a vector(n) column takes no other.        *)
(* Overlapping writes of one id are the subject of MemoryService.           *)
Free(i) == \A q \in Procs : busy[q] # i

SaveRow(p, i) ==
  /\ pc[p] = "open" /\ Free(i)
  /\ \/ /\ backend = "libsql"
        /\ rows' = [rows EXCEPT ![i] = dim[p]]
        /\ busy' = [busy EXCEPT ![p] = i]
        /\ Goto(p, "clear")
        /\ UNCHANGED hits
     \/ /\ backend = "postgres" /\ dim[p] = col
        /\ rows' = [rows EXCEPT ![i] = dim[p]]
        /\ hits' = [hits EXCEPT ![i] = 1]
        /\ UNCHANGED <<busy, pc>>
  /\ UNCHANGED <<backend, col, ann, kind, dim, torn>>

DeleteRow(p, i) ==
  /\ pc[p] = "open" /\ Free(i)
  /\ rows' = [rows EXCEPT ![i] = NoDim]
  /\ \/ /\ backend = "libsql"
        /\ busy' = [busy EXCEPT ![p] = i]
        /\ Goto(p, "unindex")
        /\ UNCHANGED hits
     \/ /\ backend = "postgres"
        /\ hits' = [hits EXCEPT ![i] = 0]
        /\ UNCHANGED <<busy, pc>>
  /\ UNCHANGED <<backend, col, ann, kind, dim, torn>>

(* The statements on memories_fts that follow.                              *)
Reindex(p) ==
  /\ \/ /\ pc[p] \in {"clear", "unindex"}
        /\ hits' = [hits EXCEPT ![busy[p]] = 0]
     \/ /\ pc[p] = "append"
        /\ hits' = Indexed({busy[p]})
  /\ Goto(p, IF pc[p] = "clear" THEN "append" ELSE "open")
  /\ busy' = [busy EXCEPT ![p] = IF pc[p] = "clear" THEN @ ELSE NoId]
  /\ UNCHANGED <<backend, col, ann, kind, rows, dim, torn>>

(* The process ends: it exits, dies, or a statement of its start fails.  It *)
(* may be started again under another configuration.                        *)
Stop(p) ==
  /\ pc[p] # "down"
  /\ Goto(p, "down")
  /\ busy' = [busy EXCEPT ![p] = NoId]
  /\ \E d \in Dims : dim' = [dim EXCEPT ![p] = d]
  /\ torn' = (torn \/ pc[p] \in {"backfill"} \cup Writing)
  /\ UNCHANGED <<backend, store>>

Next ==
  \E p \in Procs :
    \/ Start(p) \/ ReadTable(p) \/ CreateTable(p) \/ CreateAnn(p)
    \/ ReadFts(p) \/ SwapFts(p) \/ CreateFts(p) \/ Backfill(p)
    \/ Migrate(p) \/ ReadColumn(p) \/ AlterColumn(p) \/ DropAnn(p) \/ RecreateAnn(p)
    \/ \E i \in Ids : SaveRow(p, i) \/ DeleteRow(p, i)
    \/ Reindex(p) \/ Stop(p)

Spec == Init /\ [][Next]_vars

------------------------------------------------------------------------------
(* Properties.                                                              *)

(* However the processes' configurations differ and their starts interleave, *)
(* all stored vectors have the dimension of the column.                     *)
RowsFitColumn == \A i \in Stored : rows[i] = col

(* A libsql process that serves has the dimension of the table, for as long *)
(* as it serves: open's check is still true when it is used.                *)
OpenDimAgrees ==
  backend = "libsql" => \A p \in Procs : pc[p] \in Serving => dim[p] = col

(* A process that serves finds a table and a stemmed index, whatever other  *)
(* processes migrate at that moment.                                        *)
ServingMeansReady ==
  (\E p \in Procs : pc[p] \in Serving) => col # NoDim /\ kind = "porter"

(* Old rows are backfilled and new rows indexed: unless a process died over *)
(* it, no row is missing from a stemmed index once nobody works on it.      *)
NoRowUnindexed ==
  /\ ~torn
  /\ kind = "porter"
  /\ \A p \in Procs : pc[p] \notin {"backfill"} \cup Writing
  => \A i \in Stored : hits[i] > 0
=============================================================================
