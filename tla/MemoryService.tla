---------------------------- MODULE MemoryService ----------------------------
(***************************************************************************)
(* MemoryService (memayu-core) over a storage backend.  A task is one call  *)
(* of a frontend (HTTP handler, MCP tool, CLI command, TUI key) that writes *)
(* memories; tasks of one server run on several threads and tasks of        *)
(* different processes share the database file, so they interleave at every *)
(* await: each provider call and each SQL statement is one step.            *)
(***************************************************************************)
EXTENDS LibsqlStore, PostgresStore

CONSTANTS
  Tasks,        \* calls that may be in flight at once
  Backend,      \* "libsql" or "postgres"
  Modes,        \* extraction modes of the processes that share the store
  Requests,     \* the calls the clients make
  Faults,       \* may statements and providers fail and processes die?
  NoId, NoUser, NoRequest, NoVector

Request ==
  [op : {"add"}, user : Users, text : Texts, meta : Metas]
    \cup [op : {"patch"}, id : Ids, text : Texts]
    \cup [op : {"delete"}, id : Ids]

ASSUME ServiceAssumption ==
  /\ Backend \in {"libsql", "postgres"}
  /\ Modes \subseteq {"llm", "raw"}
  /\ Requests \subseteq Request
  /\ Faults \in BOOLEAN
  /\ NoId \notin Ids /\ NoUser \notin Users
  /\ NoRequest \notin Request /\ NoVector \notin Vector

VARIABLES
  pc,           \* where each task is
  req,          \* the request it serves
  vec,          \* the vector its embedder returned
  cands,        \* the rows its read returned (id -> row or NoRow)
  target,       \* the id it is about to write
  mem,          \* the row it is about to save
  res,          \* its answer
  (* History variables: the program has no such state.                      *)
  creator,      \* the user under whom an id was first stored
  solo,         \* no other write of this id has overlapped this task's write
  settled       \* ids whose last write ran to its end without overlap

locals == <<vec, cands, target, mem>>
history == <<creator, solo, settled>>
vars == <<memories, fts, pc, req, locals, res, history>>

Working == {"get", "embed", "search", "extract", "ingest", "upsert", "del_row"}
Indexing == {"fts_clear", "fts_insert", "fts_delete"}
Labels == {"idle", "done"} \cup Working \cup Indexing
Answers == {"none", "ok", "noop", "not_found", "error"}
NoRows == [i \in Ids |-> NoRow]

TypeOK ==
  /\ TablesTypeOK
  /\ pc \in [Tasks -> Labels]
  /\ req \in [Tasks -> Request \cup {NoRequest}]
  /\ vec \in [Tasks -> Vector \cup {NoVector}]
  /\ cands \in [Tasks -> Table]
  /\ target \in [Tasks -> Ids \cup {NoId}]
  /\ mem \in [Tasks -> Row \cup {NoRow}]
  /\ res \in [Tasks -> Answers]
  /\ creator \in [Ids -> Users \cup {NoUser}]
  /\ solo \in [Tasks -> BOOLEAN]
  /\ settled \in SUBSET Ids

Init ==
  /\ TablesInit
  /\ pc = [t \in Tasks |-> "idle"]
  /\ req = [t \in Tasks |-> NoRequest]
  /\ vec = [t \in Tasks |-> NoVector]
  /\ cands = [t \in Tasks |-> NoRows]
  /\ target = [t \in Tasks |-> NoId]
  /\ mem = [t \in Tasks |-> NoRow]
  /\ res = [t \in Tasks |-> "none"]
  /\ creator = [i \in Ids |-> NoUser]
  /\ solo = [t \in Tasks |-> FALSE]
  /\ settled = Ids

------------------------------------------------------------------------------
(* What the steps of a task share.                                          *)

Goto(t, to) == pc' = [pc EXCEPT ![t] = to]

(* The call is over: its locals are dropped.                                *)
DropLocals(t) ==
  /\ vec' = [vec EXCEPT ![t] = NoVector]
  /\ cands' = [cands EXCEPT ![t] = NoRows]
  /\ target' = [target EXCEPT ![t] = NoId]
  /\ mem' = [mem EXCEPT ![t] = NoRow]

Answer(t, a) ==
  /\ Goto(t, "done")
  /\ res' = [res EXCEPT ![t] = a]
  /\ DropLocals(t)

FreshIds_Recycled == {i \in Ids : memories[i] = NoRow /\ \A t \in Tasks : target[t] # i}

(* Uuid::new_v4 never returns an id that is stored or about to be.          *)
FreshIds == {i \in Ids : creator[i] = NoUser /\ \A t \in Tasks : target[t] # i}

(* Bound: an add is accepted only while the finite set Ids has a fresh id   *)
(* for it besides those the adds in flight may take.                        *)
AddsInFlight == {t \in Tasks : /\ pc[t] \in {"embed", "search", "extract", "ingest"}
                               /\ req[t].op = "add"}
RoomForAdd == Cardinality(AddsInFlight) < Cardinality(FreshIds)

(* Bookkeeping of the history variables: a write of id i starts, ends, or   *)
(* is over in a single statement.                                           *)
WritersOf(i) == {t \in Tasks : pc[t] \in Indexing /\ target[t] = i}

StartWrite(t, i) ==
  /\ solo' = [u \in Tasks |-> IF u = t THEN WritersOf(i) = {}
                                       ELSE solo[u] /\ target[u] # i]
  /\ settled' = settled \ {i}

EndWrite(t) ==
  /\ settled' = IF solo[t] THEN settled \cup {target[t]} ELSE settled
  /\ UNCHANGED <<creator, solo>>

OneWrite(i) ==
  /\ settled' = settled \cup {i}
  /\ UNCHANGED solo

------------------------------------------------------------------------------
(* Steps of a task.                                                         *)

(* A frontend calls add_memory, update_memory or delete_memory.  A client   *)
(* names only ids it has learned from the service.                          *)
Begin(t, r) ==
  /\ pc[t] = "idle"
  /\ IF r.op = "add" THEN RoomForAdd ELSE creator[r.id] # NoUser
  /\ req' = [req EXCEPT ![t] = r]
  /\ \/ r.op = "add" /\ Goto(t, "embed") /\ UNCHANGED target
     \/ r.op = "patch" /\ Goto(t, "get") /\ UNCHANGED target
     \/ /\ r.op = "delete" /\ Goto(t, "del_row")
        /\ target' = [target EXCEPT ![t] = r.id]
  /\ UNCHANGED <<memories, fts, vec, cands, mem, res, history>>

(* update_memory reads the row it will write back.                          *)
Get(t) ==
  LET i == req[t].id IN
  /\ pc[t] = "get"
  /\ \/ memories[i] = NoRow /\ Answer(t, "not_found")
     \/ /\ memories[i] # NoRow
        /\ Goto(t, "embed")
        /\ cands' = [cands EXCEPT ![t] = [NoRows EXCEPT ![i] = memories[i]]]
        /\ target' = [target EXCEPT ![t] = i]
        /\ UNCHANGED <<vec, mem, res>>
  /\ UNCHANGED <<memories, fts, req, history>>

Patched_KeepsText(t, v) == [cands[t][target[t]] EXCEPT !.vec = v]

(* update_memory overwrites the content and the vector of the row it read.  *)
Patched(t, v) ==
  [cands[t][target[t]] EXCEPT !.content = req[t].text, !.vec = v]

(* The embedder answers; add goes on to look for related memories.          *)
Embed(t, d) ==
  LET v == [text |-> req[t].text, dim |-> d] IN
  /\ pc[t] = "embed"
  /\ vec' = [vec EXCEPT ![t] = v]
  /\ \/ req[t].op = "add" /\ Goto(t, "search") /\ UNCHANGED mem
     \/ /\ req[t].op = "patch" /\ Goto(t, "upsert")
        /\ mem' = [mem EXCEPT ![t] = Patched(t, v)]
  /\ UNCHANGED <<memories, fts, req, cands, target, res, history>>

(* Embedding again until the dimension fits, without a bound.               *)
Search_Reembeds(t) ==
  /\ pc[t] = "search"
  /\ ~DimMatches(vec[t])
  /\ Goto(t, "embed")
  /\ UNCHANGED <<memories, fts, req, locals, res, history>>

Hits(u, v) == IF Backend = "libsql" THEN VectorHits(u, v) ELSE PgVectorHits(u)

(* storage.search_memory: the dimension check, then one SELECT.             *)
Search(t) ==
  /\ pc[t] = "search"
  /\ \/ ~DimMatches(vec[t]) /\ Answer(t, "error")
     \/ /\ DimMatches(vec[t])
        /\ \E m \in Modes : Goto(t, IF m = "llm" THEN "extract" ELSE "ingest")
        /\ \E S \in Hits(req[t].user, vec[t]) :
             cands' = [cands EXCEPT ![t] =
                         [i \in Ids |-> IF i \in S THEN memories[i] ELSE NoRow]]
        /\ UNCHANGED <<vec, target, mem, res>>
  /\ UNCHANGED <<memories, fts, req, history>>

Save(t, i, r) ==
  /\ Goto(t, "upsert")
  /\ target' = [target EXCEPT ![t] = i]
  /\ mem' = [mem EXCEPT ![t] = r]
  /\ UNCHANGED <<vec, cands, res>>

NewMemory(t, text) ==
  [user |-> req[t].user, content |-> text, vec |-> vec[t], meta |-> req[t].meta]

(* The row an UPDATE writes is the candidate as the search returned it.     *)
Merged(t, i, text) ==
  [cands[t][i] EXCEPT !.content = text, !.vec = vec[t], !.meta = req[t].meta]

(* The LLM decides ADD: a new memory with the content it wrote.             *)
ExtractAdd(t, text) ==
  /\ pc[t] = "extract"
  /\ \E i \in FreshIds : Save(t, i, NewMemory(t, text))
  /\ UNCHANGED <<memories, fts, req, history>>

(* The LLM decides UPDATE of id i, or of no id: the target must be among    *)
(* the candidates.                                                          *)
ExtractUpdate(t, i, text) ==
  LET found == i \in Ids /\ cands[t][i] # NoRow IN
  /\ pc[t] = "extract"
  /\ \/ ~found /\ Answer(t, "error")
     \/ found /\ Save(t, i, Merged(t, i, text))
  /\ UNCHANGED <<memories, fts, req, history>>

(* Raw mode: skip when a candidate is a near duplicate, else store verbatim. *)
Duplicates(t) ==
  {i \in Ids : cands[t][i] # NoRow /\ NearDuplicate(cands[t][i], vec[t])}

(* Storing without a look at the candidates.                                *)
Ingest_Unchecked(t) ==
  /\ pc[t] = "ingest"
  /\ \E i \in FreshIds : Save(t, i, NewMemory(t, req[t].text))
  /\ UNCHANGED <<memories, fts, req, history>>

Ingest(t) ==
  /\ pc[t] = "ingest"
  /\ \/ Duplicates(t) # {} /\ Answer(t, "noop")
     \/ /\ Duplicates(t) = {}
        /\ \E i \in FreshIds : Save(t, i, NewMemory(t, req[t].text))
  /\ UNCHANGED <<memories, fts, req, history>>

(* storage.save_memory: the dimension check and the upsert of the row.      *)
Upsert(t) ==
  LET i == target[t] IN
  /\ pc[t] = "upsert"
  /\ \/ /\ ~DimMatches(mem[t].vec)
        /\ Answer(t, "error")
        /\ UNCHANGED <<memories, fts, history>>
     \/ /\ DimMatches(mem[t].vec)
        /\ creator' = [creator EXCEPT ![i] = IF @ = NoUser THEN mem[t].user ELSE @]
        /\ \/ /\ Backend = "libsql"
              /\ UpsertRow(i, mem[t])
              /\ StartWrite(t, i)
              /\ Goto(t, "fts_clear")
              /\ UNCHANGED <<locals, res>>
           \/ /\ Backend = "postgres"
              /\ PgUpsert(i, mem[t])
              /\ OneWrite(i)
              /\ Answer(t, "ok")
  /\ UNCHANGED req

(* upsert_fts, first statement.                                             *)
FtsClear(t) ==
  /\ pc[t] = "fts_clear"
  /\ ClearIndex(target[t])
  /\ Goto(t, "fts_insert")
  /\ UNCHANGED <<req, locals, res, history>>

(* upsert_fts, second statement.                                            *)
FtsInsert(t) ==
  /\ pc[t] = "fts_insert"
  /\ AppendIndex(target[t], mem[t].content)
  /\ EndWrite(t)
  /\ Answer(t, "ok")
  /\ UNCHANGED req

(* storage.delete_memory: no row to delete is no error.                     *)
DelRow(t) ==
  LET i == target[t] IN
  /\ pc[t] = "del_row"
  /\ \/ /\ Backend = "libsql"
        /\ EraseRow(i)
        /\ StartWrite(t, i)
        /\ Goto(t, "fts_delete")
        /\ UNCHANGED <<locals, res>>
     \/ /\ Backend = "postgres"
        /\ PgErase(i)
        /\ OneWrite(i)
        /\ Answer(t, "ok")
  /\ UNCHANGED <<req, creator>>

FtsDelete(t) ==
  /\ pc[t] = "fts_delete"
  /\ ClearIndex(target[t])
  /\ EndWrite(t)
  /\ Answer(t, "ok")
  /\ UNCHANGED req

(* The frontend delivers the answer.                                        *)
Reply(t) ==
  /\ pc[t] = "done"
  /\ Goto(t, "idle")
  /\ req' = [req EXCEPT ![t] = NoRequest]
  /\ res' = [res EXCEPT ![t] = "none"]
  /\ UNCHANGED <<memories, fts, locals, history>>

(* A provider call, after the retries of its client, or a SQL statement      *)
(* fails: `?` returns the error, and the statements that already ran stay.  *)
Fails(t) ==
  /\ Faults
  /\ pc[t] \in Working \cup Indexing
  /\ Answer(t, "error")
  /\ UNCHANGED <<memories, fts, req, history>>

(* The process dies, or the client disconnects and the handler's future is  *)
(* dropped.  Opening the store again changes neither table.                 *)
Abort(t) ==
  /\ Faults
  /\ pc[t] # "idle"
  /\ Goto(t, "idle")
  /\ req' = [req EXCEPT ![t] = NoRequest]
  /\ res' = [res EXCEPT ![t] = "none"]
  /\ DropLocals(t)
  /\ UNCHANGED <<memories, fts, history>>

Extract(t) ==
  \E text \in Texts :
    \/ ExtractAdd(t, text)
    \/ \E i \in Ids \cup {NoId} : ExtractUpdate(t, i, text)

Step(t) ==
  \/ Get(t)
  \/ \E d \in Dims : Embed(t, d)
  \/ Search(t)
  \/ Extract(t)
  \/ Ingest(t)
  \/ Upsert(t)
  \/ FtsClear(t)
  \/ FtsInsert(t)
  \/ DelRow(t)
  \/ FtsDelete(t)
  \/ Fails(t)
  \/ Reply(t)

Next ==
  \E t \in Tasks :
    \/ \E r \in Requests : Begin(t, r)
    \/ Step(t)
    \/ Abort(t)

Spec == Init /\ [][Next]_vars

(* tokio polls every ready task, and a provider call ends: the HTTP clients *)
(* retry MAX_RETRIES times, each try within REQUEST_TIMEOUT, and then give   *)
(* up.  Clients need not call again.                                        *)
FairSpec == Spec /\ \A t \in Tasks : WF_vars(Step(t))

(* The calls of clients that wait for each other: by whichever task, but one *)
(* after the other.                                                         *)
Sequential == \A s, t \in Tasks : s # t => "idle" \in {pc[s], pc[t]}

SequentialNext == Next /\ Sequential'

SequentialSpec == Init /\ [][SequentialNext]_vars /\ \A t \in Tasks : WF_vars(Step(t))

------------------------------------------------------------------------------
(* Properties.                                                              *)

(* An id whose last write (save_memory or delete_memory) ran to its end     *)
(* with no other write of the same id beside it is indexed exactly as its   *)
(* row says, whatever failed or died before.                                *)
SettledIndexMatches == \A i \in settled : InLockstep(i)

(* A memory keeps the user it was first stored under: neither update_memory *)
(* nor an LLM update that writes back a row it read earlier hands a memory  *)
(* to another user.                                                         *)
OwnerKept == \A i \in Ids : memories[i] # NoRow => memories[i].user = creator[i]

(* Whatever dimensions the embedder returns, the stored vectors have the    *)
(* dimension the store was opened with.                                     *)
DimUniform == \A i \in Ids : memories[i] # NoRow => memories[i].vec.dim = StoreDim

(* While no write is under way the index matches the table, as upsert_fts   *)
(* says it keeps it.                                                        *)
QuietLockstep ==
  (\A t \in Tasks : pc[t] \notin Indexing) => \A i \in Ids : InLockstep(i)

(* "skip exact duplicates": no two memories of a user are near duplicates.  *)
NoNearDuplicates ==
  \A i, j \in Ids :
    i # j /\ memories[i] # NoRow /\ memories[j] # NoRow /\ memories[i].user = memories[j].user
      => ~NearDuplicate(memories[i], memories[j].vec)

(* Every call that a live process accepted is answered.                     *)
Answered == \A t \in Tasks : (pc[t] # "idle") ~> (pc[t] = "idle" \/ res[t] # "none")

(* A stored memory is in the full-text index in the end, or deleted again.  *)
SavedIsSearchable ==
  \A i \in Ids : (memories[i] # NoRow) ~> (memories[i] = NoRow \/ fts[i] # <<>>)

(* The service implements AtomicStore: the first SQL statement that writes  *)
(* the table is the moment a call takes effect.                             *)
PhaseOf(t) ==
  CASE pc[t] = "idle" -> "idle"
    [] pc[t] \in Working -> "open"
    [] pc[t] \in Indexing -> "applied"
    [] pc[t] = "done" -> CASE res[t] = "ok" -> "ok"
                           [] res[t] = "error" -> "failed"
                           [] OTHER -> "skipped"

Atomic == INSTANCE AtomicStore WITH
            table <- memories, owner <- creator, want <- req,
            phase <- [t \in Tasks |-> PhaseOf(t)]

ImplementsAtomicStore == Atomic!Spec
=============================================================================
