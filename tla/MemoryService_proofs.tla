------------------------ MODULE MemoryService_proofs -------------------------
(***************************************************************************)
(* Proofs about MemoryService, for every number of tasks, ids, users, texts *)
(* and requests, both backends, both modes, with and without faults.        *)
(***************************************************************************)
EXTENDS OverlappingAdds, FiniteSetTheorems, TLAPS

(* What a task knows at each point of its call: the request it serves, the  *)
(* registers it has filled, and that the row it will write belongs to the   *)
(* user under whom the id was first stored.                                 *)
WriteOK(t) ==
  /\ target[t] \in Ids
  /\ mem[t] \in Row
  /\ creator[target[t]] \in {NoUser, mem[t].user}
  /\ \/ req[t].op = "add" /\ mem[t].user = req[t].user /\ mem[t].meta = req[t].meta
     \/ /\ req[t].op = "patch" /\ target[t] = req[t].id
        /\ mem[t].content = req[t].text /\ creator[target[t]] = mem[t].user

CandsOK(t) ==
  \A i \in Ids : cands[t][i] # NoRow =>
    /\ cands[t][i].user = creator[i]
    /\ pc[t] \in {"extract", "ingest"} => cands[t][i].user = req[t].user

CallOK(t) ==
  /\ pc[t] # "idle" => req[t] \in Request
  /\ pc[t] = "get" => req[t].op = "patch"
  /\ pc[t] = "embed" =>
       \/ req[t].op = "add"
       \/ /\ req[t].op = "patch" /\ target[t] = req[t].id
          /\ cands[t][target[t]] # NoRow
  /\ pc[t] \in {"search", "extract", "ingest"} => req[t].op = "add" /\ vec[t] \in Vector
  /\ pc[t] \in {"upsert", "fts_clear", "fts_insert"} => WriteOK(t)
  /\ pc[t] \in {"del_row", "fts_delete"} => req[t].op = "delete" /\ target[t] = req[t].id
  /\ CandsOK(t)

(* Only one call at a time is about to store an id for the first time.      *)
OneCreator ==
  \A t, u \in Tasks :
    t # u /\ target[t] \in Ids /\ target[t] = target[u] => creator[target[t]] # NoUser

CallInv ==
  /\ TypeOK
  /\ \A t \in Tasks : CallOK(t)
  /\ OneCreator
  /\ OwnerKept

------------------------------------------------------------------------------
LEMMA RequestFields ==
  ASSUME NEW r \in Request
  PROVE  /\ r.op \in {"add", "patch", "delete"}
         /\ r.op = "add" => r.user \in Users /\ r.text \in Texts /\ r.meta \in Metas
         /\ r.op = "patch" => r.id \in Ids /\ r.text \in Texts
         /\ r.op = "delete" => r.id \in Ids
BY DEF Request

LEMMA RowFields ==
  ASSUME NEW r \in Row
  PROVE  /\ r.user \in Users /\ r.content \in Texts /\ r.meta \in Metas
         /\ r.vec \in Vector /\ r # NoRow
BY TablesAssumption DEF Row

LEMMA InitCallInv == Init => CallInv
<1> SUFFICES ASSUME Init PROVE CallInv
  OBVIOUS
<1>1. TypeOK
  BY DEF Init, TypeOK, TablesInit, TablesTypeOK, Table, Labels, Working, Indexing,
         Answers, NoRows
<1>2. \A t \in Tasks : CallOK(t)
  BY DEF Init, CallOK, CandsOK, NoRows
<1>3. OneCreator
  BY ServiceAssumption DEF Init, OneCreator
<1>4. OwnerKept
  BY DEF Init, TablesInit, OwnerKept
<1> QED BY <1>1, <1>2, <1>3, <1>4 DEF CallInv

LEMMA BeginCallInv ==
  ASSUME CallInv, NEW t \in Tasks, NEW r \in Requests, Begin(t, r)
  PROVE  CallInv'
<1>1. r \in Request /\ r.op \in {"add", "patch", "delete"}
  BY ServiceAssumption, RequestFields
<1>2. TypeOK'
  BY <1>1, RequestFields DEF CallInv, TypeOK, TablesTypeOK, Begin, Goto, history, Labels, Working
<1>3. ASSUME NEW u \in Tasks PROVE CallOK(u)'
  <2>1. CASE u = t
    BY <1>1, <2>1 DEF CallInv, TypeOK, Begin, Goto, history, CallOK, CandsOK
  <2>2. CASE u # t
    BY <2>2 DEF CallInv, TypeOK, Begin, Goto, history, CallOK, CandsOK, WriteOK
  <2> QED BY <2>1, <2>2
<1>4. OneCreator'
  BY <1>1 DEF CallInv, TypeOK, Begin, history, OneCreator
<1>5. OwnerKept'
  BY DEF CallInv, Begin, history, OwnerKept
<1> QED BY <1>2, <1>3, <1>4, <1>5 DEF CallInv

(* Answering, when memories and the users on record do not change.          *)
LEMMA AnswerCallInv ==
  ASSUME CallInv, NEW t \in Tasks, pc[t] # "idle", NEW a \in Answers, Answer(t, a),
         UNCHANGED <<memories, req, creator, solo>>, TablesTypeOK', settled' \in SUBSET Ids
  PROVE  CallInv'
<1>1. TypeOK'
  BY DEF CallInv, TypeOK, Table, Answer, Goto, DropLocals, NoRows, Labels
<1>2. ASSUME NEW u \in Tasks PROVE CallOK(u)'
  <2>1. CASE u = t
    BY <2>1
    DEF CallInv, TypeOK, Answer, Goto, DropLocals, NoRows, CallOK, CandsOK
  <2>2. CASE u # t
    BY <2>2 DEF CallInv, TypeOK, Answer, Goto, DropLocals, CallOK, CandsOK, WriteOK
  <2> QED BY <2>1, <2>2
<1>3. OneCreator'
  BY ServiceAssumption DEF CallInv, TypeOK, Answer, DropLocals, OneCreator
<1>4. OwnerKept'
  BY DEF CallInv, OwnerKept
<1> QED BY <1>1, <1>2, <1>3, <1>4 DEF CallInv

LEMMA QuietAnswerCallInv ==
  ASSUME CallInv, NEW t \in Tasks, pc[t] # "idle", NEW a \in {"noop", "not_found", "error"}, Answer(t, a),
         UNCHANGED <<memories, fts, req, history>>
  PROVE  CallInv'
<1>1. a \in Answers
  BY DEF Answers
<1>2. TablesTypeOK' /\ settled' \in SUBSET Ids /\ UNCHANGED <<memories, req, creator, solo>>
  BY DEF CallInv, TypeOK, TablesTypeOK, history
<1> QED BY <1>1, <1>2, AnswerCallInv

LEMMA GetCallInv ==
  ASSUME CallInv, NEW t \in Tasks, Get(t)
  PROVE  CallInv'
<1> DEFINE i == req[t].id
<1>1. i \in Ids /\ req[t].op = "patch"
  BY RequestFields DEF CallInv, CallOK, Get
<1>2. memories[i] # NoRow => memories[i] \in Row /\ creator[i] = memories[i].user
                             /\ creator[i] # NoUser
  BY <1>1, RowFields, ServiceAssumption
  DEF CallInv, TypeOK, TablesTypeOK, Table, OwnerKept
<1>3. CASE memories[i] = NoRow
  <2>1. pc[t] = "get" /\ Answer(t, "not_found") /\ UNCHANGED <<memories, fts, req, history>>
    BY <1>3 DEF Get
  <2> QED BY <2>1, QuietAnswerCallInv
<1>4. CASE memories[i] # NoRow
  <2>1. TypeOK'
    <3>1. [NoRows EXCEPT ![i] = memories[i]] \in Table
      BY <1>1, <1>2, <1>4 DEF NoRows, Table
    <3> QED BY <1>1, <1>4, <3>1
            DEF CallInv, TypeOK, TablesTypeOK, Get, Goto, history, Labels, Working
  <2>2. ASSUME NEW u \in Tasks PROVE CallOK(u)'
    <3>1. CASE u = t
      BY <1>1, <1>2, <1>4, <3>1
      DEF CallInv, TypeOK, Table, Get, Goto, NoRows, history, CallOK, CandsOK
    <3>2. CASE u # t
      BY <1>4, <3>2 DEF CallInv, TypeOK, Get, Goto, history, CallOK, CandsOK, WriteOK
    <3> QED BY <3>1, <3>2
  <2>3. OneCreator'
    BY <1>1, <1>2, <1>4, ServiceAssumption DEF CallInv, TypeOK, Get, history, OneCreator
  <2>4. OwnerKept'
    BY DEF CallInv, Get, history, OwnerKept
  <2> QED BY <2>1, <2>2, <2>3, <2>4 DEF CallInv
<1> QED BY <1>3, <1>4

LEMMA EmbedCallInv ==
  ASSUME CallInv, NEW t \in Tasks, NEW d \in Dims, Embed(t, d)
  PROVE  CallInv'
<1> DEFINE v == [text |-> req[t].text, dim |-> d]
<1>1. /\ req[t] \in Request
      /\ \/ req[t].op = "add"
         \/ /\ req[t].op = "patch" /\ target[t] = req[t].id
            /\ cands[t][target[t]] # NoRow
  BY DEF CallInv, CallOK, Embed
<1>2. v \in Vector
  BY <1>1, RequestFields DEF Vector
<1>3. req[t].op = "patch" => Patched(t, v) \in Row
  <2> HAVE req[t].op = "patch"
  <2>1. cands[t][target[t]] \in Row
    BY <1>1, RequestFields DEF CallInv, TypeOK, Table
  <2> QED BY <1>1, <1>2, <2>1, RequestFields DEF Patched, Row
<1>4. req[t].op = "patch" =>
        /\ Patched(t, v).user = cands[t][target[t]].user
        /\ Patched(t, v).content = req[t].text
  <2> HAVE req[t].op = "patch"
  <2>1. cands[t][target[t]] \in Row
    BY <1>1, RequestFields DEF CallInv, TypeOK, Table
  <2> QED BY <2>1 DEF Patched, Row
<1>5. TypeOK'
  BY <1>1, <1>2, <1>3
  DEF CallInv, TypeOK, TablesTypeOK, Embed, Goto, history, Labels, Working
<1>6. ASSUME NEW u \in Tasks PROVE CallOK(u)'
  <2>1. CASE u = t
    <3>1. CASE req[t].op = "add"
      BY <1>1, <1>2, <2>1, <3>1 DEF CallInv, TypeOK, Embed, Goto, history, CallOK, CandsOK
    <3>2. CASE req[t].op = "patch"
      <4>1. target[t] \in Ids /\ cands[t][target[t]].user = creator[target[t]]
        BY <1>1, <3>2, RequestFields DEF CallInv, CallOK, CandsOK
      <4>2. WriteOK(t)'
        BY <1>1, <1>3, <1>4, <3>2, <4>1 DEF CallInv, TypeOK, Embed, history, WriteOK
      <4> QED BY <1>1, <2>1, <3>2, <4>2
              DEF CallInv, TypeOK, Embed, Goto, history, CallOK, CandsOK
    <3> QED BY <1>1, <3>1, <3>2
  <2>2. CASE u # t
    BY <2>2 DEF CallInv, TypeOK, Embed, Goto, history, CallOK, CandsOK, WriteOK
  <2> QED BY <2>1, <2>2
<1>7. OneCreator' /\ OwnerKept'
  BY DEF CallInv, Embed, history, OneCreator, OwnerKept
<1> QED BY <1>5, <1>6, <1>7 DEF CallInv

LEMMA SearchCallInv ==
  ASSUME CallInv, NEW t \in Tasks, Search(t)
  PROVE  CallInv'
<1>1. req[t] \in Request /\ req[t].op = "add" /\ vec[t] \in Vector
  BY DEF CallInv, CallOK, Search
<1>2. CASE ~DimMatches(vec[t]) /\ Answer(t, "error")
  BY <1>2, QuietAnswerCallInv DEF Search
<1>3. CASE /\ \E m \in Modes : Goto(t, IF m = "llm" THEN "extract" ELSE "ingest")
           /\ \E S \in Hits(req[t].user, vec[t]) :
                cands' = [cands EXCEPT ![t] =
                            [i \in Ids |-> IF i \in S THEN memories[i] ELSE NoRow]]
           /\ UNCHANGED <<vec, target, mem, res>>
  <2>1. PICK S \in Hits(req[t].user, vec[t]) :
          cands' = [cands EXCEPT ![t] =
                      [i \in Ids |-> IF i \in S THEN memories[i] ELSE NoRow]]
    BY <1>3
  <2>2. PICK l \in {"extract", "ingest"} : Goto(t, l)
    BY <1>3
  <2>3. \A i \in S : i \in Ids /\ memories[i] # NoRow /\ memories[i].user = req[t].user
    BY DEF Hits, VectorHits, PgVectorHits, RowsOf
  <2>4. TypeOK'
    BY <1>3, <2>1, <2>2 DEF CallInv, TypeOK, TablesTypeOK, Table, Search, Goto, history,
                            Labels, Working
  <2>5. ASSUME NEW u \in Tasks PROVE CallOK(u)'
    <3>1. CASE u = t
      <4>1. CandsOK(t)'
        BY <2>1, <2>3 DEF CallInv, TypeOK, Search, history, CandsOK, OwnerKept
      <4> QED BY <1>1, <1>3, <2>2, <3>1, <4>1
              DEF CallInv, TypeOK, Search, Goto, history, CallOK
    <3>2. CASE u # t
      BY <1>3, <2>1, <2>2, <3>2
      DEF CallInv, TypeOK, Search, Goto, history, CallOK, CandsOK, WriteOK
    <3> QED BY <3>1, <3>2
  <2>6. OneCreator' /\ OwnerKept'
    BY <1>3 DEF CallInv, Search, history, OneCreator, OwnerKept
  <2> QED BY <2>4, <2>5, <2>6 DEF CallInv
<1> QED BY <1>2, <1>3 DEF Search

(* The three steps that prepare a row for an add share this.                *)
LEMMA SaveCallInv ==
  ASSUME CallInv, NEW t \in Tasks, NEW i \in Ids, NEW r \in Row,
         pc[t] \in {"extract", "ingest"},
         r.user = req[t].user, r.meta = req[t].meta,
         creator[i] = r.user \/ i \in FreshIds,
         Save(t, i, r),
         UNCHANGED <<memories, fts, req, history>>
  PROVE  CallInv'
<1>1. TypeOK'
  BY DEF CallInv, TypeOK, TablesTypeOK, Save, Goto, history, Labels, Working
<1>2. ASSUME NEW u \in Tasks PROVE CallOK(u)'
  <2>1. CASE u = t
    <3>1. WriteOK(t)'
      BY DEF CallInv, TypeOK, Save, history, CallOK, WriteOK, FreshIds
    <3> QED BY <2>1, <3>1 DEF CallInv, TypeOK, Save, Goto, history, CallOK, CandsOK
  <2>2. CASE u # t
    BY <2>2 DEF CallInv, TypeOK, Save, Goto, history, CallOK, CandsOK, WriteOK
  <2> QED BY <2>1, <2>2
<1>3. OneCreator'
  <2>1. r.user # NoUser
    BY RowFields, ServiceAssumption
  <2> QED BY <2>1 DEF CallInv, TypeOK, Save, history, OneCreator, FreshIds
<1>4. OwnerKept'
  BY DEF CallInv, history, OwnerKept
<1> QED BY <1>1, <1>2, <1>3, <1>4 DEF CallInv

LEMMA ExtractCallInv ==
  ASSUME CallInv, NEW t \in Tasks, Extract(t)
  PROVE  CallInv'
<1>1. PICK text \in Texts : \/ ExtractAdd(t, text)
                            \/ \E i \in Ids \cup {NoId} : ExtractUpdate(t, i, text)
  BY DEF Extract
<1>2. CASE ExtractAdd(t, text)
  <2>1. req[t] \in Request /\ req[t].op = "add" /\ vec[t] \in Vector
    BY <1>2 DEF CallInv, CallOK, ExtractAdd
  <2>2. /\ NewMemory(t, text) \in Row
        /\ NewMemory(t, text).user = req[t].user /\ NewMemory(t, text).meta = req[t].meta
    BY <2>1, RequestFields DEF NewMemory, Row
  <2>3. PICK i \in FreshIds : Save(t, i, NewMemory(t, text))
    BY <1>2 DEF ExtractAdd
  <2>4. i \in Ids
    BY DEF FreshIds
  <2>5. pc[t] \in {"extract", "ingest"} /\ UNCHANGED <<memories, fts, req, history>>
    BY <1>2 DEF ExtractAdd
  <2> HIDE DEF NewMemory, Save
  <2> QED BY <2>2, <2>3, <2>4, <2>5, SaveCallInv
<1>3. ASSUME NEW i \in Ids \cup {NoId}, ExtractUpdate(t, i, text) PROVE CallInv'
  <2>0. pc[t] = "extract" /\ UNCHANGED <<memories, fts, req, history>>
    BY <1>3 DEF ExtractUpdate
  <2>1. CASE Answer(t, "error")
    BY <2>0, <2>1, QuietAnswerCallInv
  <2>2. CASE i \in Ids /\ cands[t][i] # NoRow /\ Save(t, i, Merged(t, i, text))
    <3>1. req[t] \in Request /\ req[t].op = "add" /\ vec[t] \in Vector
      BY <2>0 DEF CallInv, CallOK
    <3>2. cands[t][i] \in Row /\ cands[t][i].user = creator[i] /\ creator[i] = req[t].user
      BY <2>0, <2>2 DEF CallInv, TypeOK, Table, CallOK, CandsOK
    <3>3. /\ Merged(t, i, text) \in Row
          /\ Merged(t, i, text).user = req[t].user /\ Merged(t, i, text).meta = req[t].meta
      BY <3>1, <3>2, RequestFields DEF Merged, Row
    <3> QED BY <2>0, <2>2, <3>2, <3>3, SaveCallInv
  <2> QED BY <1>3, <2>1, <2>2 DEF ExtractUpdate
<1> QED BY <1>1, <1>2, <1>3

LEMMA IngestCallInv ==
  ASSUME CallInv, NEW t \in Tasks, Ingest(t)
  PROVE  CallInv'
<1>0. pc[t] = "ingest" /\ UNCHANGED <<memories, fts, req, history>>
  BY DEF Ingest
<1>1. CASE Answer(t, "noop")
  BY <1>0, <1>1, QuietAnswerCallInv
<1>2. CASE \E i \in FreshIds : Save(t, i, NewMemory(t, req[t].text))
  <2>1. req[t] \in Request /\ req[t].op = "add" /\ vec[t] \in Vector
    BY <1>0 DEF CallInv, CallOK
  <2>2. /\ NewMemory(t, req[t].text) \in Row
        /\ NewMemory(t, req[t].text).user = req[t].user
        /\ NewMemory(t, req[t].text).meta = req[t].meta
    BY <2>1, RequestFields DEF NewMemory, Row
  <2>3. PICK i \in FreshIds : Save(t, i, NewMemory(t, req[t].text))
    BY <1>2
  <2>4. i \in Ids
    BY DEF FreshIds
  <2> QED BY <1>0, <2>2, <2>3, <2>4, SaveCallInv
<1> QED BY <1>1, <1>2 DEF Ingest

LEMMA UpsertCallInv ==
  ASSUME CallInv, NEW t \in Tasks, Upsert(t)
  PROVE  CallInv'
<1> DEFINE i == target[t]
<1>1. pc[t] = "upsert" /\ req' = req
  BY DEF Upsert
<1>2. i \in Ids /\ mem[t] \in Row /\ mem[t].user \in Users /\ mem[t].content \in Texts
      /\ creator[i] \in {NoUser, mem[t].user}
  BY <1>1, RowFields DEF CallInv, CallOK, WriteOK
<1>3. CASE Answer(t, "error") /\ UNCHANGED <<memories, fts, history>>
  BY <1>1, <1>3, QuietAnswerCallInv
<1>4. CASE /\ creator' = [creator EXCEPT ![i] = IF @ = NoUser THEN mem[t].user ELSE @]
           /\ \/ /\ UpsertRow(i, mem[t])
                 /\ StartWrite(t, i)
                 /\ Goto(t, "fts_clear")
                 /\ UNCHANGED <<locals, res>>
              \/ /\ PgUpsert(i, mem[t])
                 /\ OneWrite(i)
                 /\ Answer(t, "ok")
  <2>1. creator' \in [Ids -> Users \cup {NoUser}] /\ creator'[i] = mem[t].user
        /\ \A j \in Ids : j # i \/ creator[i] # NoUser => creator'[j] = creator[j]
    BY <1>2, <1>4, ServiceAssumption DEF CallInv, TypeOK
  <2>2. memories' = [memories EXCEPT ![i] = mem[t]]
    BY <1>4 DEF UpsertRow, PgUpsert
  <2>3. \A u \in Tasks \ {t} : target[u] = i => creator[i] # NoUser
    BY <1>2 DEF CallInv, OneCreator
  <2>4. OwnerKept'
    BY <1>2, <2>1, <2>2 DEF CallInv, TypeOK, TablesTypeOK, Table, OwnerKept
  <2>5. ASSUME NEW u \in Tasks \ {t},
               pc'[u] = pc[u], target'[u] = target[u], mem'[u] = mem[u],
               cands'[u] = cands[u], vec'[u] = vec[u]
        PROVE  CallOK(u)'
    <3>1. CandsOK(u) => CandsOK(u)'
      <4> SUFFICES ASSUME CandsOK(u), NEW j \in Ids, cands[u][j] # NoRow
                   PROVE  /\ cands[u][j].user = creator'[j]
                          /\ pc[u] \in {"extract", "ingest"} => cands[u][j].user = req[u].user
        BY <1>1, <2>5 DEF CandsOK
      <4>1. cands[u][j].user = creator[j] /\ cands[u][j].user # NoUser
        BY RowFields, ServiceAssumption DEF CandsOK, CallInv, TypeOK, Table
      <4> QED BY <2>1, <4>1 DEF CandsOK
    <3>2. WriteOK(u) => WriteOK(u)'
      BY <1>1, <2>1, <2>3, <2>5 DEF WriteOK
    <3> QED BY <1>1, <2>5, <3>1, <3>2 DEF CallInv, CallOK
  <2>6. CASE /\ UpsertRow(i, mem[t]) /\ StartWrite(t, i) /\ Goto(t, "fts_clear")
             /\ UNCHANGED <<locals, res>>
    <3>1. TypeOK'
      BY <1>1, <1>2, <2>1, <2>2, <2>6
      DEF CallInv, TypeOK, TablesTypeOK, Table, UpsertRow, StartWrite, Goto, locals, Labels, Indexing
    <3>2. CallOK(t)'
      <4>1. WriteOK(t)'
        BY <1>1, <1>2, <2>1, <2>6 DEF CallInv, CallOK, WriteOK, locals
      <4>2. CandsOK(t)'
        <5> SUFFICES ASSUME NEW j \in Ids, cands[t][j] # NoRow
                     PROVE  cands[t][j].user = creator'[j]
          BY <1>1, <2>6 DEF CallInv, TypeOK, CandsOK, Goto, locals
        <5>1. cands[t][j].user = creator[j] /\ cands[t][j].user # NoUser
          BY RowFields, ServiceAssumption DEF CallInv, CallOK, CandsOK, TypeOK, Table
        <5> QED BY <2>1, <5>1
      <4> QED BY <1>1, <2>6, <4>1, <4>2 DEF CallInv, TypeOK, CallOK, Goto
    <3>3. \A u \in Tasks \ {t} : CallOK(u)'
      BY <2>5, <2>6 DEF CallInv, TypeOK, Goto, locals
    <3>4. OneCreator'
      BY <1>2, <2>1, <2>6, ServiceAssumption DEF CallInv, OneCreator, locals
    <3> QED BY <2>4, <3>1, <3>2, <3>3, <3>4 DEF CallInv
  <2>7. CASE PgUpsert(i, mem[t]) /\ OneWrite(i) /\ Answer(t, "ok")
    <3>1. TypeOK'
      BY <1>1, <1>2, <2>1, <2>2, <2>7
      DEF CallInv, TypeOK, TablesTypeOK, Table, PgUpsert, OneWrite, Answer, Goto, DropLocals,
          NoRows, Labels, Answers
    <3>2. CallOK(t)'
      BY <1>1, <2>7
      DEF CallInv, TypeOK, CallOK, CandsOK, Answer, Goto, DropLocals, NoRows
    <3>3. \A u \in Tasks \ {t} : CallOK(u)'
      BY <2>5, <2>7 DEF CallInv, TypeOK, Answer, Goto, DropLocals
    <3>4. OneCreator'
      BY <1>2, <2>1, <2>7, ServiceAssumption DEF CallInv, TypeOK, OneCreator, Answer, DropLocals
    <3> QED BY <2>4, <3>1, <3>2, <3>3, <3>4 DEF CallInv
  <2> QED BY <1>4, <2>6, <2>7
<1> QED BY <1>3, <1>4 DEF Upsert

LEMMA FtsClearCallInv ==
  ASSUME CallInv, NEW t \in Tasks, FtsClear(t)
  PROVE  CallInv'
<1>1. target[t] \in Ids
  BY DEF CallInv, CallOK, WriteOK, FtsClear
<1>2. TypeOK'
  BY <1>1 DEF CallInv, TypeOK, TablesTypeOK, FtsClear, ClearIndex, Goto, locals, history,
              Labels, Indexing
<1>3. ASSUME NEW u \in Tasks PROVE CallOK(u)'
  BY DEF CallInv, TypeOK, FtsClear, Goto, locals, history, CallOK, CandsOK, WriteOK
<1>4. OneCreator' /\ OwnerKept'
  BY DEF CallInv, FtsClear, ClearIndex, locals, history, OneCreator, OwnerKept
<1> QED BY <1>2, <1>3, <1>4 DEF CallInv

LEMMA DelRowCallInv ==
  ASSUME CallInv, NEW t \in Tasks, DelRow(t)
  PROVE  CallInv'
<1> DEFINE i == target[t]
<1>1. pc[t] = "del_row" /\ i \in Ids /\ UNCHANGED <<req, creator>>
  BY RequestFields DEF CallInv, CallOK, DelRow
<1>2. memories' = [memories EXCEPT ![i] = NoRow]
  BY DEF DelRow, EraseRow, PgErase
<1>3. OwnerKept'
  BY <1>1, <1>2 DEF CallInv, TypeOK, TablesTypeOK, Table, OwnerKept
<1>4. CASE EraseRow(i) /\ StartWrite(t, i) /\ Goto(t, "fts_delete") /\ UNCHANGED <<locals, res>>
  <2>1. TypeOK'
    BY <1>1, <1>2, <1>4
    DEF CallInv, TypeOK, TablesTypeOK, Table, EraseRow, StartWrite, Goto, locals, Labels, Indexing
  <2>2. ASSUME NEW u \in Tasks PROVE CallOK(u)'
    BY <1>1, <1>4 DEF CallInv, TypeOK, Goto, locals, CallOK, CandsOK, WriteOK
  <2>3. OneCreator'
    BY <1>1, <1>4 DEF CallInv, locals, OneCreator
  <2> QED BY <1>3, <2>1, <2>2, <2>3 DEF CallInv
<1>5. CASE PgErase(i) /\ OneWrite(i) /\ Answer(t, "ok")
  <2>1. TypeOK'
    BY <1>1, <1>2, <1>5
    DEF CallInv, TypeOK, TablesTypeOK, Table, PgErase, OneWrite, Answer, Goto, DropLocals,
        NoRows, Labels, Answers
  <2>2. ASSUME NEW u \in Tasks PROVE CallOK(u)'
    <3>1. CASE u = t
      BY <1>1, <1>5, <3>1
      DEF CallInv, TypeOK, CallOK, CandsOK, Answer, Goto, DropLocals, NoRows
    <3>2. CASE u # t
      BY <1>1, <1>5, <3>2
      DEF CallInv, TypeOK, CallOK, CandsOK, WriteOK, Answer, Goto, DropLocals
    <3> QED BY <3>1, <3>2
  <2>3. OneCreator'
    BY <1>1, <1>5, ServiceAssumption DEF CallInv, TypeOK, OneCreator, Answer, DropLocals
  <2> QED BY <1>3, <2>1, <2>2, <2>3 DEF CallInv
<1> QED BY <1>4, <1>5 DEF DelRow

LEMMA EndWriteCallInv ==
  ASSUME CallInv, NEW t \in Tasks, FtsInsert(t) \/ FtsDelete(t)
  PROVE  CallInv'
<1>1. target[t] \in Ids
  BY RequestFields DEF CallInv, CallOK, WriteOK, FtsInsert, FtsDelete
<1>2. pc[t] # "idle" /\ Answer(t, "ok") /\ "ok" \in Answers /\ UNCHANGED <<memories, req, creator, solo>>
  BY DEF FtsInsert, FtsDelete, AppendIndex, ClearIndex, EndWrite, Answers
<1>3. TablesTypeOK'
  <2>1. CASE FtsInsert(t)
    <3>1. mem[t].content \in Texts
      BY <2>1, RowFields DEF CallInv, CallOK, WriteOK, FtsInsert
    <3> QED BY <1>1, <2>1, <3>1
            DEF CallInv, TypeOK, TablesTypeOK, FtsInsert, AppendIndex
  <2>2. CASE FtsDelete(t)
    BY <1>1, <2>2 DEF CallInv, TypeOK, TablesTypeOK, FtsDelete, ClearIndex
  <2> QED BY <2>1, <2>2
<1>4. settled' \in SUBSET Ids
  BY <1>1 DEF CallInv, TypeOK, FtsInsert, FtsDelete, EndWrite
<1> QED BY <1>2, <1>3, <1>4, AnswerCallInv

LEMMA LeaveCallInv ==
  ASSUME CallInv, NEW t \in Tasks, Reply(t) \/ Abort(t)
  PROVE  CallInv'
<1>1. TypeOK'
  <2>1. CASE Reply(t)
    BY <2>1 DEF CallInv, TypeOK, TablesTypeOK, Reply, Goto, locals, history, Labels, Answers
  <2>2. CASE Abort(t)
    BY <2>2 DEF CallInv, TypeOK, TablesTypeOK, Table, Abort, Goto, DropLocals, NoRows,
                history, Labels, Answers
  <2> QED BY <2>1, <2>2
<1>2. ASSUME NEW u \in Tasks PROVE CallOK(u)'
  <2>1. CASE u = t
    BY <2>1 DEF CallInv, TypeOK, Reply, Abort, Goto, DropLocals, NoRows, locals, history,
                CallOK, CandsOK
  <2>2. CASE u # t
    BY <2>2 DEF CallInv, TypeOK, Reply, Abort, Goto, DropLocals, locals, history,
                CallOK, CandsOK, WriteOK
  <2> QED BY <2>1, <2>2
<1>3. OneCreator'
  BY ServiceAssumption
  DEF CallInv, TypeOK, Reply, Abort, DropLocals, locals, history, OneCreator
<1>4. OwnerKept'
  BY DEF CallInv, Reply, Abort, history, OwnerKept
<1> QED BY <1>1, <1>2, <1>3, <1>4 DEF CallInv

LEMMA NextCallInv == CallInv /\ [Next]_vars => CallInv'
<1> SUFFICES ASSUME CallInv, [Next]_vars PROVE CallInv'
  OBVIOUS
<1>1. CASE UNCHANGED vars
  BY <1>1 DEF CallInv, TypeOK, TablesTypeOK, CallOK, CandsOK, WriteOK, OneCreator, OwnerKept,
              vars, locals, history
<1>2. CASE Next
  <2>1. PICK t \in Tasks : (\E r \in Requests : Begin(t, r)) \/ Step(t) \/ Abort(t)
    BY <1>2 DEF Next
  <2>2. CASE \E r \in Requests : Begin(t, r)
    BY <2>2, BeginCallInv
  <2>3. CASE Step(t)
    <3>1. CASE Fails(t)
      BY <3>1, QuietAnswerCallInv DEF Fails, Working, Indexing
    <3> QED BY <2>3, <3>1, GetCallInv, EmbedCallInv, SearchCallInv, ExtractCallInv,
               IngestCallInv, UpsertCallInv, FtsClearCallInv, DelRowCallInv,
               EndWriteCallInv, LeaveCallInv
            DEF Step
  <2>4. CASE Abort(t)
    BY <2>4, LeaveCallInv
  <2> QED BY <2>1, <2>2, <2>3, <2>4
<1> QED BY <1>1, <1>2

LEMMA CallInvariant == Spec => []CallInv
BY InitCallInv, NextCallInv, PTL DEF Spec

(* In every execution, whatever fails, the state is well typed.             *)
THEOREM TypeCorrect == Spec => []TypeOK
<1>1. CallInv => TypeOK
  BY DEF CallInv
<1> QED BY <1>1, CallInvariant, PTL

(* A memory keeps the user it was first stored under, however the reads and *)
(* the writes of concurrent add_memory_llm and update_memory calls mix.     *)
THEOREM OwnerIsKept == Spec => []OwnerKept
<1>1. CallInv => OwnerKept
  BY DEF CallInv
<1> QED BY <1>1, CallInvariant, PTL

------------------------------------------------------------------------------
(* The full-text index.  A write with no other write of its id beside it    *)
(* knows the row and the index entries it has produced so far.              *)
Writing(t, i) == pc[t] \in Indexing /\ target[t] = i

SoloOK(t) ==
  LET i == target[t] IN
  /\ \A u \in Tasks \ {t} : ~Writing(u, i)
  /\ pc[t] \in {"fts_clear", "fts_insert"} => memories[i] = mem[t]
  /\ pc[t] = "fts_insert" => fts[i] = <<>>
  /\ pc[t] = "fts_delete" => memories[i] = NoRow

SettledOK(i) == InLockstep(i) /\ \A t \in Tasks : ~Writing(t, i)

IndexInv ==
  /\ \A i \in settled : SettledOK(i)
  /\ \A t \in Tasks : pc[t] \in Indexing /\ solo[t] => SoloOK(t)
  /\ Backend = "postgres" => \A t \in Tasks : pc[t] \notin Indexing

LEMMA IndexingTarget ==
  ASSUME CallInv, NEW t \in Tasks, pc[t] \in Indexing
  PROVE  target[t] \in Ids
<1>1. CASE pc[t] \in {"fts_clear", "fts_insert"}
  BY <1>1 DEF CallInv, CallOK, WriteOK
<1>2. CASE pc[t] = "fts_delete"
  BY <1>2, RequestFields DEF CallInv, CallOK
<1> QED BY <1>1, <1>2 DEF Indexing

LEMMA InitIndexInv == Init => IndexInv
BY DEF Init, TablesInit, IndexInv, SettledOK, InLockstep, Writing, Indexing

(* A step outside the writes, or one that abandons a write.                 *)
LEMMA OutsideIndexInv ==
  ASSUME IndexInv, NEW t \in Tasks, pc'[t] \notin Indexing,
         UNCHANGED <<memories, fts, solo, settled>>,
         \A u \in Tasks \ {t} : pc'[u] = pc[u] /\ target'[u] = target[u] /\ mem'[u] = mem[u]
  PROVE  IndexInv'
<1>1. ASSUME NEW i PROVE \A u \in Tasks : Writing(u, i)' => Writing(u, i)
  BY DEF Writing
<1>2. ASSUME NEW i \in settled PROVE SettledOK(i)'
  BY <1>1 DEF IndexInv, SettledOK, InLockstep
<1>3. ASSUME NEW u \in Tasks \ {t}, pc[u] \in Indexing, solo[u] PROVE SoloOK(u)'
  BY <1>1, <1>3 DEF IndexInv, SoloOK
<1> QED BY <1>2, <1>3 DEF IndexInv

(* The first statement of a write.                                          *)
LEMMA StartIndexInv ==
  ASSUME CallInv, IndexInv, Backend = "libsql", NEW t \in Tasks, pc[t] \notin Indexing,
         NEW l \in {"fts_clear", "fts_delete"}, Goto(t, l),
         target[t] \in Ids, StartWrite(t, target[t]),
         UNCHANGED <<fts, target, mem>>,
         \A i \in Ids \ {target[t]} : memories'[i] = memories[i],
         l = "fts_clear" => memories'[target[t]] = mem[t],
         l = "fts_delete" => memories'[target[t]] = NoRow
  PROVE  IndexInv'
<1>1. /\ pc'[t] = l /\ \A u \in Tasks \ {t} : pc'[u] = pc[u]
      /\ l \in Indexing
      /\ \A u \in Tasks \ {t} : solo'[u] => solo[u] /\ target[u] # target[t]
      /\ solo'[t] => WritersOf(target[t]) = {}
      /\ settled' = settled \ {target[t]}
  BY DEF CallInv, TypeOK, Goto, StartWrite, Indexing
<1>2. ASSUME NEW i \in settled' PROVE SettledOK(i)'
  BY <1>1 DEF CallInv, TypeOK, IndexInv, SettledOK, InLockstep, Writing
<1>3. ASSUME NEW u \in Tasks \ {t}, pc'[u] \in Indexing, solo'[u] PROVE SoloOK(u)'
  <2>1. SoloOK(u) /\ target[u] # target[t] /\ target[u] \in Ids
    BY <1>1, <1>3, IndexingTarget DEF IndexInv
  <2> QED BY <1>1, <2>1 DEF SoloOK, Writing
<1>4. solo'[t] => SoloOK(t)'
  <2>1. solo'[t] => \A u \in Tasks \ {t} : ~Writing(u, target[t])
    BY <1>1 DEF WritersOf, Writing
  <2> QED BY <1>1, <2>1 DEF SoloOK, Writing
<1> QED BY <1>2, <1>3, <1>4 DEF IndexInv

(* The last statement of a write.                                           *)
LEMMA EndIndexInv ==
  ASSUME CallInv, IndexInv, NEW t \in Tasks, FtsInsert(t) \/ FtsDelete(t)
  PROVE  IndexInv'
<1> PICK i : i = target[t]
  OBVIOUS
<1>1. i \in Ids /\ pc[t] \in Indexing
  BY IndexingTarget DEF FtsInsert, FtsDelete, Indexing
<1>2. /\ pc'[t] = "done" /\ "done" \notin Indexing
      /\ memories' = memories /\ solo' = solo
      /\ \A u \in Tasks \ {t} : pc'[u] = pc[u] /\ target'[u] = target[u] /\ mem'[u] = mem[u]
      /\ settled' = IF solo[t] THEN settled \cup {i} ELSE settled
  BY <1>1 DEF CallInv, TypeOK, FtsInsert, FtsDelete, AppendIndex, ClearIndex, EndWrite, Answer,
              Goto, DropLocals, Indexing
<1>3. \A j \in Ids \ {i} : fts'[j] = fts[j]
  BY <1>1 DEF CallInv, TypeOK, TablesTypeOK, FtsInsert, FtsDelete, AppendIndex, ClearIndex
<1>4. i \notin settled
  BY <1>1, <1>2, <1>3 DEF IndexInv, SettledOK, Writing
<1>5. solo[t] => SettledOK(i)'
  <2> HAVE solo[t]
  <2>1. SoloOK(t)
    BY <1>1, <1>2, <1>3 DEF IndexInv
  <2>2. InLockstep(i)'
    <3>1. CASE FtsInsert(t)
      <4>1. mem[t] \in Row /\ memories[i] = mem[t] /\ mem[t] # NoRow /\ fts[i] = <<>>
        BY <2>1, <3>1, RowFields DEF CallInv, CallOK, WriteOK, SoloOK, FtsInsert
      <4>2. fts'[i] = Append(<<>>, mem[t].content)
        BY <1>1, <1>2, <1>3, <3>1, <4>1 DEF CallInv, TypeOK, TablesTypeOK, FtsInsert, AppendIndex
      <4>3. Append(<<>>, mem[t].content) = <<mem[t].content>>
        OBVIOUS
      <4> QED BY <1>1, <1>2, <1>3, <4>1, <4>2, <4>3 DEF InLockstep
    <3>2. CASE FtsDelete(t)
      BY <1>1, <1>2, <1>3, <2>1, <3>2
      DEF CallInv, TypeOK, TablesTypeOK, SoloOK, FtsDelete, ClearIndex, InLockstep
    <3> QED BY <3>1, <3>2
  <2> QED BY <1>1, <1>2, <1>3, <2>1, <2>2 DEF SettledOK, SoloOK, Writing
<1>6. ASSUME NEW j \in settled PROVE SettledOK(j)'
  BY <1>1, <1>2, <1>3, <1>4 DEF CallInv, TypeOK, IndexInv, SettledOK, InLockstep, Writing
<1>7. ASSUME NEW u \in Tasks \ {t}, pc[u] \in Indexing, solo[u] PROVE SoloOK(u)'
  <2>1. SoloOK(u) /\ target[u] # i /\ target[u] \in Ids
    BY <1>1, <1>2, <1>3, <1>7, IndexingTarget DEF IndexInv, SoloOK, Writing
  <2> QED BY <1>1, <1>2, <1>3, <2>1 DEF SoloOK, Writing
<1> QED BY <1>1, <1>2, <1>3, <1>5, <1>6, <1>7 DEF IndexInv

LEMMA FtsClearIndexInv ==
  ASSUME CallInv, IndexInv, NEW t \in Tasks, FtsClear(t)
  PROVE  IndexInv'
<1> PICK i : i = target[t]
  OBVIOUS
<1>1. /\ i \in Ids /\ pc[t] = "fts_clear" /\ pc'[t] = "fts_insert"
      /\ UNCHANGED <<memories, target, mem, solo, settled>>
      /\ \A u \in Tasks \ {t} : pc'[u] = pc[u]
      /\ fts' = [fts EXCEPT ![i] = <<>>]
      /\ fts'[i] = <<>>
      /\ \A j \in Ids \ {i} : fts'[j] = fts[j]
  BY DEF CallInv, TypeOK, TablesTypeOK, CallOK, WriteOK, FtsClear, ClearIndex, Goto, locals,
         history
<1>2. \A u \in Tasks : pc'[u] \in Indexing <=> pc[u] \in Indexing
  BY <1>1 DEF Indexing
<1>3. ASSUME NEW j \in settled PROVE SettledOK(j)'
  BY <1>1, <1>2 DEF CallInv, TypeOK, IndexInv, SettledOK, InLockstep, Writing, Indexing
<1>4. ASSUME NEW u \in Tasks, pc[u] \in Indexing, solo[u] PROVE SoloOK(u)'
  <2>1. SoloOK(u) /\ target[u] \in Ids
    BY <1>4, IndexingTarget DEF IndexInv
  <2>2. u # t => target[u] # i
    BY <1>1, <2>1 DEF SoloOK, Writing, Indexing
  <2> QED BY <1>1, <1>2, <2>1, <2>2 DEF SoloOK, Writing
<1> QED BY <1>1, <1>2, <1>3, <1>4 DEF IndexInv

(* A Postgres write: one statement for the row and its index entry.         *)
LEMMA OneIndexInv ==
  ASSUME CallInv, IndexInv, Backend = "postgres", NEW t \in Tasks, pc'[t] \notin Indexing,
         \A u \in Tasks \ {t} : pc'[u] = pc[u],
         NEW i \in Ids, OneWrite(i),
         \A j \in Ids \ {i} : memories'[j] = memories[j] /\ fts'[j] = fts[j],
         InLockstep(i)'
  PROVE  IndexInv'
<1>1. \A u \in Tasks : pc'[u] \notin Indexing
  BY DEF IndexInv
<1>2. ASSUME NEW j \in settled' PROVE SettledOK(j)'
  BY <1>1 DEF CallInv, TypeOK, IndexInv, OneWrite, SettledOK, InLockstep, Writing
<1> QED BY <1>1, <1>2 DEF IndexInv

LEMMA UpsertIndexInv ==
  ASSUME CallInv, IndexInv, NEW t \in Tasks, Upsert(t)
  PROVE  IndexInv'
<1> PICK i : i = target[t]
  OBVIOUS
<1>1. pc[t] = "upsert" /\ pc[t] \notin Indexing /\ i \in Ids /\ mem[t] \in Row /\ mem[t] # NoRow
  BY RowFields DEF CallInv, CallOK, WriteOK, Upsert, Indexing
<1>2. CASE Answer(t, "error") /\ UNCHANGED <<memories, fts, history>>
  BY <1>2, OutsideIndexInv DEF CallInv, TypeOK, Answer, Goto, DropLocals, history, Indexing
<1>3. CASE /\ Backend = "libsql" /\ UpsertRow(i, mem[t]) /\ StartWrite(t, i)
           /\ Goto(t, "fts_clear") /\ UNCHANGED locals
  BY <1>1, <1>3, StartIndexInv DEF CallInv, TypeOK, TablesTypeOK, Table, UpsertRow, locals
<1>4. CASE Backend = "postgres" /\ PgUpsert(i, mem[t]) /\ OneWrite(i) /\ Answer(t, "ok")
  <2>1. InLockstep(i)'
    BY <1>1, <1>4 DEF CallInv, TypeOK, TablesTypeOK, Table, PgUpsert, InLockstep
  <2> QED BY <1>1, <1>4, <2>1, OneIndexInv
          DEF CallInv, TypeOK, TablesTypeOK, Table, PgUpsert, Answer, Goto, Indexing
<1> QED BY <1>2, <1>3, <1>4 DEF Upsert

LEMMA DelRowIndexInv ==
  ASSUME CallInv, IndexInv, NEW t \in Tasks, DelRow(t)
  PROVE  IndexInv'
<1> PICK i : i = target[t]
  OBVIOUS
<1>1. pc[t] = "del_row" /\ pc[t] \notin Indexing /\ i \in Ids
  BY RequestFields DEF CallInv, CallOK, DelRow, Indexing
<1>2. CASE /\ Backend = "libsql" /\ EraseRow(i) /\ StartWrite(t, i)
           /\ Goto(t, "fts_delete") /\ UNCHANGED locals
  BY <1>1, <1>2, StartIndexInv DEF CallInv, TypeOK, TablesTypeOK, Table, EraseRow, locals
<1>3. CASE Backend = "postgres" /\ PgErase(i) /\ OneWrite(i) /\ Answer(t, "ok")
  <2>1. InLockstep(i)'
    BY <1>1, <1>3 DEF CallInv, TypeOK, TablesTypeOK, Table, PgErase, InLockstep
  <2> QED BY <1>1, <1>3, <2>1, OneIndexInv
          DEF CallInv, TypeOK, TablesTypeOK, Table, PgErase, Answer, Goto, Indexing
<1> QED BY <1>2, <1>3 DEF DelRow

LEMMA NextIndexInv == CallInv /\ IndexInv /\ [Next]_vars => IndexInv'
<1> SUFFICES ASSUME CallInv, IndexInv, [Next]_vars PROVE IndexInv'
  OBVIOUS
<1>1. CASE UNCHANGED vars
  BY <1>1 DEF IndexInv, SettledOK, SoloOK, InLockstep, Writing, vars, locals, history
<1>2. CASE Next
  <2>1. PICK t \in Tasks : (\E r \in Requests : Begin(t, r)) \/ Step(t) \/ Abort(t)
    BY <1>2 DEF Next
  <2>2. CASE \E r \in Requests : Begin(t, r)
    BY <2>2, OutsideIndexInv DEF CallInv, TypeOK, Begin, Goto, history, Indexing
  <2>3. CASE Get(t)
    BY <2>3, OutsideIndexInv
    DEF CallInv, TypeOK, Get, Goto, Answer, DropLocals, history, Indexing
  <2>4. CASE \E d \in Dims : Embed(t, d)
    BY <2>4, OutsideIndexInv DEF CallInv, TypeOK, Embed, Goto, history, Indexing
  <2>5. CASE Search(t)
    BY <2>5, OutsideIndexInv
    DEF CallInv, TypeOK, Search, Goto, Answer, DropLocals, history, Indexing
  <2>6. CASE Extract(t) \/ Ingest(t)
    BY <2>6, OutsideIndexInv
    DEF CallInv, TypeOK, Extract, ExtractAdd, ExtractUpdate, Ingest, Save, Goto, Answer,
        DropLocals, history, Indexing
  <2>7. CASE Fails(t) \/ Reply(t) \/ Abort(t)
    BY <2>7, OutsideIndexInv
    DEF CallInv, TypeOK, Fails, Reply, Abort, Goto, Answer, DropLocals, locals, history,
        Indexing
  <2> QED BY <2>1, <2>2, <2>3, <2>4, <2>5, <2>6, <2>7, UpsertIndexInv, FtsClearIndexInv,
             EndIndexInv, DelRowIndexInv
          DEF Step
<1> QED BY <1>1, <1>2

(* A save or a delete that ran to its end with no other write of the same   *)
(* id beside it leaves index and table in lockstep, whatever failed before, *)
(* for any number of concurrent calls on other ids.                         *)
THEOREM SettledIndexIsExact == Spec => []SettledIndexMatches
<1>1. IndexInv => SettledIndexMatches
  BY DEF IndexInv, SettledOK, SettledIndexMatches
<1> QED BY <1>1, InitIndexInv, CallInvariant, NextIndexInv, PTL DEF Spec

------------------------------------------------------------------------------
(* On Postgres no write has a second statement, so none ever overlaps.      *)
PgInv == settled = Ids /\ \A t \in Tasks : pc[t] \notin Indexing

LEMMA NextPgInv ==
  ASSUME Backend = "postgres", CallInv, PgInv, [Next]_vars
  PROVE  PgInv'
<1>1. CASE UNCHANGED vars
  BY <1>1 DEF PgInv, vars, history
<1>2. CASE Next
  <2>1. PICK t \in Tasks : (\E r \in Requests : Begin(t, r)) \/ Step(t) \/ Abort(t)
    BY <1>2 DEF Next
  <2>2. CASE \E r \in Requests : Begin(t, r)
    BY <2>2 DEF PgInv, CallInv, TypeOK, Begin, Goto, history, Indexing
  <2>3. CASE Get(t) \/ Search(t) \/ \E d \in Dims : Embed(t, d)
    BY <2>3
    DEF PgInv, CallInv, TypeOK, Get, Search, Embed, Goto, Answer, history, Indexing
  <2>4. CASE Extract(t) \/ Ingest(t)
    BY <2>4
    DEF PgInv, CallInv, TypeOK, Extract, ExtractAdd, ExtractUpdate, Ingest, Save, Goto, Answer,
        history, Indexing
  <2>5. CASE Upsert(t) \/ DelRow(t)
    <3>1. target[t] \in Ids
      BY <2>5, RequestFields DEF CallInv, CallOK, WriteOK, Upsert, DelRow
    <3> QED BY <2>5, <3>1
            DEF PgInv, CallInv, TypeOK, Upsert, DelRow, OneWrite, Goto, Answer, history, Indexing
  <2>6. ~FtsClear(t) /\ ~FtsInsert(t) /\ ~FtsDelete(t)
    BY DEF PgInv, FtsClear, FtsInsert, FtsDelete, Indexing
  <2>7. CASE Fails(t) \/ Reply(t) \/ Abort(t)
    BY <2>7
    DEF PgInv, CallInv, TypeOK, Fails, Reply, Abort, Goto, Answer, history, Indexing
  <2> QED BY <2>1, <2>2, <2>3, <2>4, <2>5, <2>6, <2>7 DEF Step
<1> QED BY <1>1, <1>2

(* On Postgres the index never differs from the table, whatever overlaps,   *)
(* fails or dies: what upsert_fts claims for libsql is true here.           *)
THEOREM PostgresIndexIsExact ==
  ASSUME Backend = "postgres"
  PROVE  Spec => []QuietLockstep
<1>1. Init => PgInv
  BY DEF Init, PgInv, Indexing
<1>2. CallInv /\ PgInv /\ [Next]_vars => PgInv'
  BY NextPgInv
<1>3. IndexInv /\ PgInv => QuietLockstep
  BY DEF IndexInv, SettledOK, PgInv, QuietLockstep
<1> QED BY <1>1, <1>2, <1>3, InitIndexInv, CallInvariant, NextIndexInv, PTL DEF Spec
------------------------------------------------------------------------------
(* One call after the other, on either backend, without failures: a write is *)
(* alone, and whatever is not being written is indexed.                     *)
TurnInv ==
  /\ Sequential
  /\ \A t \in Tasks : pc[t] \in Indexing => solo[t] /\ Ids \ {target[t]} \subseteq settled
  /\ (\A t \in Tasks : pc[t] \notin Indexing) => settled = Ids

LEMMA InitTurnInv == Init => TurnInv
BY DEF Init, TurnInv, Sequential, Indexing

(* The steps outside the writes.                                            *)
LEMMA OutsideTurnInv ==
  ASSUME CallInv, TurnInv, Sequential', NEW t \in Tasks, pc[t] \notin Indexing, pc'[t] \notin Indexing,
         UNCHANGED history, \A u \in Tasks \ {t} : pc'[u] = pc[u] /\ target'[u] = target[u]
  PROVE  TurnInv'
BY DEF TurnInv, history

(* A write begins when all others are idle.                                 *)
LEMMA StartTurnInv ==
  ASSUME CallInv, TurnInv, Sequential', NEW t \in Tasks, pc[t] \notin Indexing,
         NEW l \in {"fts_clear", "fts_delete"}, Goto(t, l),
         target[t] \in Ids, StartWrite(t, target[t]), UNCHANGED target
  PROVE  TurnInv'
<1>1. /\ pc'[t] = l /\ l \in Indexing /\ l # "idle"
      /\ \A u \in Tasks \ {t} : pc'[u] = pc[u]
  BY DEF Goto, Indexing, CallInv, TypeOK
<1>2. \A u \in Tasks \ {t} : pc'[u] = "idle" /\ pc[u] = "idle"
  BY <1>1 DEF Sequential
<1>3. "idle" \notin Indexing
  BY DEF Indexing
<1>4. settled = Ids /\ WritersOf(target[t]) = {}
  BY <1>2, <1>3 DEF TurnInv, WritersOf
<1>5. solo'[t] /\ settled' = Ids \ {target[t]}
  BY <1>4 DEF StartWrite
<1> QED BY <1>1, <1>2, <1>3, <1>5 DEF TurnInv

(* It ends, or was a single statement: every id is indexed.                 *)
LEMMA EndTurnInv ==
  ASSUME CallInv, TurnInv, Sequential', NEW t \in Tasks, pc'[t] = "done",
         \A u \in Tasks \ {t} : pc'[u] = pc[u], settled' = Ids
  PROVE  TurnInv'
<1>1. "idle" \notin Indexing /\ "done" \notin Indexing
  BY DEF Indexing
<1>2. \A u \in Tasks \ {t} : pc'[u] = "idle"
  BY DEF Sequential
<1>3. \A u \in Tasks : pc'[u] \notin Indexing
  BY <1>1, <1>2
<1> QED BY <1>3 DEF TurnInv

LEMMA WriteTurnInv ==
  ASSUME CallInv, TurnInv, Sequential', NEW t \in Tasks, Upsert(t) \/ DelRow(t)
  PROVE  TurnInv'
<1>1. /\ pc[t] \notin Indexing /\ target[t] \in Ids
      /\ \A u \in Tasks \ {t} : pc'[u] = pc[u]
  BY RequestFields DEF CallInv, TypeOK, CallOK, WriteOK, Upsert, DelRow, Answer, Goto, Indexing
<1>2. CASE Answer(t, "error") /\ UNCHANGED history
  BY <1>1, <1>2, OutsideTurnInv DEF CallInv, TypeOK, Answer, Goto, DropLocals, Indexing
<1>3. CASE \E l \in {"fts_clear", "fts_delete"} :
             Goto(t, l) /\ StartWrite(t, target[t]) /\ UNCHANGED target
  BY <1>1, <1>3, StartTurnInv
<1>4. CASE OneWrite(target[t]) /\ Answer(t, "ok")
  <2>1. pc'[t] = "done"
    BY <1>4 DEF Answer, Goto, CallInv, TypeOK
  <2>2. \A u \in Tasks \ {t} : pc[u] = "idle"
    BY <1>1, <2>1 DEF Sequential
  <2>3. settled = Ids
    BY <1>1, <2>2 DEF TurnInv, Indexing
  <2>4. settled' = Ids
    BY <1>1, <1>4, <2>3 DEF OneWrite
  <2> QED BY <1>1, <2>1, <2>4, EndTurnInv
<1> QED BY <1>2, <1>3, <1>4 DEF Upsert, DelRow, locals

LEMMA NextTurnInv ==
  ASSUME ~Faults, CallInv, TurnInv, [SequentialNext]_vars
  PROVE  TurnInv'
<1>1. CASE UNCHANGED vars
  BY <1>1 DEF vars, locals, history, TurnInv, Sequential
<1>2. CASE SequentialNext
  <2>0. Sequential'
    BY <1>2 DEF SequentialNext
  <2>1. PICK t \in Tasks : (\E r \in Requests : Begin(t, r)) \/ Step(t) \/ Abort(t)
    BY <1>2 DEF SequentialNext, Next
  <2>2. CASE \E r \in Requests : Begin(t, r)
    BY <2>0, <2>2, OutsideTurnInv DEF CallInv, TypeOK, Begin, Goto, Indexing
  <2>3. CASE Get(t)
    BY <2>0, <2>3, OutsideTurnInv DEF CallInv, TypeOK, Get, Goto, Answer, DropLocals, Indexing
  <2>4. CASE \E d \in Dims : Embed(t, d)
    BY <2>0, <2>4, OutsideTurnInv DEF CallInv, TypeOK, Embed, Goto, Indexing
  <2>5. CASE Search(t)
    BY <2>0, <2>5, OutsideTurnInv DEF CallInv, TypeOK, Search, Goto, Answer, DropLocals, Indexing
  <2>6. CASE Extract(t) \/ Ingest(t)
    BY <2>0, <2>6, OutsideTurnInv
    DEF CallInv, TypeOK, Extract, ExtractAdd, ExtractUpdate, Ingest, Save, Goto, Answer,
        DropLocals, Indexing
  <2>7. CASE Reply(t)
    BY <2>0, <2>7, OutsideTurnInv DEF CallInv, TypeOK, Reply, Goto, locals, Indexing
  <2>8. CASE FtsClear(t)
    <3>1. /\ pc'[t] \in Indexing /\ pc[t] \in Indexing /\ UNCHANGED <<target, solo, settled>>
          /\ \A u \in Tasks \ {t} : pc'[u] = pc[u]
      BY <2>8 DEF FtsClear, Goto, locals, history, Indexing, CallInv, TypeOK
    <3> QED BY <2>0, <3>1 DEF TurnInv
  <2>9. CASE FtsInsert(t) \/ FtsDelete(t)
    <3>1. pc[t] \in Indexing /\ pc'[t] = "done" /\ \A u \in Tasks \ {t} : pc'[u] = pc[u]
      BY <2>9 DEF FtsInsert, FtsDelete, Answer, Goto, Indexing, CallInv, TypeOK
    <3>2. settled' = settled \cup {target[t]} /\ Ids \ {target[t]} \subseteq settled
      BY <2>9, <3>1 DEF FtsInsert, FtsDelete, EndWrite, TurnInv
    <3>3. settled \subseteq Ids /\ target[t] \in Ids
      BY <3>1, IndexingTarget DEF CallInv, TypeOK
    <3> QED BY <2>0, <3>1, <3>2, <3>3, EndTurnInv
  <2>10. ~Fails(t) /\ ~Abort(t)
    BY DEF Fails, Abort
  <2> QED BY <2>0, <2>1, <2>2, <2>3, <2>4, <2>5, <2>6, <2>7, <2>8, <2>9, <2>10, WriteTurnInv
          DEF Step
<1> QED BY <1>1, <1>2

(* What upsert_fts says of the index is true of calls that wait for each     *)
(* other, as long as no statement fails and no process dies: between two     *)
(* writes the index is the table's, for every limit, mode and any number of  *)
(* ids and texts.                                                           *)
THEOREM CallsInTurnAreIndexed ==
  ASSUME ~Faults
  PROVE  SequentialSpec => []QuietLockstep
<1>1. CallInv /\ [SequentialNext]_vars => CallInv'
  BY NextCallInv DEF SequentialNext
<1>2. CallInv /\ IndexInv /\ [SequentialNext]_vars => IndexInv'
  BY NextIndexInv DEF SequentialNext
<1>3. CallInv /\ TurnInv /\ [SequentialNext]_vars => TurnInv'
  BY NextTurnInv
<1>4. IndexInv /\ TurnInv => QuietLockstep
  BY DEF IndexInv, SettledOK, TurnInv, QuietLockstep
<1> QED BY <1>1, <1>2, <1>3, <1>4, InitCallInv, InitIndexInv, InitTurnInv, PTL DEF SequentialSpec

------------------------------------------------------------------------------
(* What deduplication in raw mode keeps on libsql when calls come one after *)
(* the other: no near duplicates, although add_memory looks at SEARCH_LIMIT *)
(* rows only.  For every number of tasks, ids, users and texts, every limit *)
(* of at least one, and with faults.                                        *)

(* An exact scan, raw mode; nobody edits a memory, which is not checked for *)
(* duplicates.                                                              *)
RawAdds ==
  /\ Backend = "libsql"
  /\ Modes = {"raw"}
  /\ \A r \in Requests : r.op # "patch"

NearRows(u, v) == {j \in RowsOf(u) : NearDuplicate(memories[j], v)}

(* A row near the vector of the add is among its candidates, or one as near *)
(* took its place.                                                          *)
SeenOK(t) == pc[t] = "ingest" /\ NearRows(req[t].user, vec[t]) # {} => Duplicates(t) # {}

(* An add that goes on to save has no near duplicate.                       *)
AloneOK(t) == pc[t] = "upsert" => NearRows(mem[t].user, mem[t].vec) = {}

RawInv ==
  /\ Sequential
  /\ \A t \in Tasks :
       /\ pc[t] \notin {"get", "extract"}
       /\ pc[t] = "embed" => req[t].op = "add"
       /\ SeenOK(t) /\ AloneOK(t)
  /\ NoNearDuplicates

------------------------------------------------------------------------------
LEMMA InitRawInv == Init => RawInv
BY DEF Init, TablesInit, RawInv, Sequential, SeenOK, AloneOK, NoNearDuplicates

(* The steps that write no row, but for what they say of their own task.    *)
LEMMA ReadRawInv ==
  ASSUME CallInv, RawInv, Sequential', NEW t \in Tasks,
         memories' = memories,
         \A u \in Tasks \ {t} :
           /\ pc'[u] = pc[u] /\ req'[u] = req[u] /\ vec'[u] = vec[u]
           /\ cands'[u] = cands[u] /\ mem'[u] = mem[u],
         /\ pc'[t] \notin {"get", "extract"}
         /\ pc'[t] = "embed" => req'[t].op = "add"
         /\ SeenOK(t)' /\ AloneOK(t)'
  PROVE  RawInv'
<1>1. ASSUME NEW u \in Tasks \ {t} PROVE SeenOK(u)' /\ AloneOK(u)'
  BY <1>1 DEF RawInv, SeenOK, AloneOK, NearRows, RowsOf, Duplicates
<1>2. NoNearDuplicates'
  BY DEF RawInv, NoNearDuplicates
<1> QED BY <1>1, <1>2 DEF RawInv

LEMMA SearchSees ==
  ASSUME NEW u, NEW v, NEW S \in VectorHits(u, v), NearRows(u, v) # {}
  PROVE  \E i \in S : NearDuplicate(memories[i], v)
<1>1. PICK j \in RowsOf(u) : NearDuplicate(memories[j], v)
  BY DEF NearRows
<1>2. CASE j \in S
  BY <1>1, <1>2
<1>3. CASE j \notin S
  <2>1. S # {}
    <3>1. Cardinality({}) = 0
      BY FS_EmptySet
    <3> QED BY <1>3, <3>1, RawAssumption DEF VectorHits
  <2> QED BY <1>1, <1>3, <2>1 DEF VectorHits
<1> QED BY <1>2, <1>3

LEMMA SearchRawInv ==
  ASSUME RawAdds, CallInv, RawInv, Sequential', NEW t \in Tasks, Search(t)
  PROVE  RawInv'
<1>1. /\ memories' = memories /\ req' = req
      /\ \A u \in Tasks \ {t} : /\ pc'[u] = pc[u] /\ vec'[u] = vec[u]
                                /\ cands'[u] = cands[u] /\ mem'[u] = mem[u]
  BY DEF Search, Answer, Goto, DropLocals, CallInv, TypeOK
<1>2. CASE Answer(t, "error")
  <2>1. pc'[t] = "done"
    BY <1>2 DEF Answer, Goto, CallInv, TypeOK
  <2> QED BY <1>1, <2>1, ReadRawInv DEF SeenOK, AloneOK
<1>3. CASE /\ \E m \in Modes : Goto(t, IF m = "llm" THEN "extract" ELSE "ingest")
           /\ \E S \in Hits(req[t].user, vec[t]) :
                cands' = [cands EXCEPT ![t] =
                            [i \in Ids |-> IF i \in S THEN memories[i] ELSE NoRow]]
           /\ UNCHANGED <<vec, target, mem, res>>
  <2>1. PICK S \in VectorHits(req[t].user, vec[t]) :
          cands' = [cands EXCEPT ![t] =
                      [i \in Ids |-> IF i \in S THEN memories[i] ELSE NoRow]]
    BY <1>3 DEF Hits, RawAdds
  <2>2. pc'[t] = "ingest"
    BY <1>3 DEF Goto, RawAdds, CallInv, TypeOK
  <2>3. \A i \in S : i \in Ids /\ memories[i] # NoRow
    BY DEF VectorHits, RowsOf
  <2>4. \A i \in S : cands'[t][i] = memories[i]
    BY <2>1, <2>3 DEF CallInv, TypeOK
  <2>5. SeenOK(t)'
    <3>1. SUFFICES ASSUME NearRows(req[t].user, vec[t]) # {} PROVE Duplicates(t)' # {}
      BY <1>1, <1>3 DEF SeenOK, NearRows, RowsOf
    <3>2. PICK i \in S : NearDuplicate(memories[i], vec[t])
      BY <3>1, SearchSees
    <3>3. i \in Ids /\ cands'[t][i] = memories[i] /\ memories[i] # NoRow /\ vec' = vec
      BY <1>3, <2>3, <2>4
    <3> QED BY <3>2, <3>3 DEF Duplicates, NearDuplicate
  <2> QED BY <1>1, <2>2, <2>5, ReadRawInv DEF AloneOK
<1> QED BY <1>2, <1>3 DEF Search

LEMMA IngestRawInv ==
  ASSUME CallInv, RawInv, Sequential', NEW t \in Tasks, Ingest(t)
  PROVE  RawInv'
<1>1. /\ memories' = memories /\ req' = req /\ pc[t] = "ingest"
      /\ \A u \in Tasks \ {t} : /\ pc'[u] = pc[u] /\ vec'[u] = vec[u]
                                /\ cands'[u] = cands[u] /\ mem'[u] = mem[u]
  BY DEF Ingest, Save, Answer, Goto, DropLocals, CallInv, TypeOK
<1>2. CASE Answer(t, "noop")
  <2>1. pc'[t] = "done"
    BY <1>2 DEF Answer, Goto, CallInv, TypeOK
  <2> QED BY <1>1, <2>1, ReadRawInv DEF SeenOK, AloneOK
<1>3. CASE Duplicates(t) = {} /\ \E i \in FreshIds : Save(t, i, NewMemory(t, req[t].text))
  <2>1. pc'[t] = "upsert" /\ mem'[t] = NewMemory(t, req[t].text)
    BY <1>3 DEF Save, Goto, CallInv, TypeOK
  <2>2. mem'[t].user = req[t].user /\ mem'[t].vec = vec[t]
    BY <2>1 DEF NewMemory
  <2>3. NearRows(req[t].user, vec[t]) = {}
    BY <1>1, <1>3 DEF RawInv, SeenOK
  <2>4. AloneOK(t)'
    BY <1>1, <2>2, <2>3 DEF AloneOK, NearRows, RowsOf
  <2> QED BY <1>1, <2>1, <2>4, ReadRawInv DEF SeenOK
<1> QED BY <1>2, <1>3 DEF Ingest

(* A step of a task that does not end it finds all others idle.             *)
LEMMA OthersIdle ==
  ASSUME Sequential', NEW t \in Tasks, pc'[t] # "idle", NEW u \in Tasks, u # t
  PROVE  pc'[u] = "idle"
BY DEF Sequential

LEMMA UpsertRawInv ==
  ASSUME RawAdds, CallInv, RawInv, Sequential', NEW t \in Tasks, Upsert(t)
  PROVE  RawInv'
<1>1. /\ pc[t] = "upsert" /\ target[t] \in Ids /\ mem[t] \in Row
  BY DEF Upsert, CallInv, CallOK, WriteOK
<1>2. CASE Answer(t, "error") /\ UNCHANGED <<memories, fts, history>>
  <2>1. pc'[t] = "done"
    BY <1>2 DEF Answer, Goto, CallInv, TypeOK
  <2>2. /\ memories' = memories
        /\ \A u \in Tasks \ {t} : /\ pc'[u] = pc[u] /\ req'[u] = req[u] /\ vec'[u] = vec[u]
                                  /\ cands'[u] = cands[u] /\ mem'[u] = mem[u]
    BY <1>2 DEF Upsert, Answer, Goto, DropLocals, CallInv, TypeOK
  <2> QED BY <2>1, <2>2, ReadRawInv DEF SeenOK, AloneOK
<1>3. CASE UpsertRow(target[t], mem[t]) /\ Goto(t, "fts_clear")
  <2>1. pc'[t] = "fts_clear"
    BY <1>3 DEF Goto, CallInv, TypeOK
  <2>2. \A u \in Tasks : pc'[u] \in {"idle", "fts_clear"}
    BY <2>1, OthersIdle
  <2>3. NoNearDuplicates'
    <3> DEFINE k == target[t]
    <3>1. memories' = [memories EXCEPT ![k] = mem[t]] /\ memories \in Table
      BY <1>3 DEF UpsertRow, CallInv, TypeOK, TablesTypeOK
    <3>2. \A j \in Ids : memories[j] # NoRow /\ memories[j].user = mem[t].user
                           => ~NearDuplicate(memories[j], mem[t].vec)
      BY <1>1 DEF RawInv, AloneOK, NearRows, RowsOf
    <3>3. \A j \in Ids : memories[j] # NoRow /\ memories[j].user = mem[t].user
                           => ~NearDuplicate(mem[t], memories[j].vec)
      <4>1. \A j \in Ids : memories[j] # NoRow =>
              memories[j].vec.text \in Texts /\ mem[t].vec.text \in Texts
        BY <1>1, <3>1, RowFields DEF Table, Vector
      <4> QED BY <3>2, <4>1, RawAssumption DEF NearDuplicate
    <3>4. SUFFICES ASSUME NEW i \in Ids, NEW j \in Ids, i # j,
                          memories'[i] # NoRow, memories'[j] # NoRow,
                          memories'[i].user = memories'[j].user
                   PROVE  ~NearDuplicate(memories'[i], memories'[j].vec)
      BY DEF NoNearDuplicates, NearDuplicate
    <3>5. CASE i = k
      <4>1. memories'[i] = mem[t] /\ memories'[j] = memories[j]
        BY <1>1, <3>1, <3>4, <3>5 DEF Table
      <4> QED BY <3>3, <3>4, <4>1
    <3>6. CASE j = k
      <4>1. memories'[j] = mem[t] /\ memories'[i] = memories[i]
        BY <1>1, <3>1, <3>4, <3>6 DEF Table
      <4> QED BY <3>2, <3>4, <4>1
    <3>7. CASE i # k /\ j # k
      <4>1. memories'[i] = memories[i] /\ memories'[j] = memories[j]
        BY <3>1, <3>7 DEF Table
      <4> QED BY <3>4, <4>1 DEF RawInv, NoNearDuplicates
    <3> QED BY <3>5, <3>6, <3>7
  <2> QED BY <2>2, <2>3 DEF RawInv, SeenOK, AloneOK
<1> QED BY <1>2, <1>3 DEF Upsert, RawAdds

LEMMA DelRowRawInv ==
  ASSUME RawAdds, CallInv, RawInv, Sequential', NEW t \in Tasks, DelRow(t)
  PROVE  RawInv'
<1>1. target[t] \in Ids
  BY RequestFields DEF DelRow, CallInv, CallOK
<1>2. pc'[t] = "fts_delete" /\ memories' = [memories EXCEPT ![target[t]] = NoRow]
  BY DEF DelRow, EraseRow, Goto, CallInv, TypeOK, RawAdds
<1>3. \A u \in Tasks : pc'[u] \in {"idle", "fts_delete"}
  BY <1>2, OthersIdle
<1>4. NoNearDuplicates'
  BY <1>1, <1>2 DEF CallInv, TypeOK, TablesTypeOK, Table, RawInv, NoNearDuplicates, NearDuplicate
<1> QED BY <1>3, <1>4 DEF RawInv, SeenOK, AloneOK

LEMMA NextRawInv ==
  ASSUME RawAdds, CallInv, RawInv, [SequentialNext]_vars
  PROVE  RawInv'
<1>1. CASE UNCHANGED vars
  BY <1>1 DEF vars, locals, RawInv, Sequential, SeenOK, AloneOK, NearRows, RowsOf, Duplicates,
              NoNearDuplicates, NearDuplicate
<1>2. CASE SequentialNext
  <2>0. Sequential'
    BY <1>2 DEF SequentialNext
  <2>1. PICK t \in Tasks : (\E r \in Requests : Begin(t, r)) \/ Step(t) \/ Abort(t)
    BY <1>2 DEF SequentialNext, Next
  <2>2. ASSUME NEW r \in Requests, Begin(t, r) PROVE RawInv'
    <3>1. r.op # "patch" /\ r \in Request
      BY ServiceAssumption DEF RawAdds
    <3>2. /\ pc'[t] \in {"embed", "del_row"}
          /\ pc'[t] = "embed" => req'[t].op = "add"
          /\ memories' = memories
          /\ \A u \in Tasks \ {t} : /\ pc'[u] = pc[u] /\ req'[u] = req[u] /\ vec'[u] = vec[u]
                                    /\ cands'[u] = cands[u] /\ mem'[u] = mem[u]
      BY <2>2, <3>1, RequestFields DEF Begin, Goto, CallInv, TypeOK
    <3> QED BY <2>0, <3>2, ReadRawInv DEF SeenOK, AloneOK
  <2>3. ~Get(t) /\ ~Extract(t)
    BY DEF RawInv, Get, Extract, ExtractAdd, ExtractUpdate
  <2>4. ASSUME NEW d \in Dims, Embed(t, d) PROVE RawInv'
    <3>1. req[t].op = "add"
      BY <2>4 DEF RawInv, Embed
    <3>2. /\ pc'[t] = "search" /\ memories' = memories
          /\ \A u \in Tasks \ {t} : /\ pc'[u] = pc[u] /\ req'[u] = req[u] /\ vec'[u] = vec[u]
                                    /\ cands'[u] = cands[u] /\ mem'[u] = mem[u]
      BY <2>4, <3>1 DEF Embed, Goto, CallInv, TypeOK
    <3> QED BY <2>0, <3>2, ReadRawInv DEF SeenOK, AloneOK
  <2>5. CASE FtsClear(t) \/ FtsInsert(t) \/ FtsDelete(t) \/ Fails(t) \/ Reply(t) \/ Abort(t)
    <3>1. /\ pc'[t] \in {"fts_insert", "done", "idle"} /\ memories' = memories
          /\ \A u \in Tasks \ {t} : /\ pc'[u] = pc[u] /\ req'[u] = req[u] /\ vec'[u] = vec[u]
                                    /\ cands'[u] = cands[u] /\ mem'[u] = mem[u]
      BY <2>5 DEF FtsClear, FtsInsert, FtsDelete, ClearIndex, AppendIndex, Fails, Reply, Abort,
                  Answer, Goto, DropLocals, locals, CallInv, TypeOK
    <3> QED BY <2>0, <3>1, ReadRawInv DEF SeenOK, AloneOK
  <2> QED BY <2>0, <2>1, <2>2, <2>3, <2>4, <2>5, SearchRawInv, IngestRawInv, UpsertRawInv,
             DelRowRawInv
          DEF Step
<1> QED BY <1>1, <1>2

(* "skip exact duplicates": one raw add after the other, with deletes in     *)
(* between and statements that fail, never stores two memories of a user     *)
(* that are near duplicates of each other, whatever the limit of the search. *)
THEOREM RawAddsDeduplicate ==
  ASSUME RawAdds
  PROVE  SequentialSpec => []NoNearDuplicates
<1>1. CallInv /\ [SequentialNext]_vars => CallInv'
  BY NextCallInv DEF SequentialNext
<1>2. CallInv /\ RawInv /\ [SequentialNext]_vars => RawInv'
  BY NextRawInv
<1>3. RawInv => NoNearDuplicates
  BY DEF RawInv
<1> QED BY <1>1, <1>2, <1>3, InitCallInv, InitRawInv, PTL DEF SequentialSpec

------------------------------------------------------------------------------
(* What deduplication keeps when calls overlap, in both modes, on both      *)
(* backends, with patches, failures and deaths.                             *)

(* A raw add that searched libsql has among its candidates a row near its   *)
(* vector, when there is one at an id nobody has stored at since.           *)
LookedOK(t) ==
  pc[t] = "ingest" /\ NearRows(req[t].user, vec[t]) \cap seen[t] # {} => Duplicates(t) # {}

(* One that goes on to save has near duplicates only where others stored    *)
(* since its search.                                                        *)
FoundOK(t) == pc[t] = "upsert" => NearRows(mem[t].user, mem[t].vec) \cap seen[t] = {}

OverlapInv ==
  /\ OverlapTypeOK
  /\ \A t \in Tasks : /\ LookedOK(t) /\ FoundOK(t)
                      /\ ~Holds(t) => seen[t] = {}
  /\ DuplicatesUnchecked

------------------------------------------------------------------------------
LEMMA InitOverlapInv == OverlapInit => OverlapInv
BY DEF OverlapInit, OverlapInv, OverlapTypeOK, LookedOK, FoundOK, Holds, DuplicatesUnchecked,
       Init, TablesInit

(* A step of one task leaves the registers of the others alone.             *)
LEMMA OthersKept ==
  ASSUME CallInv, NEW t \in Tasks,
         (\E r \in Requests : Begin(t, r)) \/ Step(t) \/ Abort(t),
         NEW u \in Tasks, u # t
  PROVE  /\ pc'[u] = pc[u] /\ req'[u] = req[u] /\ vec'[u] = vec[u]
         /\ cands'[u] = cands[u] /\ mem'[u] = mem[u]
<1> USE DEF CallInv, TypeOK, locals
<1>1. CASE \E r \in Requests : Begin(t, r)
  BY <1>1 DEF Begin, Goto
<1>2. CASE Get(t)
  BY <1>2 DEF Get, Answer, Goto, DropLocals
<1>3. ASSUME NEW d \in Dims, Embed(t, d)
      PROVE  /\ pc'[u] = pc[u] /\ req'[u] = req[u] /\ vec'[u] = vec[u]
             /\ cands'[u] = cands[u] /\ mem'[u] = mem[u]
  BY <1>3 DEF Embed, Goto
<1>4. CASE Search(t)
  BY <1>4 DEF Search, Answer, Goto, DropLocals
<1>5. CASE Extract(t)
  BY <1>5 DEF Extract, ExtractAdd, ExtractUpdate, Save, Answer, Goto, DropLocals
<1>6. CASE Ingest(t)
  BY <1>6 DEF Ingest, Save, Answer, Goto, DropLocals
<1>7. CASE Upsert(t)
  BY <1>7 DEF Upsert, Answer, Goto, DropLocals
<1>8. CASE DelRow(t)
  BY <1>8 DEF DelRow, Answer, Goto, DropLocals
<1>9. CASE FtsClear(t) \/ FtsInsert(t) \/ FtsDelete(t) \/ Fails(t) \/ Reply(t) \/ Abort(t)
  BY <1>9 DEF FtsClear, FtsInsert, FtsDelete, Fails, Reply, Abort, Answer, Goto, DropLocals
<1> QED BY <1>1, <1>2, <1>3, <1>4, <1>5, <1>6, <1>7, <1>8, <1>9 DEF Step

(* What the history of a step says by itself.                               *)
LEMMA ObserveKeeps ==
  ASSUME OverlapInv, Observe
  PROVE  /\ OverlapTypeOK'
         /\ unchecked \subseteq unchecked'
         /\ \A u \in Tasks : ~Holds(u)' => seen'[u] = {}
         /\ \A u \in Tasks : ~Searched(u) => seen'[u] \subseteq seen[u] \ Stored
<1>1. \A u \in Tasks : Searched(u) => Holds(u)'
  BY DEF Searched, Holds
<1>2. \A u \in Tasks : seen'[u] = IF Searched(u) THEN Ids
                                  ELSE IF Holds(u)' THEN seen[u] \ Stored ELSE {}
  BY DEF Observe
<1>3. Stored \subseteq Ids
  BY DEF Stored
<1>4. seen' \in [Tasks -> SUBSET Ids]
  BY <1>3 DEF Observe, OverlapInv, OverlapTypeOK
<1>5. unchecked' \subseteq Ids \X Ids
  BY <1>3 DEF Observe, OverlapInv, OverlapTypeOK
<1> QED BY <1>1, <1>2, <1>4, <1>5 DEF Observe, OverlapTypeOK

(* A step that stores nothing: what it must show of its own task.           *)
LEMMA NothingStored ==
  ASSUME OverlapInv, Observe, NEW t \in Tasks,
         \A i \in Ids : memories'[i] \in {memories[i], NoRow},
         \A u \in Tasks \ {t} :
           /\ pc'[u] = pc[u] /\ req'[u] = req[u] /\ vec'[u] = vec[u]
           /\ cands'[u] = cands[u] /\ mem'[u] = mem[u],
         LookedOK(t)' /\ FoundOK(t)'
  PROVE  OverlapInv'
<1>1. \A u, v : NearRows(u, v)' \subseteq NearRows(u, v)
  BY DEF NearRows, RowsOf
<1>2. ASSUME NEW u \in Tasks \ {t} PROVE LookedOK(u)' /\ FoundOK(u)'
  <2>1. ~Searched(u)
    BY <1>2 DEF Searched
  <2>2. seen'[u] \subseteq seen[u]
    BY <2>1, ObserveKeeps
  <2>3. Duplicates(u)' = Duplicates(u)
    BY <1>2 DEF Duplicates
  <2> QED BY <1>1, <1>2, <2>2, <2>3 DEF OverlapInv, LookedOK, FoundOK
<1>3. DuplicatesUnchecked'
  <2>1. \A i \in Ids : memories'[i] # NoRow => memories'[i] = memories[i]
    OBVIOUS
  <2>2. unchecked \subseteq unchecked'
    BY ObserveKeeps
  <2> QED BY <2>1, <2>2 DEF OverlapInv, DuplicatesUnchecked, NearDuplicate
<1> QED BY <1>2, <1>3, ObserveKeeps DEF OverlapInv

LEMMA SearchOverlapInv ==
  ASSUME CallInv, OverlapInv, Observe, NEW t \in Tasks, Search(t)
  PROVE  OverlapInv'
<1>1. /\ memories' = memories /\ req' = req /\ pc[t] = "search"
      /\ \A u \in Tasks \ {t} : /\ pc'[u] = pc[u] /\ vec'[u] = vec[u]
                                /\ cands'[u] = cands[u] /\ mem'[u] = mem[u]
  BY OthersKept DEF Search, Step
<1>2. pc'[t] # "upsert"
  BY DEF Search, Answer, Goto, CallInv, TypeOK
<1>3. CASE pc'[t] # "ingest"
  BY <1>1, <1>2, <1>3, NothingStored DEF LookedOK, FoundOK
<1>4. CASE pc'[t] = "ingest" /\ Backend = "postgres"
  <2>1. seen'[t] = {}
    BY <1>1, <1>4, ObserveKeeps DEF Searched, OverlapInv, Holds
  <2> QED BY <1>1, <1>2, <2>1, NothingStored DEF LookedOK, FoundOK
<1>5. CASE pc'[t] = "ingest" /\ Backend = "libsql"
  <2>1. PICK S \in VectorHits(req[t].user, vec[t]) :
          /\ cands' = [cands EXCEPT ![t] =
                         [i \in Ids |-> IF i \in S THEN memories[i] ELSE NoRow]]
          /\ vec' = vec
    BY <1>5 DEF Search, Answer, Goto, Hits, CallInv, TypeOK
  <2>2. \A i \in S : i \in Ids /\ memories[i] # NoRow
    BY DEF VectorHits, RowsOf
  <2>3. \A i \in S : cands'[t][i] = memories[i]
    BY <2>1, <2>2 DEF CallInv, TypeOK
  <2>4. LookedOK(t)'
    <3>1. SUFFICES ASSUME NearRows(req[t].user, vec[t]) # {} PROVE Duplicates(t)' # {}
      BY <1>1, <2>1 DEF LookedOK, NearRows, RowsOf
    <3>2. PICK i \in S : NearDuplicate(memories[i], vec[t])
      BY <3>1, SearchSees
    <3> QED BY <2>1, <2>2, <2>3, <3>2 DEF Duplicates, NearDuplicate
  <2> QED BY <1>1, <1>2, <2>4, NothingStored DEF FoundOK
<1> QED BY <1>3, <1>4, <1>5, ServiceAssumption

LEMMA IngestOverlapInv ==
  ASSUME CallInv, OverlapInv, Observe, NEW t \in Tasks, Ingest(t)
  PROVE  OverlapInv'
<1>1. /\ memories' = memories /\ req' = req /\ pc[t] = "ingest"
      /\ \A u \in Tasks \ {t} : /\ pc'[u] = pc[u] /\ vec'[u] = vec[u]
                                /\ cands'[u] = cands[u] /\ mem'[u] = mem[u]
  BY OthersKept DEF Ingest, Step
<1>2. CASE Answer(t, "noop")
  <2>1. pc'[t] = "done"
    BY <1>2 DEF Answer, Goto, CallInv, TypeOK
  <2> QED BY <1>1, <2>1, NothingStored DEF LookedOK, FoundOK
<1>3. CASE Duplicates(t) = {} /\ \E i \in FreshIds : Save(t, i, NewMemory(t, req[t].text))
  <2>1. pc'[t] = "upsert" /\ mem'[t] = NewMemory(t, req[t].text)
    BY <1>3 DEF Save, Goto, CallInv, TypeOK
  <2>2. mem'[t].user = req[t].user /\ mem'[t].vec = vec[t]
    BY <2>1 DEF NewMemory
  <2>3. NearRows(req[t].user, vec[t]) \cap seen[t] = {}
    BY <1>1, <1>3 DEF OverlapInv, LookedOK
  <2>4. seen'[t] \subseteq seen[t]
    BY <1>1, ObserveKeeps DEF Searched
  <2>5. FoundOK(t)'
    BY <1>1, <2>2, <2>3, <2>4 DEF FoundOK, NearRows, RowsOf
  <2> QED BY <1>1, <2>1, <2>5, NothingStored DEF LookedOK
<1> QED BY <1>2, <1>3 DEF Ingest

(* A task that searched for nothing has no duplicates to miss.              *)
LEMMA UncheckedOverlapInv ==
  ASSUME CallInv, OverlapInv, Observe, NEW t \in Tasks,
         Step(t), memories' = memories, pc[t] \in {"get", "embed", "extract"}
  PROVE  OverlapInv'
<1>1. \A u \in Tasks \ {t} :
        /\ pc'[u] = pc[u] /\ req'[u] = req[u] /\ vec'[u] = vec[u]
        /\ cands'[u] = cands[u] /\ mem'[u] = mem[u]
  BY OthersKept
<1>2. seen'[t] = {}
  BY ObserveKeeps DEF Searched, OverlapInv, Holds
<1> QED BY <1>1, <1>2, NothingStored DEF LookedOK, FoundOK

LEMMA UpsertOverlapInv ==
  ASSUME CallInv, OverlapInv, Observe, NEW t \in Tasks, Upsert(t)
  PROVE  OverlapInv'
<1> DEFINE k == target[t]
<1>1. /\ pc[t] = "upsert" /\ k \in Ids /\ mem[t] \in Row /\ mem[t] # NoRow
  BY RowFields DEF Upsert, CallInv, CallOK, WriteOK
<1>2. pc'[t] \in {"done", "fts_clear"}
  BY DEF Upsert, Answer, Goto, CallInv, TypeOK
<1>3. \A u \in Tasks \ {t} :
        /\ pc'[u] = pc[u] /\ req'[u] = req[u] /\ vec'[u] = vec[u]
        /\ cands'[u] = cands[u] /\ mem'[u] = mem[u]
  BY OthersKept DEF Step
<1>4. LookedOK(t)' /\ FoundOK(t)'
  BY <1>2 DEF LookedOK, FoundOK
<1>5. CASE memories' = memories
  BY <1>3, <1>4, <1>5, NothingStored
<1>6. CASE memories' # memories
  <2>1. memories' = [memories EXCEPT ![k] = mem[t]] /\ memories \in Table
    BY <1>6 DEF Upsert, UpsertRow, PgUpsert, CallInv, TypeOK, TablesTypeOK
  <2>2. memories'[k] = mem[t] /\ \A i \in Ids \ {k} : memories'[i] = memories[i]
    BY <1>1, <2>1 DEF Table
  <2>3. memories[k] # mem[t]
    BY <1>6, <2>1 DEF Table
  <2>4. Stored = {k}
    BY <1>1, <2>2, <2>3 DEF Stored
  <2>5. t \in Storing
    BY <1>1, <1>2 DEF Storing
  <2>6. \A j \in Ids \ seen[t] : <<k, j>> \in unchecked'
    BY <2>4, <2>5 DEF Observe
  <2>7. ASSUME NEW u \in Tasks \ {t} PROVE LookedOK(u)' /\ FoundOK(u)'
    <3>1. seen'[u] \subseteq seen[u] \ {k}
      BY <1>3, <2>4, <2>7, ObserveKeeps DEF Searched
    <3>2. Duplicates(u)' = Duplicates(u)
      BY <1>3, <2>7 DEF Duplicates
    <3>3. \A x, v : NearRows(x, v)' \subseteq NearRows(x, v) \cup {k}
      BY <2>2 DEF NearRows, RowsOf
    <3> QED BY <1>3, <2>7, <3>1, <3>2, <3>3 DEF OverlapInv, LookedOK, FoundOK
  <2>8. DuplicatesUnchecked'
    <3>1. \A j \in Ids : memories[j] # NoRow /\ memories[j].user = mem[t].user
                           /\ NearDuplicate(memories[j], mem[t].vec) => <<k, j>> \in unchecked'
      BY <1>1, <2>6 DEF OverlapInv, FoundOK, NearRows, RowsOf
    <3>2. \A j \in Ids : memories[j] # NoRow /\ memories[j].user = mem[t].user
                           /\ NearDuplicate(mem[t], memories[j].vec) => <<k, j>> \in unchecked'
      <4>1. \A j \in Ids : memories[j] # NoRow =>
              memories[j].vec.text \in Texts /\ mem[t].vec.text \in Texts
        BY <1>1, <2>1, RowFields DEF Table, Vector
      <4> QED BY <3>1, <4>1, RawAssumption DEF NearDuplicate
    <3>3. SUFFICES ASSUME NEW i \in Ids, NEW j \in Ids, i # j,
                          memories'[i] # NoRow, memories'[j] # NoRow,
                          memories'[i].user = memories'[j].user,
                          NearDuplicate(memories'[i], memories'[j].vec)
                   PROVE  <<i, j>> \in unchecked' \/ <<j, i>> \in unchecked'
      BY DEF DuplicatesUnchecked, NearDuplicate
    <3>4. CASE i = k
      BY <2>2, <3>2, <3>3, <3>4
    <3>5. CASE j = k
      BY <2>2, <3>1, <3>3, <3>5
    <3>6. CASE i # k /\ j # k
      <4>1. memories'[i] = memories[i] /\ memories'[j] = memories[j]
        BY <2>2, <3>6
      <4>2. unchecked \subseteq unchecked'
        BY ObserveKeeps
      <4> QED BY <3>3, <4>1, <4>2 DEF OverlapInv, DuplicatesUnchecked
    <3> QED BY <3>4, <3>5, <3>6
  <2> QED BY <1>4, <2>7, <2>8, ObserveKeeps DEF OverlapInv
<1> QED BY <1>5, <1>6

LEMMA NextOverlapInv ==
  ASSUME CallInv, OverlapInv, [OverlapNext]_<<vars, overlap>>
  PROVE  OverlapInv'
<1>1. CASE UNCHANGED <<vars, overlap>>
  BY <1>1 DEF vars, locals, overlap, OverlapInv, OverlapTypeOK, LookedOK, FoundOK, Holds,
              NearRows, RowsOf, Duplicates, DuplicatesUnchecked, NearDuplicate
<1>2. CASE OverlapNext
  <2>0. Observe
    BY <1>2 DEF OverlapNext
  <2>1. PICK t \in Tasks : (\E r \in Requests : Begin(t, r)) \/ Step(t) \/ Abort(t)
    BY <1>2 DEF OverlapNext, Next
  <2>2. \A u \in Tasks \ {t} :
          /\ pc'[u] = pc[u] /\ req'[u] = req[u] /\ vec'[u] = vec[u]
          /\ cands'[u] = cands[u] /\ mem'[u] = mem[u]
    BY <2>1, OthersKept
  <2>3. CASE Get(t) \/ (\E d \in Dims : Embed(t, d)) \/ Extract(t)
    <3>1. memories' = memories /\ pc[t] \in {"get", "embed", "extract"} /\ Step(t)
      BY <2>3 DEF Get, Embed, Extract, ExtractAdd, ExtractUpdate, Step
    <3> QED BY <2>0, <3>1, UncheckedOverlapInv
  <2>4. CASE \/ \E r \in Requests : Begin(t, r)
             \/ FtsClear(t) \/ FtsInsert(t) \/ DelRow(t) \/ FtsDelete(t)
             \/ Fails(t) \/ Reply(t) \/ Abort(t)
    <3>1. \A i \in Ids : memories'[i] \in {memories[i], NoRow}
      BY <2>4 DEF Begin, FtsClear, FtsInsert, DelRow, FtsDelete, ClearIndex, AppendIndex, EraseRow,
                  PgErase, Fails, Reply, Abort, CallInv, TypeOK, TablesTypeOK, Table
    <3>2. pc'[t] \notin {"ingest", "upsert"}
      BY <2>4 DEF Begin, FtsClear, FtsInsert, DelRow, FtsDelete, Fails, Reply, Abort, Answer, Goto,
                  CallInv, TypeOK
    <3> QED BY <2>0, <2>2, <3>1, <3>2, NothingStored DEF LookedOK, FoundOK
  <2> QED BY <2>0, <2>1, <2>3, <2>4, SearchOverlapInv, IngestOverlapInv, UpsertOverlapInv DEF Step
<1> QED BY <1>1, <1>2

(* Near duplicates come of writes that are not checked only: a raw add on    *)
(* libsql never stores a near duplicate of a memory that was there when it  *)
(* searched, whatever overlaps it, and whatever else writes the table.      *)
THEOREM DuplicatesAreUnchecked == OverlapSpec => []DuplicatesUnchecked
<1>1. CallInv /\ [OverlapNext]_<<vars, overlap>> => CallInv'
  BY NextCallInv DEF OverlapNext, vars
<1>2. CallInv /\ OverlapInv /\ [OverlapNext]_<<vars, overlap>> => OverlapInv'
  BY NextOverlapInv
<1>3. OverlapInit => CallInv /\ OverlapInv
  BY InitCallInv, InitOverlapInv DEF OverlapInit
<1>4. OverlapInv => DuplicatesUnchecked
  BY DEF OverlapInv
<1> QED BY <1>1, <1>2, <1>3, <1>4, PTL DEF OverlapSpec

------------------------------------------------------------------------------
(* MemoryService implements AtomicStore: every step of a task is a step of   *)
(* AtomicStore or leaves its state unchanged.                               *)
Phase == [t \in Tasks |-> PhaseOf(t)]

LEMMA PhaseStep ==
  ASSUME NEW t \in Tasks, \A u \in Tasks \ {t} : pc'[u] = pc[u] /\ res'[u] = res[u]
  PROVE  Phase' = [Phase EXCEPT ![t] = PhaseOf(t)']
<1>1. \A u \in Tasks \ {t} : PhaseOf(u)' = PhaseOf(u)
  BY DEF PhaseOf
<1> QED BY <1>1 DEF Phase

LEMMA InitAtomic == Init => Atomic!Init
BY DEF Init, TablesInit, Atomic!Init, PhaseOf, Labels, Working, Indexing

(* A step between the acceptance of a call and its effect, or between its   *)
(* effect and its answer.                                                   *)
LEMMA Stutter ==
  ASSUME CallInv, CallInv', NEW t \in Tasks,
         \A u \in Tasks \ {t} : pc'[u] = pc[u], UNCHANGED <<memories, creator, req, res>>,
         \/ pc[t] \in Working /\ pc'[t] \in Working
         \/ pc[t] \in Indexing /\ pc'[t] \in Indexing
  PROVE  UNCHANGED Atomic!vars
<1>1. PhaseOf(t)' = PhaseOf(t)
  BY DEF PhaseOf, Working, Indexing
<1>2. \A u \in Tasks : PhaseOf(u)' = PhaseOf(u)
  BY <1>1 DEF PhaseOf
<1> QED BY <1>2 DEF Atomic!vars

(* An answer given without a change of the table.                           *)
LEMMA Concludes ==
  ASSUME CallInv, CallInv', NEW t \in Tasks, NEW a \in {"ok", "noop", "not_found", "error"},
         Answer(t, a), UNCHANGED <<memories, creator, req>>,
         \/ pc[t] \in Working /\ a # "ok"
         \/ pc[t] \in Indexing /\ a \in {"ok", "error"}
  PROVE  Atomic!Conclude(t)
<1>1. \A u \in Tasks \ {t} : pc'[u] = pc[u] /\ res'[u] = res[u]
  BY DEF CallInv, TypeOK, Answer, Goto
<1>2. pc'[t] = "done" /\ res'[t] = a
  BY DEF CallInv, TypeOK, Answer, Goto
<1>3. PhaseOf(t)' = IF a = "ok" THEN "ok" ELSE IF a = "error" THEN "failed" ELSE "skipped"
  BY <1>2 DEF PhaseOf, Working, Indexing
<1>4. Phase[t] = IF pc[t] \in Working THEN "open" ELSE "applied"
  BY DEF Phase, PhaseOf, Working, Indexing
<1>5. Phase' = [Phase EXCEPT ![t] = PhaseOf(t)']
  BY <1>1, PhaseStep
<1> QED BY <1>3, <1>4, <1>5 DEF Atomic!Conclude, Atomic!Move, Phase, Working, Indexing

LEMMA BeginRefines ==
  ASSUME CallInv, NEW t \in Tasks, NEW r \in Requests, Begin(t, r)
  PROVE  Atomic!Accept(t, r)
<1>1. \A u \in Tasks \ {t} : pc'[u] = pc[u] /\ res'[u] = res[u]
  BY DEF CallInv, TypeOK, Begin, Goto
<1>2. pc[t] = "idle" /\ pc'[t] \in Working
  <2>1. \E l \in Working : Goto(t, l)
    BY DEF Begin, Working
  <2> QED BY <2>1 DEF CallInv, TypeOK, Begin, Goto
<1>3. Phase[t] = "idle" /\ PhaseOf(t)' = "open"
  BY <1>2 DEF Phase, PhaseOf, Working, Indexing
<1>4. Phase' = [Phase EXCEPT ![t] = PhaseOf(t)']
  BY <1>1, PhaseStep
<1> QED BY <1>3, <1>4 DEF Begin, history, Atomic!Accept, Atomic!Move, Phase

LEMMA UpsertRefines ==
  ASSUME CallInv, CallInv', NEW t \in Tasks, Upsert(t)
  PROVE  Atomic!Next
<1> PICK i, r : i = target[t] /\ r = mem[t]
  OBVIOUS
<1>1. /\ pc[t] = "upsert" /\ pc[t] \in Working /\ req' = req
      /\ i \in Ids /\ r \in Row /\ creator[i] \in {NoUser, r.user}
      /\ \/ req[t].op = "add" /\ r.user = req[t].user /\ r.meta = req[t].meta
         \/ /\ req[t].op = "patch" /\ i = req[t].id
            /\ r.content = req[t].text /\ creator[i] = r.user
  BY DEF CallInv, CallOK, WriteOK, Upsert, Working
<1>2. CASE Answer(t, "error") /\ UNCHANGED <<memories, fts, history>>
  <2>1. Atomic!Conclude(t)
    BY <1>1, <1>2, Concludes DEF history
  <2> QED BY <2>1 DEF Atomic!Next
<1>3. CASE /\ DimMatches(r.vec)
           /\ creator' = [creator EXCEPT ![i] = IF @ = NoUser THEN r.user ELSE @]
           /\ memories' = [memories EXCEPT ![i] = r]
           /\ \A u \in Tasks \ {t} : pc'[u] = pc[u] /\ res'[u] = res[u]
           /\ \/ pc'[t] = "fts_clear"
              \/ pc'[t] = "done" /\ res'[t] = "ok"
  <2>1. Phase[t] = "open" /\ PhaseOf(t)' \in {"applied", "ok"}
    BY <1>1, <1>3 DEF Phase, PhaseOf, Working, Indexing
  <2>2. Phase' = [Phase EXCEPT ![t] = PhaseOf(t)']
    BY <1>3, PhaseStep
  <2>3. creator' = [creator EXCEPT ![i] = r.user]
    BY <1>1, <1>3 DEF CallInv, TypeOK
  <2>4. Atomic!Allows(req[t], i, r)
    BY <1>1, <1>3 DEF Atomic!Allows, DimMatches
  <2>5. Atomic!Move(t, {"open"}, {"applied", "ok"})
    BY <2>1, <2>2 DEF Atomic!Move, Phase
  <2>6. Atomic!Put(t, i, r)
    BY <1>1, <1>3, <2>3, <2>4, <2>5 DEF Atomic!Put
  <2> QED BY <1>1, <2>6 DEF Atomic!Next
<1>4. CASE ~(Answer(t, "error") /\ UNCHANGED <<memories, fts, history>>)
  <2>1. /\ DimMatches(r.vec)
        /\ creator' = [creator EXCEPT ![i] = IF @ = NoUser THEN r.user ELSE @]
        /\ memories' = [memories EXCEPT ![i] = r]
    BY <1>4 DEF Upsert, UpsertRow, PgUpsert
  <2>2. /\ \A u \in Tasks \ {t} : pc'[u] = pc[u] /\ res'[u] = res[u]
        /\ \/ pc'[t] = "fts_clear"
           \/ pc'[t] = "done" /\ res'[t] = "ok"
    BY <1>4 DEF CallInv, TypeOK, Upsert, Answer, Goto
  <2> QED BY <1>3, <2>1, <2>2
<1> QED BY <1>2, <1>4

LEMMA DelRowRefines ==
  ASSUME CallInv, NEW t \in Tasks, DelRow(t)
  PROVE  Atomic!Remove(t)
<1>1. /\ pc[t] \in Working /\ UNCHANGED <<req, creator>>
      /\ req[t].op = "delete" /\ target[t] = req[t].id
  BY DEF CallInv, CallOK, DelRow, Working
<1>2. memories' = [memories EXCEPT ![req[t].id] = NoRow]
  BY <1>1 DEF DelRow, EraseRow, PgErase
<1>3. /\ \A u \in Tasks \ {t} : pc'[u] = pc[u] /\ res'[u] = res[u]
      /\ \/ pc'[t] = "fts_delete"
         \/ pc'[t] = "done" /\ res'[t] = "ok"
  BY DEF CallInv, TypeOK, DelRow, Answer, Goto
<1>4. Phase[t] = "open" /\ PhaseOf(t)' \in {"applied", "ok"}
  BY <1>1, <1>3 DEF Phase, PhaseOf, Working, Indexing
<1>5. Phase' = [Phase EXCEPT ![t] = PhaseOf(t)']
  BY <1>3, PhaseStep
<1> QED BY <1>1, <1>2, <1>4, <1>5 DEF Atomic!Remove, Atomic!Move, Phase

LEMMA LeaveRefines ==
  ASSUME CallInv, NEW t \in Tasks, Reply(t) \/ Abort(t)
  PROVE  Atomic!Leave(t)
<1>1. /\ \A u \in Tasks \ {t} : pc'[u] = pc[u] /\ res'[u] = res[u]
      /\ pc[t] # "idle" /\ pc'[t] = "idle"
      /\ UNCHANGED <<memories, creator>> /\ req' = [req EXCEPT ![t] = NoRequest]
  BY DEF CallInv, TypeOK, Reply, Abort, Goto, history
<1>2. Phase[t] \in Atomic!Phases \ {"idle"} /\ PhaseOf(t)' = "idle"
  BY <1>1 DEF CallInv, TypeOK, Phase, PhaseOf, Labels, Working, Indexing, Atomic!Phases
<1>3. Phase' = [Phase EXCEPT ![t] = PhaseOf(t)']
  BY <1>1, PhaseStep
<1> QED BY <1>1, <1>2, <1>3 DEF Atomic!Leave, Atomic!Move, Phase

LEMMA NextRefines ==
  CallInv /\ CallInv' /\ [Next]_vars => [Atomic!Next]_(Atomic!vars)
<1> SUFFICES ASSUME CallInv, CallInv', [Next]_vars PROVE Atomic!Next \/ UNCHANGED Atomic!vars
  OBVIOUS
<1>1. CASE UNCHANGED vars
  <2>1. Phase' = Phase
    BY <1>1 DEF vars, Phase, PhaseOf
  <2> QED BY <1>1, <2>1 DEF vars, history, Atomic!vars, Phase
<1>2. CASE Next
  <2>1. PICK t \in Tasks : (\E r \in Requests : Begin(t, r)) \/ Step(t) \/ Abort(t)
    BY <1>2 DEF Next
  <2> SUFFICES \/ \E r \in Requests : Atomic!Accept(t, r)
               \/ Atomic!Next
               \/ Atomic!Remove(t) \/ Atomic!Conclude(t) \/ Atomic!Leave(t)
               \/ UNCHANGED Atomic!vars
    BY DEF Atomic!Next
  <2>2. CASE \E r \in Requests : Begin(t, r)
    BY <2>2, BeginRefines
  <2>3. CASE Get(t)
    BY <2>3, Stutter, Concludes DEF CallInv, TypeOK, Get, Goto, history, Working
  <2>4. CASE \E d \in Dims : Embed(t, d)
    BY <2>4, Stutter DEF CallInv, TypeOK, Embed, Goto, history, Working
  <2>5. CASE Search(t)
    BY <2>5, Stutter, Concludes DEF CallInv, TypeOK, Search, Goto, history, Working
  <2>6. CASE Extract(t) \/ Ingest(t)
    BY <2>6, Stutter, Concludes
    DEF CallInv, TypeOK, Extract, ExtractAdd, ExtractUpdate, Ingest, Save, Goto, history, Working
  <2>7. CASE FtsClear(t)
    BY <2>7, Stutter
    DEF CallInv, TypeOK, FtsClear, ClearIndex, Goto, history, Indexing
  <2>8. CASE FtsInsert(t) \/ FtsDelete(t)
    BY <2>8, Concludes DEF FtsInsert, FtsDelete, AppendIndex, ClearIndex, EndWrite, Indexing
  <2>9. CASE Fails(t)
    BY <2>9, Concludes DEF Fails, history
  <2> QED BY <2>1, <2>2, <2>3, <2>4, <2>5, <2>6, <2>7, <2>8, <2>9, UpsertRefines,
             DelRowRefines, LeaveRefines
          DEF Step
<1> QED BY <1>1, <1>2

(* Whatever calls overlap, fail or die, each changes the memories table at  *)
(* most once, in one step, before its answer, and only as its request       *)
(* allows: an add only rows of its user, a patch only the row it names.     *)
THEOREM CallsAreAtomic == Spec => ImplementsAtomicStore
BY InitAtomic, NextRefines, CallInvariant, PTL DEF Spec, ImplementsAtomicStore, Atomic!Spec

------------------------------------------------------------------------------
(* The store never holds vectors of two dimensions: the check in            *)
(* save_memory is enough, whatever dimensions the embedder returns.         *)
THEOREM DimIsUniform == Spec => []DimUniform
<1>1. Init => DimUniform
  BY DEF Init, TablesInit, DimUniform
<1>2. CallInv /\ DimUniform /\ [Next]_vars => DimUniform'
  <2> SUFFICES ASSUME CallInv, DimUniform, [Next]_vars, UNCHANGED memories \/ Next
               PROVE  DimUniform'
    BY DEF vars
  <2>1. CASE UNCHANGED memories
    BY <2>1 DEF DimUniform, DimMatches
  <2>2. CASE \E t \in Tasks : Upsert(t) /\ ~UNCHANGED memories
    <3>1. PICK t \in Tasks : Upsert(t) /\ ~UNCHANGED memories
      BY <2>2
    <3>2. DimMatches(mem[t].vec) /\ memories' = [memories EXCEPT ![target[t]] = mem[t]]
      BY <3>1 DEF Upsert, UpsertRow, PgUpsert
    <3> QED BY <3>2 DEF CallInv, TypeOK, TablesTypeOK, Table, DimUniform, DimMatches
  <2>3. CASE \E t \in Tasks : DelRow(t)
    <3>1. PICK t \in Tasks : memories' = [memories EXCEPT ![target[t]] = NoRow]
      BY <2>3 DEF DelRow, EraseRow, PgErase
    <3> QED BY <3>1 DEF CallInv, TypeOK, TablesTypeOK, Table, DimUniform, DimMatches
  <2> QED BY <2>1, <2>2, <2>3
          DEF Next, Step, Begin, Get, Embed, Search, Extract, ExtractAdd, ExtractUpdate, Ingest,
              FtsClear, FtsInsert, FtsDelete, Fails, Reply, Abort, ClearIndex, AppendIndex
<1> QED BY <1>1, <1>2, CallInvariant, PTL DEF Spec
------------------------------------------------------------------------------
(* What keeps a call from going on for ever: the number of steps that it may *)
(* still take, at each label.                                               *)
StepsLeft(l) ==
  CASE l = "get" -> 8
    [] l = "embed" -> 7
    [] l = "search" -> 6
    [] l \in {"extract", "ingest"} -> 5
    [] l = "upsert" -> 4
    [] l \in {"fts_clear", "del_row"} -> 3
    [] l \in {"fts_insert", "fts_delete"} -> 2
    [] l = "done" -> 1
    [] l = "idle" -> 0

LEMMA StepAdvances ==
  ASSUME CallInv, NEW t \in Tasks, Step(t)
  PROVE  StepsLeft(pc'[t]) < StepsLeft(pc[t])
<1> USE DEF CallInv, TypeOK, Answer, Goto
<1>1. CASE Get(t)
  BY <1>1 DEF Get, StepsLeft
<1>2. CASE \E d \in Dims : Embed(t, d)
  BY <1>2 DEF Embed, StepsLeft
<1>3. CASE Search(t)
  <2>1. pc[t] = "search" /\ pc'[t] \in {"done", "extract", "ingest"}
    BY <1>3 DEF Search
  <2> QED BY <2>1 DEF StepsLeft
<1>4. CASE Extract(t) \/ Ingest(t)
  <2>1. pc[t] \in {"extract", "ingest"} /\ pc'[t] \in {"done", "upsert"}
    BY <1>4 DEF Extract, ExtractAdd, ExtractUpdate, Ingest, Save
  <2> QED BY <2>1 DEF StepsLeft
<1>5. CASE Upsert(t)
  <2>1. pc[t] = "upsert" /\ pc'[t] \in {"done", "fts_clear"}
    BY <1>5 DEF Upsert
  <2> QED BY <2>1 DEF StepsLeft
<1>6. CASE FtsClear(t)
  BY <1>6 DEF FtsClear, StepsLeft
<1>7. CASE FtsInsert(t) \/ FtsDelete(t)
  <2>1. pc[t] \in {"fts_insert", "fts_delete"} /\ pc'[t] = "done"
    BY <1>7 DEF FtsInsert, FtsDelete
  <2> QED BY <2>1 DEF StepsLeft
<1>8. CASE DelRow(t)
  <2>1. pc[t] = "del_row" /\ pc'[t] \in {"done", "fts_delete"}
    BY <1>8 DEF DelRow
  <2> QED BY <2>1 DEF StepsLeft
<1>9. CASE Fails(t)
  <2>1. pc[t] \in Working \cup Indexing /\ pc'[t] = "done"
    BY <1>9 DEF Fails
  <2>2. StepsLeft(pc[t]) \in 2 .. 8 /\ StepsLeft("done") = 1
    BY <2>1 DEF Working, Indexing, StepsLeft
  <2> QED BY <2>1, <2>2
<1>10. CASE Reply(t)
  BY <1>10 DEF Reply, StepsLeft
<1> QED BY <1>1, <1>2, <1>3, <1>4, <1>5, <1>6, <1>7, <1>8, <1>9, <1>10 DEF Step

(* Every step that a task takes brings its call nearer to its end, of which  *)
(* at most eight are left, whatever fails; no step of the others, of the     *)
(* client or of a process that dies takes a call back: nothing is retried.  *)
THEOREM CallsAdvance ==
  Spec => [][\A t \in Tasks :
               /\ pc[t] # "idle" =>
                    pc'[t] = pc[t] \/ StepsLeft(pc'[t]) < StepsLeft(pc[t])
               /\ Step(t) => StepsLeft(pc'[t]) < StepsLeft(pc[t])]_vars
<1> DEFINE Advance(t) ==
             /\ pc[t] # "idle" => pc'[t] = pc[t] \/ StepsLeft(pc'[t]) < StepsLeft(pc[t])
             /\ Step(t) => StepsLeft(pc'[t]) < StepsLeft(pc[t])
<1>1. ASSUME CallInv, Next, NEW u \in Tasks PROVE Advance(u)
  <2>1. PICK t \in Tasks : (\E r \in Requests : Begin(t, r)) \/ Step(t) \/ Abort(t)
    BY <1>1 DEF Next
  <2>2. CASE Step(u)
    BY <1>1, <2>2, StepAdvances
  <2>3. CASE ~Step(u) /\ u # t
    BY <1>1, <2>1, <2>3, OthersKept
  <2>4. CASE ~Step(u) /\ u = t /\ \E r \in Requests : Begin(t, r)
    BY <2>4 DEF Begin
  <2>5. CASE ~Step(u) /\ u = t /\ Abort(t)
    <3>1. pc'[t] = "idle" /\ pc[t] \in Labels \ {"idle"}
      BY <1>1, <2>5 DEF Abort, Goto, CallInv, TypeOK
    <3>2. StepsLeft(pc[t]) \in 1 .. 8 /\ StepsLeft("idle") = 0
      BY <3>1 DEF Labels, Working, Indexing, StepsLeft
    <3> QED BY <2>5, <3>1, <3>2
  <2> QED BY <2>1, <2>2, <2>3, <2>4, <2>5
<1>2. CallInv /\ [Next]_vars => [\A t \in Tasks : Advance(t)]_vars
  BY <1>1
<1> QED BY <1>2, CallInvariant, PTL DEF Spec
=============================================================================
