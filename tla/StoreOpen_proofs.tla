--------------------------- MODULE StoreOpen_proofs ---------------------------
(***************************************************************************)
(* Opening a store is safe for any number of processes, ids and dimensions. *)
(***************************************************************************)
EXTENDS StoreOpen, TLAPS

(* Past the check of the table, or past the migrations.                     *)
Checked == {"create_ann", "fts", "swap", "create_fts", "backfill"} \cup Serving
Migrated == (PgOpening \ {"migrate"}) \cup {"open"}

(* A process runs the code of its backend only.                             *)
BackendSteps ==
  \A p \in Procs :
    /\ backend = "libsql" => pc[p] \in {"down"} \cup LibsqlOpening \cup Serving
    /\ backend = "postgres" => pc[p] \in {"down"} \cup PgOpening \cup {"open"}

(* libsql never changes a column, so the check is still true later.         *)
CheckHolds ==
  backend = "libsql" => \A p \in Procs : pc[p] \in Checked => dim[p] = col

Ready ==
  \A p \in Procs :
    /\ pc[p] \in Checked \cup Migrated => col # NoDim
    /\ pc[p] \in {"backfill"} \cup Serving \cup Migrated => kind = "porter"

DimInv ==
  /\ TypeOK
  /\ BackendSteps
  /\ CheckHolds
  /\ Ready
  /\ RowsFitColumn

(* A row without an entry is some process's work under way.                 *)
Pending(i) == \E p \in Procs : pc[p] \in {"clear", "append"} /\ busy[p] = i

IndexInv ==
  /\ backend = "postgres" => kind # "plain"
  /\ \A p \in Procs : pc[p] \in Writing => busy[p] \in Ids
  /\ \A p, q \in Procs : busy[p] = busy[q] /\ busy[p] # NoId => p = q
  /\ \A p \in Procs : pc[p] = "unindex" => rows[busy[p]] = NoDim
  /\ ~torn /\ kind = "porter" /\ (\A p \in Procs : pc[p] # "backfill")
       => \A i \in Stored : hits[i] > 0 \/ Pending(i)
------------------------------------------------------------------------------
LEMMA InitDimInv == Init => DimInv
<1> SUFFICES ASSUME Init PROVE DimInv
  OBVIOUS
<1>1. \A p \in Procs : pc[p] = "down"
  BY DEF Init
<1>2. kind \in {"none", "plain", "porter"}
  BY DEF Init
<1>3. \A i \in Ids : rows[i] \in {NoDim, col}
  BY DEF Init
<1>4. TypeOK
  <2>1. rows \in [Ids -> Dims \cup {NoDim}]
    BY DEF Init
  <2>2. hits \in [Ids -> Nat]
    BY DEF Init
  <2>3. pc \in [Procs -> {"down"} \cup LibsqlOpening \cup PgOpening \cup Serving]
    BY DEF Init
  <2> QED BY <1>2, <2>1, <2>2, <2>3 DEF Init, TypeOK
<1> QED
  BY <1>1, <1>3, <1>4 DEF DimInv, BackendSteps, CheckHolds, Ready, RowsFitColumn, Stored,
     LibsqlOpening, PgOpening, Writing, Serving, Checked, Migrated

LEMMA NextDimInv == DimInv /\ [Next]_vars => DimInv'
<1> SUFFICES ASSUME DimInv, [Next]_vars
             PROVE  DimInv'
  OBVIOUS
<1> USE OpenAssumption
        DEF DimInv, TypeOK, BackendSteps, CheckHolds, Ready, RowsFitColumn, Stored,
            LibsqlOpening, PgOpening, Writing, Serving, Checked, Migrated, Goto, store
<1>1. ASSUME NEW p \in Procs, Start(p) PROVE DimInv'
  BY <1>1 DEF Start
<1>2. ASSUME NEW p \in Procs, ReadTable(p) PROVE DimInv'
  BY <1>2 DEF ReadTable
<1>3. ASSUME NEW p \in Procs, CreateTable(p) PROVE DimInv'
  BY <1>3 DEF CreateTable
<1>4. ASSUME NEW p \in Procs, CreateAnn(p) PROVE DimInv'
  BY <1>4 DEF CreateAnn
<1>5. ASSUME NEW p \in Procs, ReadFts(p) PROVE DimInv'
  BY <1>5 DEF ReadFts
<1>6. ASSUME NEW p \in Procs, SwapFts(p) PROVE DimInv'
  BY <1>6 DEF SwapFts
<1>7. ASSUME NEW p \in Procs, CreateFts(p) PROVE DimInv'
  BY <1>7 DEF CreateFts
<1>8. ASSUME NEW p \in Procs, Backfill(p) PROVE DimInv'
  BY <1>8 DEF Backfill, Indexed, Missing
<1>9. ASSUME NEW p \in Procs, Migrate(p) PROVE DimInv'
  BY <1>9 DEF Migrate, Indexed
<1>10. ASSUME NEW p \in Procs, ReadColumn(p) PROVE DimInv'
  BY <1>10 DEF ReadColumn
<1>11. ASSUME NEW p \in Procs, AlterColumn(p) PROVE DimInv'
  BY <1>11 DEF AlterColumn
<1>12. ASSUME NEW p \in Procs, DropAnn(p) PROVE DimInv'
  BY <1>12 DEF DropAnn
<1>13. ASSUME NEW p \in Procs, RecreateAnn(p) PROVE DimInv'
  BY <1>13 DEF RecreateAnn
<1>14. ASSUME NEW p \in Procs, NEW i \in Ids, SaveRow(p, i) PROVE DimInv'
  BY <1>14 DEF SaveRow, Free
<1>15. ASSUME NEW p \in Procs, NEW i \in Ids, DeleteRow(p, i) PROVE DimInv'
  BY <1>15 DEF DeleteRow, Free
<1>16. ASSUME NEW p \in Procs, Reindex(p) PROVE DimInv'
  BY <1>16 DEF Reindex, Indexed
<1>17. ASSUME NEW p \in Procs, Stop(p) PROVE DimInv'
  BY <1>17 DEF Stop
<1>18. CASE UNCHANGED vars
  BY <1>18 DEF vars
<1> QED
  BY <1>1, <1>2, <1>3, <1>4, <1>5, <1>6, <1>7, <1>8, <1>9,
     <1>10, <1>11, <1>12, <1>13, <1>14, <1>15, <1>16, <1>17, <1>18 DEF Next

THEOREM DimInvariant == Spec => []DimInv
<1> QED BY InitDimInv, NextDimInv, PTL DEF Spec

(* All stored vectors have the dimension of the column (RowsFitColumn),     *)
(* however the processes that open the store are configured.                *)
THEOREM RowsFit == Spec => []RowsFitColumn
<1>1. DimInv => RowsFitColumn
  BY DEF DimInv
<1> QED BY <1>1, DimInvariant, PTL

(* What LibsqlProvider::open checked holds for as long as the process       *)
(* serves (OpenDimAgrees).                                                  *)
THEOREM OpenCheckLasts == Spec => []OpenDimAgrees
<1>1. DimInv => OpenDimAgrees
  BY DEF DimInv, CheckHolds, OpenDimAgrees, Checked
<1> QED BY <1>1, DimInvariant, PTL

(* A process that serves has a table and a stemmed index (ServingMeansReady). *)
THEOREM ServingIsReady == Spec => []ServingMeansReady
<1>1. DimInv => ServingMeansReady
  BY DEF DimInv, Ready, ServingMeansReady, Checked
<1> QED BY <1>1, DimInvariant, PTL

------------------------------------------------------------------------------
LEMMA InitIndexInv == Init => IndexInv
<1> SUFFICES ASSUME Init PROVE IndexInv
  OBVIOUS
<1>1. backend = "postgres" => kind # "plain"
  BY DEF Init
<1>2. kind = "porter" => \A i \in Stored : hits[i] > 0
  BY DEF Init, Stored
<1> QED
  BY <1>1, <1>2 DEF Init, IndexInv, Writing

LEMMA NextIndexInv == DimInv /\ IndexInv /\ [Next]_vars => IndexInv'
<1> SUFFICES ASSUME DimInv, IndexInv, [Next]_vars
             PROVE  IndexInv'
  OBVIOUS
<1> USE OpenAssumption
        DEF DimInv, TypeOK, BackendSteps, IndexInv, Pending, Stored,
            LibsqlOpening, PgOpening, Writing, Serving, Goto, store
<1>1. ASSUME NEW p \in Procs, Start(p) PROVE IndexInv'
  BY <1>1 DEF Start
<1>2. ASSUME NEW p \in Procs, ReadTable(p) PROVE IndexInv'
  BY <1>2 DEF ReadTable
<1>3. ASSUME NEW p \in Procs, CreateTable(p) PROVE IndexInv'
  BY <1>3 DEF CreateTable
<1>4. ASSUME NEW p \in Procs, CreateAnn(p) PROVE IndexInv'
  BY <1>4 DEF CreateAnn
<1>5. ASSUME NEW p \in Procs, ReadFts(p) PROVE IndexInv'
  BY <1>5 DEF ReadFts
<1>6. ASSUME NEW p \in Procs, SwapFts(p) PROVE IndexInv'
  BY <1>6 DEF SwapFts
<1>7. ASSUME NEW p \in Procs, CreateFts(p) PROVE IndexInv'
  BY <1>7 DEF CreateFts
<1>8. ASSUME NEW p \in Procs, Backfill(p) PROVE IndexInv'
  BY <1>8 DEF Backfill, Indexed, Missing
<1>9. ASSUME NEW p \in Procs, Migrate(p) PROVE IndexInv'
  BY <1>9 DEF Migrate, Indexed
<1>10. ASSUME NEW p \in Procs, ReadColumn(p) PROVE IndexInv'
  BY <1>10 DEF ReadColumn
<1>11. ASSUME NEW p \in Procs, AlterColumn(p) PROVE IndexInv'
  BY <1>11 DEF AlterColumn
<1>12. ASSUME NEW p \in Procs, DropAnn(p) PROVE IndexInv'
  BY <1>12 DEF DropAnn
<1>13. ASSUME NEW p \in Procs, RecreateAnn(p) PROVE IndexInv'
  BY <1>13 DEF RecreateAnn
<1>14. ASSUME NEW p \in Procs, NEW i \in Ids, SaveRow(p, i) PROVE IndexInv'
  BY <1>14 DEF SaveRow, Free, RowsFitColumn
<1>15. ASSUME NEW p \in Procs, NEW i \in Ids, DeleteRow(p, i) PROVE IndexInv'
  BY <1>15 DEF DeleteRow, Free
<1>16. ASSUME NEW p \in Procs, Reindex(p) PROVE IndexInv'
  BY <1>16 DEF Reindex, Indexed
<1>17. ASSUME NEW p \in Procs, Stop(p) PROVE IndexInv'
  <2>1. pc[p] \in {"backfill"} \cup Writing => torn'
    BY <1>17 DEF Stop
  <2>2. torn => torn'
    BY <1>17 DEF Stop
  <2>3. /\ pc' = [pc EXCEPT ![p] = "down"]
        /\ busy' = [busy EXCEPT ![p] = NoId]
        /\ UNCHANGED <<backend, kind, rows, hits>>
    BY <1>17 DEF Stop
  <2>4. ASSUME ~torn', kind' = "porter", \A q \in Procs : pc'[q] # "backfill"
        PROVE  (\A i \in Stored : hits[i] > 0 \/ Pending(i))'
    <3>1. pc[p] \notin {"backfill"} \cup Writing /\ ~torn
      BY <2>1, <2>2, <2>4
    <3>2. \A q \in Procs : pc[q] # "backfill"
      BY <2>3, <2>4, <3>1
    <3>3. \A i \in Stored : hits[i] > 0 \/ Pending(i)
      BY <2>3, <2>4, <3>1, <3>2
    <3>4. \A i \in Ids : Pending(i) => Pending(i)'
      BY <2>3, <3>1
    <3> QED BY <2>3, <3>3, <3>4
  <2> QED BY <2>3, <2>4
<1>18. CASE UNCHANGED vars
  BY <1>18 DEF vars
<1> QED
  BY <1>1, <1>2, <1>3, <1>4, <1>5, <1>6, <1>7, <1>8, <1>9,
     <1>10, <1>11, <1>12, <1>13, <1>14, <1>15, <1>16, <1>17, <1>18 DEF Next

(* Unless a process died over it, no row stays out of a stemmed index       *)
(* (NoRowUnindexed): neither the migration nor a write loses one.           *)
THEOREM RowsAreIndexed == Spec => []NoRowUnindexed
<1>1. IndexInv => NoRowUnindexed
  BY DEF IndexInv, NoRowUnindexed, Pending, Writing
<1> QED BY <1>1, InitIndexInv, NextIndexInv, DimInvariant, PTL DEF Spec
=============================================================================
