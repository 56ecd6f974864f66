---------------------------- MODULE StorageTables ----------------------------
(***************************************************************************)
(* The persistent state both storage backends keep: the `memories` table    *)
(* and the full-text index over its `content` column.  A row carries what   *)
(* the properties tell apart: its owner, its text, the vector it is found   *)
(* by and its metadata.  A vector is the text that was embedded and the     *)
(* dimension the embedder returned.  The timestamps are left out here.      *)
(***************************************************************************)
EXTENDS Naturals, FiniteSets, Sequences

CONSTANTS
  Ids,          \* memory ids (UUIDs)
  Users,        \* values of user_id
  Texts,        \* memory contents
  Metas,        \* metadata maps
  Dims,         \* embedding dimensions an embedder may return
  StoreDim,     \* the dimension the store was opened with
  SearchLimit,  \* SEARCH_LIMIT, 5 in the code
  Near,         \* pairs of texts whose vectors score above 0.98
  NoRow         \* "no such row"

Vector == [text : Texts, dim : Dims]
Row == [user : Users, content : Texts, vec : Vector, meta : Metas]
Table == [Ids -> Row \cup {NoRow}]

ASSUME TablesAssumption ==
  /\ StoreDim \in Dims
  /\ NoRow \notin Row
  /\ Near \subseteq Texts \X Texts
  /\ \A x \in Texts : <<x, x>> \in Near   \* cosine(v, v) = 1 > 0.98

VARIABLES
  memories,     \* id -> row or NoRow
  fts           \* id -> the contents indexed under that id, oldest first

TablesTypeOK ==
  /\ memories \in Table
  /\ fts \in [Ids -> Seq(Texts)]

TablesInit ==
  /\ memories = [i \in Ids |-> NoRow]
  /\ fts = [i \in Ids |-> <<>>]

(* check_dim: the vector has the dimension the provider was opened with.    *)
DimMatches(v) == v.dim = StoreDim

(* Definitions named X_... here and in the modules that extend this one are *)
(* faulty variants of X; they show that the properties notice the fault.    *)
RowsOf_AnyUser(u) == {i \in Ids : memories[i] # NoRow}

RowsOf(u) == {i \in Ids : memories[i] # NoRow /\ memories[i].user = u}

(* The score of a row against v is above RAW_DEDUPE_THRESHOLD.              *)
NearDuplicate(r, v) == <<r.vec.text, v.text>> \in Near

(* Without ORDER BY.                                                        *)
VectorHits_Unranked(u, v) ==
  {S \in SUBSET RowsOf(u) : /\ Cardinality(S) <= SearchLimit
                            /\ Cardinality(S) < SearchLimit => S = RowsOf(u)}

(* The id sets search_memory(u, v, SEARCH_LIMIT) may return from an exact   *)
(* scan (libsql): as many of u's rows as the limit allows, near duplicates  *)
(* ranked before the others.                                                *)
VectorHits(u, v) ==
  {S \in SUBSET RowsOf(u) :
     /\ Cardinality(S) <= SearchLimit
     /\ Cardinality(S) < SearchLimit => S = RowsOf(u)
     /\ \A i \in S, j \in RowsOf(u) \ S :
          NearDuplicate(memories[j], v) => NearDuplicate(memories[i], v)}

(* The index entries of id i are exactly what its row calls for.            *)
InLockstep(i) ==
  fts[i] = IF memories[i] = NoRow THEN <<>> ELSE <<memories[i].content>>
=============================================================================
