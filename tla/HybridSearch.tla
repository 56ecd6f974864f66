---------------------------- MODULE HybridSearch -----------------------------
(***************************************************************************)
(* MemoryService::search_memory_filtered: a vector search and a full-text   *)
(* search, one statement each, merged by reciprocal rank fusion, while      *)
(* other processes write.                                                   *)
(***************************************************************************)
EXTENDS SharedRows, Sequences

CONSTANTS
  RrfK,         \* RRF_K, 60 in the code
  NoAnswer

ASSUME SearchAssumption == RrfK \in Nat

VARIABLES
  phase,        \* where the search is
  top,          \* its limit
  scope,        \* its filter
  vectorHits,   \* the rows each statement returned, best first
  textHits,
  fused         \* the answer: copies of rows, best first

searchvars == <<phase, top, scope, vectorHits, textHits, fused>>

Hit == [id : Ids, row : Row]
IdsOf(leg) == {leg[k].id : k \in DOMAIN leg}

SearchInit ==
  /\ phase = "idle" /\ top = 0 /\ scope = NoFilter
  /\ vectorHits = <<>> /\ textHits = <<>> /\ fused = NoAnswer

(* What a statement with LIMIT l may return: rows in scope, in any order,   *)
(* and as few as match the words or as an approximate index finds.          *)
Rankings(f, l) ==
  UNION {{[k \in 1 .. n |-> [id |-> s[k], row |-> rows[s[k]]]] :
            s \in {s \in [1 .. n -> InScope(f)] :
                     \A j, k \in 1 .. n : s[j] = s[k] => j = k}} :
         n \in 0 .. l}

------------------------------------------------------------------------------
(* fuse: an id scores 1 / (RRF_K + rank) in each list it is in.             *)

Rank(leg, i) == CHOOSE k \in DOMAIN leg : leg[k].id = i

(* Fractions are pairs <<numerator, denominator>>.                          *)
Part_FromEnd(leg, i) ==
  IF i \in IdsOf(leg) THEN <<1, RrfK + Len(leg) - Rank(leg, i)>> ELSE <<0, 1>>

Part(leg, i) == IF i \in IdsOf(leg) THEN <<1, RrfK + Rank(leg, i)>> ELSE <<0, 1>>

Score_BestLeg(v, t, i) == IF i \in IdsOf(v) THEN Part(v, i) ELSE Part(t, i)

Score(v, t, i) ==
  LET p == Part(v, i)
      q == Part(t, i)
  IN <<p[1] * q[2] + q[1] * p[2], p[2] * q[2]>>

Above(x, y) == x[1] * y[2] > y[1] * x[2]

(* The copy that is kept is the one of the first list with the id.          *)
Copy(v, t, i) ==
  LET leg == IF i \in IdsOf(v) THEN v ELSE t IN leg[Rank(leg, i)]

(* The ids of the answer, best first, cut to l: equal scores come in the    *)
(* order of a HashMap, which is any.                                        *)
FusedIds(v, t, l) ==
  LET U == IdsOf(v) \cup IdsOf(t)
      n == IF Cardinality(U) < l THEN Cardinality(U) ELSE l
  IN {s \in [1 .. n -> U] :
        /\ \A j, k \in 1 .. n : j < k => s[j] # s[k] /\ ~Above(Score(v, t, s[k]), Score(v, t, s[j]))
        /\ \A i \in U \ {s[k] : k \in 1 .. n}, k \in 1 .. n :
             ~Above(Score(v, t, i), Score(v, t, s[k]))}

Fuse(v, t, l) == {[k \in DOMAIN s |-> Copy(v, t, s[k])] : s \in FusedIds(v, t, l)}

------------------------------------------------------------------------------
(* A caller searches; validate_limit, and the embedding of the query, which *)
(* reads nothing that others write.                                         *)
Search(l, f) ==
  /\ phase = "idle"
  /\ l <= MaxPageSize
  /\ phase' = "vector"
  /\ top' = l /\ scope' = f
  /\ UNCHANGED <<tablevars, vectorHits, textHits, fused>>

VectorLeg ==
  /\ phase = "vector"
  /\ phase' = "text"
  /\ vectorHits' \in Rankings(scope, top)
  /\ UNCHANGED <<tablevars, top, scope, textHits, fused>>

TextLeg_Unfiltered ==
  /\ phase = "text"
  /\ phase' = "answered"
  /\ textHits' \in Rankings(NoFilter, top)
  /\ fused' \in Fuse(vectorHits, textHits', top)
  /\ UNCHANGED <<tablevars, top, scope, vectorHits>>

(* The second statement and the fusion.                                     *)
TextLeg ==
  /\ phase = "text"
  /\ phase' = "answered"
  /\ textHits' \in Rankings(scope, top)
  /\ fused' \in Fuse(vectorHits, textHits', top)
  /\ UNCHANGED <<tablevars, top, scope, vectorHits>>

(* The answer is delivered, or an await fails, and nothing is left.         *)
Finish ==
  /\ phase # "idle"
  /\ phase' = "idle"
  /\ top' = 0 /\ scope' = NoFilter
  /\ vectorHits' = <<>> /\ textHits' = <<>> /\ fused' = NoAnswer
  /\ UNCHANGED tablevars

SearchStep ==
  \/ \E l \in 0 .. MaxPageSize, f \in Filter : Search(l, f)
  \/ VectorLeg
  \/ TextLeg
  \/ Finish

(* A search alone with those who write.                                     *)
SearchSpec ==
  /\ RowsInit /\ SearchInit
  /\ [][SearchStep \/ (OtherWrite /\ UNCHANGED searchvars)]_<<tablevars, searchvars>>

------------------------------------------------------------------------------
(* Properties of an answer.                                                 *)

Found == phase = "answered"
Place(i) == CHOOSE k \in DOMAIN fused : fused[k].id = i
RankIn(leg, i) == IF i \in IdsOf(leg) THEN Rank(leg, i) ELSE MaxPageSize + 1

(* Each memory is in the answer once, even when it was written between the  *)
(* two statements, the answer is as long as the limit and the hits allow,   *)
(* and no memory stands behind one that neither list ranked higher.         *)
FusionRespectsRanks ==
  Found =>
    LET U == IdsOf(vectorHits) \cup IdsOf(textHits) IN
    /\ Len(fused) = Cardinality(IdsOf(fused))
    /\ Len(fused) = (IF Cardinality(U) < top THEN Cardinality(U) ELSE top)
    /\ \A i, j \in U :
         /\ RankIn(vectorHits, i) <= RankIn(vectorHits, j)
         /\ RankIn(textHits, i) <= RankIn(textHits, j)
         /\ i # j
         /\ j \in IdsOf(fused)
         => i \in IdsOf(fused) /\ Place(i) < Place(j)

(* With a limit of at most RRF_K + 1 what both searches found comes before  *)
(* what only one of them found, and is never cut.                           *)
AgreedFirst ==
  Found /\ top <= RrfK + 1 =>
    \A i \in IdsOf(vectorHits) \cap IdsOf(textHits) :
      /\ i \in IdsOf(fused)
      /\ \A k \in 1 .. Place(i) : fused[k].id \in IdsOf(vectorHits) \cap IdsOf(textHits)

(* Every hit matched the filter when it was read, though its row may have   *)
(* changed between the statements.                                          *)
HitsMatchFilter == Found => \A k \in DOMAIN fused : Matches(fused[k].row, scope)
=============================================================================
